--------------------------- MODULE BoardSyncProofs --------------------------
(***************************************************************************)
(* Proofs about BoardSync, for any tasks, any size of the rings, and any   *)
(* number of messages, broken connections and steps in flight.             *)
(***************************************************************************)
EXTENDS BoardSync, SequenceFacts, TLAPS

P == INSTANCE TaskLifecycleProofs

-----------------------------------------------------------------------------
(***************************************************************************)
(* The ring of a task is a bounded queue: pushing appends, and drops the   *)
(* oldest message when the ring is full.  For every size of the ring.      *)
(***************************************************************************)
RingOf(V) == [buffer : [Places -> V], head : Places, count : 0 .. MaxSize]

\* The message at position i, counted from the oldest.
At(ring, i) == ring.buffer[(ring.head + i - 1) % MaxSize]

-----------------------------------------------------------------------------
\* The index arithmetic of the ring wraps around at most once.
LEMMA WrapsOnce ==
  ASSUME NEW a \in 0 .. 2 * MaxSize - 1
  PROVE  a % MaxSize = IF a < MaxSize THEN a ELSE a - MaxSize
BY MaxSizeAssumption

\* The place behind the newest message is none of those in use.
LEMMA RoomIsElsewhere ==
  ASSUME NEW head \in Places, NEW count \in 0 .. MaxSize - 1
  PROVE  /\ (head + count) % MaxSize \in Places
         /\ \A i \in 1 .. count : /\ (head + i - 1) % MaxSize \in Places
                                  /\ (head + i - 1) % MaxSize # (head + count) % MaxSize
<1>1. head + count \in 0 .. 2 * MaxSize - 1
  BY MaxSizeAssumption DEF Places
<1>2. (head + count) % MaxSize =
        IF head + count < MaxSize THEN head + count ELSE head + count - MaxSize
  BY <1>1, WrapsOnce, MaxSizeAssumption DEF Places
<1>3. ASSUME NEW i \in 1 .. count
      PROVE  /\ (head + i - 1) % MaxSize \in Places
             /\ (head + i - 1) % MaxSize # (head + count) % MaxSize
  <2>1. head + i - 1 \in 0 .. 2 * MaxSize - 1
    BY MaxSizeAssumption DEF Places
  <2>2. (head + i - 1) % MaxSize =
          IF head + i - 1 < MaxSize THEN head + i - 1 ELSE head + i - 1 - MaxSize
    BY <2>1, WrapsOnce, MaxSizeAssumption DEF Places
  <2> QED
    BY <1>2, <2>2, MaxSizeAssumption DEF Places
<1> QED
  BY <1>2, <1>3, MaxSizeAssumption DEF Places

\* Moving the head by one renumbers the places and passes the old head last.
LEMMA HeadMoves ==
  ASSUME NEW head \in Places, NEW next \in Places,
         next = IF head + 1 < MaxSize THEN head + 1 ELSE 0
  PROVE  /\ \A i \in 1 .. MaxSize - 1 : /\ (next + i - 1) % MaxSize = (head + (i + 1) - 1) % MaxSize
                                        /\ (next + i - 1) % MaxSize \in Places \ {head}
         /\ (next + MaxSize - 1) % MaxSize = head
<1>1. ASSUME NEW i \in 1 .. MaxSize - 1
      PROVE  /\ (next + i - 1) % MaxSize = (head + (i + 1) - 1) % MaxSize
             /\ (next + i - 1) % MaxSize \in Places \ {head}
  <2>1. head + i \in 0 .. 2 * MaxSize - 1
    BY MaxSizeAssumption DEF Places
  <2>2. (head + i) % MaxSize = IF head + i < MaxSize THEN head + i ELSE head + i - MaxSize
    BY <2>1, WrapsOnce, MaxSizeAssumption DEF Places
  <2>3. next + i - 1 \in 0 .. 2 * MaxSize - 1
    BY MaxSizeAssumption DEF Places
  <2>4. (next + i - 1) % MaxSize =
          IF next + i - 1 < MaxSize THEN next + i - 1 ELSE next + i - 1 - MaxSize
    BY <2>3, WrapsOnce, MaxSizeAssumption DEF Places
  <2>5. head + (i + 1) - 1 = head + i
    BY MaxSizeAssumption DEF Places
  <2> QED
    BY <2>2, <2>4, <2>5, MaxSizeAssumption DEF Places
<1>2. (next + MaxSize - 1) % MaxSize = head
  <2>1. next + MaxSize - 1 \in 0 .. 2 * MaxSize - 1
    BY MaxSizeAssumption DEF Places
  <2>2. (next + MaxSize - 1) % MaxSize =
          IF next + MaxSize - 1 < MaxSize THEN next + MaxSize - 1
                                          ELSE next + MaxSize - 1 - MaxSize
    BY <2>1, WrapsOnce, MaxSizeAssumption DEF Places
  <2> QED
    BY <2>2, MaxSizeAssumption DEF Places
<1> QED
  BY <1>1, <1>2

-----------------------------------------------------------------------------
\* An empty ring is a ring.
LEMMA EmptyRing ==
  ASSUME NEW V, NoMessage \in V
  PROVE  Empty \in RingOf(V) /\ Empty.count = 0
BY MaxSizeAssumption DEF Empty, RingOf, Places

\* What a ring returns: as many messages as it counts, from the oldest on.
LEMMA GetAllOf ==
  ASSUME NEW V, NEW ring \in RingOf(V)
  PROVE  /\ DOMAIN GetAll(ring) = 1 .. ring.count
         /\ Len(GetAll(ring)) = ring.count
         /\ \A i \in 1 .. ring.count : GetAll(ring)[i] = At(ring, i)
<1>1. ring.count \in Nat
  BY MaxSizeAssumption DEF RingOf
<1>2. Len(GetAll(ring)) = ring.count
  BY <1>1 DEF GetAll
<1> QED
  BY <1>2 DEF GetAll, At

\* A ring that is not full keeps what it holds and takes one message more.
LEMMA PushWithRoom ==
  ASSUME NEW V, NEW ring \in RingOf(V), NEW message \in V, ring.count < MaxSize
  PROVE  /\ Push(ring, message) \in RingOf(V)
         /\ Push(ring, message).count = ring.count + 1
         /\ \A i \in 1 .. ring.count : At(Push(ring, message), i) = At(ring, i)
         /\ At(Push(ring, message), ring.count + 1) = message
<1> DEFINE index == (ring.head + ring.count) % MaxSize
<1>1. /\ ring.head \in Places /\ ring.count \in 0 .. MaxSize - 1
      /\ ring.buffer \in [Places -> V]
      /\ ring = [buffer |-> ring.buffer, head |-> ring.head, count |-> ring.count]
  BY MaxSizeAssumption DEF RingOf
<1>2. /\ index \in Places
      /\ \A i \in 1 .. ring.count : /\ (ring.head + i - 1) % MaxSize \in Places
                                    /\ (ring.head + i - 1) % MaxSize # index
  BY <1>1, RoomIsElsewhere
<1>3. Push(ring, message) = [ring EXCEPT !.buffer[index] = message, !.count = @ + 1]
  BY DEF Push
<1> HIDE DEF index
<1>4. Push(ring, message) = [buffer |-> [ring.buffer EXCEPT ![index] = message],
                             head |-> ring.head, count |-> ring.count + 1]
  BY <1>1, <1>3, Zenon
<1>5. Push(ring, message) \in RingOf(V)
  BY <1>1, <1>2, <1>4, MaxSizeAssumption DEF RingOf
<1>6. \A i \in 1 .. ring.count : At(Push(ring, message), i) = At(ring, i)
  BY <1>1, <1>2, <1>4 DEF At
<1>7. At(Push(ring, message), ring.count + 1) = message
  <2>1. ring.head + (ring.count + 1) - 1 = ring.head + ring.count
    BY <1>1, MaxSizeAssumption DEF Places
  <2> QED
    BY <1>1, <1>2, <1>4, <2>1 DEF At, index
<1> QED
  BY <1>4, <1>5, <1>6, <1>7

\* A full ring drops its oldest message and takes the new one.
LEMMA PushWhenFull ==
  ASSUME NEW V, NEW ring \in RingOf(V), NEW message \in V, ring.count = MaxSize
  PROVE  /\ Push(ring, message) \in RingOf(V)
         /\ Push(ring, message).count = MaxSize
         /\ \A i \in 1 .. MaxSize - 1 : At(Push(ring, message), i) = At(ring, i + 1)
         /\ At(Push(ring, message), MaxSize) = message
<1> DEFINE next == (ring.head + 1) % MaxSize
<1>1. /\ ring.head \in Places /\ ring.buffer \in [Places -> V]
      /\ ring = [buffer |-> ring.buffer, head |-> ring.head, count |-> ring.count]
  BY DEF RingOf
<1>0. next = (IF ring.head + 1 < MaxSize THEN ring.head + 1 ELSE 0) /\ next \in Places
  BY <1>1, WrapsOnce, MaxSizeAssumption DEF Places
<1>2. /\ \A i \in 1 .. MaxSize - 1 :
           /\ (next + i - 1) % MaxSize = (ring.head + (i + 1) - 1) % MaxSize
           /\ (next + i - 1) % MaxSize \in Places \ {ring.head}
      /\ (next + MaxSize - 1) % MaxSize = ring.head
  BY <1>1, <1>0, HeadMoves
<1>3. Push(ring, message) = [ring EXCEPT !.buffer[ring.head] = message, !.head = next]
  BY MaxSizeAssumption DEF Push
<1> HIDE DEF next
<1>4. Push(ring, message) = [buffer |-> [ring.buffer EXCEPT ![ring.head] = message],
                             head |-> next, count |-> MaxSize]
  BY <1>1, <1>3, Zenon
<1>5. Push(ring, message) \in RingOf(V)
  BY <1>0, <1>1, <1>4, MaxSizeAssumption DEF RingOf
<1>6. \A i \in 1 .. MaxSize - 1 : At(Push(ring, message), i) = At(ring, i + 1)
  BY <1>1, <1>2, <1>4 DEF At
<1>7. At(Push(ring, message), MaxSize) = message
  BY <1>1, <1>2, <1>4 DEF At
<1> QED
  BY <1>4, <1>5, <1>6, <1>7

-----------------------------------------------------------------------------
(***************************************************************************)
(* The rings of the tasks hold the latest messages.                        *)
(***************************************************************************)
Held == EventMessage \cup {NoMessage}

RingsOK ==
  /\ sent \in [Tasks -> Nat]
  /\ buffers \in [Tasks -> RingOf(Held)]

\* What the ring of t holds, if `number` messages about t were sent so far.
HoldsLatest(ring, t, number) ==
  /\ ring.count = IF number < MaxSize THEN number ELSE MaxSize
  /\ \A i \in 1 .. ring.count : /\ At(ring, i) \in EventMessage
                                /\ At(ring, i).task = t
                                /\ At(ring, i).n = number - ring.count + i

LatestInv == RingsOK /\ \A t \in Tasks : HoldsLatest(buffers[t], t, sent[t])

\* The rings say the same as the invariant that TLC checks.
LEMMA LatestIsHeld ==
  ASSUME LatestInv
  PROVE  BuffersHoldTheLatest
<1> SUFFICES ASSUME NEW t \in Tasks
             PROVE  LET held == GetAll(buffers[t])
                    IN  /\ Len(held) = IF sent[t] < MaxSize THEN sent[t] ELSE MaxSize
                        /\ \A i \in 1 .. Len(held) :
                             held[i].task = t /\ held[i].n = sent[t] - Len(held) + i
  BY DEF BuffersHoldTheLatest
<1>1. buffers[t] \in RingOf(Held) /\ HoldsLatest(buffers[t], t, sent[t])
  BY DEF LatestInv, RingsOK
<1>2. /\ Len(GetAll(buffers[t])) = buffers[t].count
      /\ \A i \in 1 .. buffers[t].count : GetAll(buffers[t])[i] = At(buffers[t], i)
  BY <1>1, GetAllOf
<1> QED
  BY <1>1, <1>2 DEF HoldsLatest

\* One message more about t, pushed into a ring that holds the latest.
LEMMA PushHoldsLatest ==
  ASSUME NEW t \in Tasks, NEW number \in Nat, NEW ring \in RingOf(Held),
         HoldsLatest(ring, t, number),
         NEW message \in EventMessage, message.task = t, message.n = number + 1
  PROVE  /\ Push(ring, message) \in RingOf(Held)
         /\ HoldsLatest(Push(ring, message), t, number + 1)
<1>1. ring.count \in 0 .. MaxSize /\ MaxSize \in Nat \ {0} /\ message \in Held
  BY MaxSizeAssumption DEF RingOf, Held
<1>2. CASE ring.count < MaxSize
  <2>1. /\ Push(ring, message) \in RingOf(Held)
        /\ Push(ring, message).count = ring.count + 1
        /\ \A i \in 1 .. ring.count : At(Push(ring, message), i) = At(ring, i)
        /\ At(Push(ring, message), ring.count + 1) = message
    BY <1>1, <1>2, PushWithRoom
  <2>2. ring.count = number
    BY <1>1, <1>2 DEF HoldsLatest
  <2>3. ASSUME NEW i \in 1 .. number + 1
        PROVE  /\ At(Push(ring, message), i) \in EventMessage
               /\ At(Push(ring, message), i).task = t
               /\ At(Push(ring, message), i).n = i
    <3>1. CASE i = number + 1
      BY <2>1, <2>2, <3>1
    <3>2. CASE i # number + 1
      BY <2>1, <2>2, <3>2 DEF HoldsLatest
    <3> QED
      BY <3>1, <3>2
  <2> QED
    BY <1>1, <1>2, <2>1, <2>2, <2>3 DEF HoldsLatest
<1>3. CASE ring.count = MaxSize
  <2>1. /\ Push(ring, message) \in RingOf(Held)
        /\ Push(ring, message).count = MaxSize
        /\ \A i \in 1 .. MaxSize - 1 : At(Push(ring, message), i) = At(ring, i + 1)
        /\ At(Push(ring, message), MaxSize) = message
    BY <1>1, <1>3, PushWhenFull
  <2>2. number >= MaxSize
    BY <1>1, <1>3 DEF HoldsLatest
  <2>3. ASSUME NEW i \in 1 .. MaxSize
        PROVE  /\ At(Push(ring, message), i) \in EventMessage
               /\ At(Push(ring, message), i).task = t
               /\ At(Push(ring, message), i).n = (number + 1) - MaxSize + i
    <3>1. CASE i = MaxSize
      BY <1>1, <2>1, <3>1
    <3>2. CASE i # MaxSize
      <4>1. i \in 1 .. MaxSize - 1 /\ i + 1 \in 1 .. ring.count
        BY <1>1, <1>3, <3>2
      <4>2. At(ring, i + 1) \in EventMessage /\ At(ring, i + 1).task = t /\ At(ring, i + 1).n = number - ring.count + (i + 1)
        BY <4>1 DEF HoldsLatest
      <4> QED
        BY <1>1, <1>3, <2>1, <4>1, <4>2
    <3> QED
      BY <3>1, <3>2
  <2> QED
    BY <1>1, <1>3, <2>1, <2>2, <2>3 DEF HoldsLatest
<1> QED
  BY <1>1, <1>2, <1>3

\* An operation that tells of t, whatever it tells, keeps the invariant.
LEMMA KeepOne ==
  ASSUME LatestInv, NEW t \in Tasks, NEW type \in EventType, Keep(<<Event(t, type)>>)
  PROVE  LatestInv'
<1> DEFINE message == Event(t, type)
<1>1. message \in EventMessage /\ message.task = t /\ message.n = sent[t] + 1
  BY DEF LatestInv, RingsOK, Event, EventMessage
<1>2. /\ buffers' = [u \in Tasks |-> IF u = t THEN Push(buffers[u], message) ELSE buffers[u]]
      /\ sent' = [u \in Tasks |-> IF u = t THEN sent[u] + 1 ELSE sent[u]]
  BY <1>1 DEF Keep
<1> HIDE DEF message
<1>3. ASSUME NEW u \in Tasks
      PROVE  /\ sent'[u] \in Nat /\ buffers'[u] \in RingOf(Held)
             /\ HoldsLatest(buffers'[u], u, sent'[u])
  <2>1. sent[u] \in Nat /\ buffers[u] \in RingOf(Held) /\ HoldsLatest(buffers[u], u, sent[u])
    BY DEF LatestInv, RingsOK
  <2>2. CASE u = t
    BY <1>1, <1>2, <2>1, <2>2, PushHoldsLatest
  <2>3. CASE u # t
    BY <1>2, <2>1, <2>3
  <2> QED
    BY <2>2, <2>3
<1>4. RingsOK'
  BY <1>2, <1>3 DEF RingsOK
<1> QED
  BY <1>3, <1>4 DEF LatestInv, HoldsLatest, At

\* An operation that tells of no run leaves the rings alone.
LEMMA KeepNone ==
  ASSUME LatestInv, Keep(<<>>)
  PROVE  UNCHANGED <<buffers, sent>>
BY DEF Keep, LatestInv, RingsOK

LEMMA LatestUnchanged ==
  ASSUME LatestInv, UNCHANGED <<buffers, sent>>
  PROVE  LatestInv'
BY DEF LatestInv, RingsOK, HoldsLatest, At

LEMMA LatestInit == Init => LatestInv
<1> SUFFICES ASSUME Init PROVE LatestInv
  OBVIOUS
<1>1. Empty \in RingOf(Held) /\ Empty.count = 0
  BY EmptyRing DEF Held
<1>2. buffers = [t \in Tasks |-> Empty] /\ sent = [t \in Tasks |-> 0]
  BY DEF Init
<1>3. RingsOK
  BY <1>1, <1>2 DEF RingsOK
<1> QED
  BY <1>1, <1>2, <1>3, MaxSizeAssumption DEF LatestInv, HoldsLatest

LEMMA LatestNext == LatestInv /\ [Next]_vars => LatestInv'
<1> SUFFICES ASSUME LatestInv, [Next]_vars PROVE LatestInv'
  OBVIOUS
<1> USE DEF Broadcast, EventType
<1>1. ASSUME NEW t \in Tasks, CreateTodoTask(t) PROVE LatestInv'
  BY <1>1, KeepNone, LatestUnchanged DEF CreateTodoTask
<1>2. ASSUME NEW t \in Tasks, CreateTask(t) PROVE LatestInv'
  BY <1>2, KeepNone, LatestUnchanged DEF CreateTask
<1>3. ASSUME NEW t \in Tasks, ExecuteTask(t) PROVE LatestInv'
  BY <1>3, KeepNone, LatestUnchanged DEF ExecuteTask
<1>4. ASSUME NEW t \in Tasks, ApproveTask(t) PROVE LatestInv'
  BY <1>4, KeepOne DEF ApproveTask
<1>5. ASSUME NEW t \in Tasks, RejectTask(t) PROVE LatestInv'
  BY <1>5, KeepOne DEF RejectTask
<1>6. ASSUME NEW t \in Tasks, CancelTask(t) PROVE LatestInv'
  BY <1>6, KeepNone, LatestUnchanged DEF CancelTask
<1>7. ASSUME NEW t \in Tasks, AskApproval(t) PROVE LatestInv'
  BY <1>7, KeepOne DEF AskApproval
<1>8. ASSUME NEW t \in Tasks, RunSucceeds(t) PROVE LatestInv'
  BY <1>8, KeepOne DEF RunSucceeds
<1>9. ASSUME NEW t \in Tasks, RunUnsuccessful(t) PROVE LatestInv'
  BY <1>9, KeepOne DEF RunUnsuccessful
<1>10. ASSUME NEW t \in Tasks, RunFails(t) PROVE LatestInv'
  BY <1>10, KeepOne DEF RunFails
<1>11. ASSUME NEW t \in Tasks, StartRejected(t) PROVE LatestInv'
  BY <1>11, KeepNone, LatestUnchanged DEF StartRejected
<1>12. ASSUME NEW t \in Tasks, Progress(t) PROVE LatestInv'
  BY <1>12, KeepOne DEF Progress
<1>13. CASE HandleRequest
  BY <1>13, LatestUnchanged DEF HandleRequest
<1>14. CASE Connect \/ Disconnect
  BY <1>14, LatestUnchanged DEF Connect, Disconnect, serverVars
<1>15. CASE SelectProject
  BY <1>15, LatestUnchanged DEF SelectProject, serverVars
<1>16. ASSUME NEW kind \in ListKind, AnswerList(kind) PROVE LatestInv'
  BY <1>16, LatestUnchanged DEF AnswerList, serverVars
<1>17. ASSUME NEW answer \in answers, TakeAnswer(answer) PROVE LatestInv'
  BY <1>17, LatestUnchanged DEF TakeAnswer, serverVars
<1>18. CASE HandleWsMessage
  BY <1>18, LatestUnchanged DEF HandleWsMessage, serverVars
<1>19. CASE UNCHANGED vars
  BY <1>19, LatestUnchanged DEF vars, serverVars
<1>20. ASSUME NEW t \in Tasks, RetryTask(t) PROVE LatestInv'
  BY <1>20, KeepNone, LatestUnchanged DEF RetryTask
<1>21. ASSUME NEW column \in Column, LoadMore(column) PROVE LatestInv'
  BY <1>21, LatestUnchanged DEF LoadMore, serverVars
<1> QED
  BY <1>1, <1>2, <1>3, <1>4, <1>5, <1>6, <1>7, <1>8, <1>9, <1>10, <1>11, <1>12,
     <1>13, <1>14, <1>15, <1>16, <1>17, <1>18, <1>19, <1>20, <1>21 DEF Next

-----------------------------------------------------------------------------
(***************************************************************************)
(* What is said last.  Of the elements of s that are of interest, those in *)
(* A, the last is in ok; or none of them is of interest.                   *)
(***************************************************************************)
Quiet(s, A) == \A i \in DOMAIN s : s[i] \notin A

Ends(s, A, ok) ==
  \A i \in DOMAIN s :
    s[i] \in A /\ (\A j \in DOMAIN s : j > i => s[j] \notin A) => s[i] \in ok

LEMMA QuietConcat ==
  ASSUME NEW S, NEW s \in Seq(S), NEW u \in Seq(S), NEW A
  PROVE  Quiet(s \o u, A) <=> Quiet(s, A) /\ Quiet(u, A)
<1> DEFINE c == s \o u
<1>1. /\ \A i \in DOMAIN s : i \in DOMAIN c /\ c[i] = s[i]
      /\ \A i \in DOMAIN u : Len(s) + i \in DOMAIN c /\ c[Len(s) + i] = u[i]
      /\ \A k \in DOMAIN c : \/ k \in DOMAIN s /\ c[k] = s[k]
                             \/ k - Len(s) \in DOMAIN u /\ c[k] = u[k - Len(s)]
  BY ConcatSplits
<1> HIDE DEF c
<1>2. Quiet(c, A) <=> Quiet(s, A) /\ Quiet(u, A)
  BY <1>1 DEF Quiet
<1> QED
  BY <1>2 DEF c

LEMMA EndsConcat ==
  ASSUME NEW S, NEW s \in Seq(S), NEW u \in Seq(S), NEW A, NEW ok,
         Ends(u, A, ok), Quiet(u, A) => Ends(s, A, ok)
  PROVE  Ends(s \o u, A, ok)
<1> DEFINE c == s \o u
<1>1. /\ \A i \in DOMAIN s : i \in DOMAIN c /\ c[i] = s[i]
      /\ \A i \in DOMAIN u : Len(s) + i \in DOMAIN c /\ c[Len(s) + i] = u[i]
      /\ \A k \in DOMAIN c : \/ k \in DOMAIN s /\ c[k] = s[k]
                             \/ k - Len(s) \in DOMAIN u /\ c[k] = u[k - Len(s)]
  BY ConcatSplits
<1>2. Len(s) \in Nat /\ DOMAIN s = 1 .. Len(s) /\ DOMAIN u = 1 .. Len(u) /\ Len(u) \in Nat
      /\ c \in Seq(S) /\ DOMAIN c = 1 .. Len(c) /\ Len(c) \in Nat
  BY ElementsAre, ConcatSplits
<1> HIDE DEF c
<1>3. ASSUME NEW k \in DOMAIN c, c[k] \in A, \A j \in DOMAIN c : j > k => c[j] \notin A
      PROVE  c[k] \in ok
  <2>1. CASE k - Len(s) \in DOMAIN u /\ c[k] = u[k - Len(s)]
    <3>1. ASSUME NEW j \in DOMAIN u, j > k - Len(s) PROVE u[j] \notin A
      <4>1. Len(s) + j \in DOMAIN c /\ Len(s) + j > k /\ c[Len(s) + j] = u[j]
        BY <1>1, <1>2, <3>1
      <4> QED
        BY <1>3, <4>1
    <3> QED
      BY <1>3, <2>1, <3>1 DEF Ends
  <2>2. CASE k \in DOMAIN s /\ c[k] = s[k]
    <3>1. ASSUME NEW j \in DOMAIN u PROVE u[j] \notin A
      <4>1. Len(s) + j \in DOMAIN c /\ Len(s) + j > k /\ c[Len(s) + j] = u[j]
        BY <1>1, <1>2, <2>2
      <4> QED
        BY <1>3, <4>1
    <3>2. \A j \in DOMAIN s : j > k => s[j] \notin A
      BY <1>1, <1>3
    <3> QED
      BY <1>3, <2>2, <3>1, <3>2 DEF Ends, Quiet
  <2> QED
    BY <1>1, <2>1, <2>2
<1>4. Ends(c, A, ok)
  BY <1>3 DEF Ends
<1> QED
  BY <1>4 DEF c

\* The first element may be taken away, and counts if it was the last.
LEMMA EndsTail ==
  ASSUME NEW S, NEW s \in Seq(S), s # <<>>, NEW A, NEW ok, Ends(s, A, ok)
  PROVE  /\ Ends(Tail(s), A, ok)
         /\ Quiet(Tail(s), A) /\ Head(s) \in A => Head(s) \in ok
         /\ Quiet(s, A) <=> Quiet(Tail(s), A) /\ Head(s) \notin A
<1> DEFINE r == Tail(s)
<1>1. /\ Head(s) = s[1] /\ 1 \in DOMAIN s
      /\ \A i \in DOMAIN r : i + 1 \in DOMAIN s /\ r[i] = s[i + 1]
      /\ \A k \in DOMAIN s : k = 1 \/ (k - 1 \in DOMAIN r /\ s[k] = r[k - 1])
      /\ DOMAIN s \subseteq Nat /\ DOMAIN r \subseteq Nat
  <2>1. r \in Seq(S)
    BY TailIs
  <2>2. DOMAIN s = 1 .. Len(s) /\ DOMAIN r = 1 .. Len(r)
    BY <2>1, ElementsAre
  <2> QED
    BY <2>2, TailIs
<1> HIDE DEF r
<1>2. Quiet(s, A) <=> Quiet(r, A) /\ Head(s) \notin A
  BY <1>1 DEF Quiet
<1>3. Quiet(r, A) /\ Head(s) \in A => Head(s) \in ok
  <2>1. \A k \in DOMAIN s : k > 1 => k - 1 \in DOMAIN r /\ s[k] = r[k - 1]
    BY <1>1
  <2> QED
    BY <1>1, <2>1 DEF Quiet, Ends
<1>4. ASSUME NEW i \in DOMAIN r, r[i] \in A, \A j \in DOMAIN r : j > i => r[j] \notin A
      PROVE  r[i] \in ok
  <2>1. i + 1 \in DOMAIN s /\ r[i] = s[i + 1]
    BY <1>1
  <2>2. ASSUME NEW k \in DOMAIN s, k > i + 1 PROVE s[k] \notin A
    <3>1. k - 1 \in DOMAIN r /\ k - 1 > i /\ s[k] = r[k - 1]
      BY <1>1, <2>1, <2>2
    <3> QED
      BY <1>4, <3>1
  <2> QED
    BY <1>4, <2>1, <2>2 DEF Ends
<1>5. Ends(r, A, ok)
  BY <1>4 DEF Ends
<1> QED
  BY <1>2, <1>3, <1>5 DEF r

LEMMA NothingSaid ==
  ASSUME NEW A, NEW ok
  PROVE  Quiet(<<>>, A) /\ Ends(<<>>, A, ok)
<1>1. DOMAIN <<>> = {}
  OBVIOUS
<1> QED
  BY <1>1 DEF Quiet, Ends

LEMMA EndsQuiet ==
  ASSUME NEW s, NEW A, NEW ok, Quiet(s, A)
  PROVE  Ends(s, A, ok)
BY DEF Quiet, Ends

LEMMA EndsWeaker ==
  ASSUME NEW s, NEW A, NEW ok, Ends(s, A, ok), NEW more, ok \cap A \subseteq more
  PROVE  Ends(s, A, more)
BY DEF Ends

-----------------------------------------------------------------------------
(***************************************************************************)
(* The messages to the browser and the requests to the server.             *)
(***************************************************************************)
CreatedMessage == [type : {"task_created"}, task : Tasks, status : {"todo", "queued"}]

ChangedMessage ==
  [type : {"task_status_changed"}, task : Tasks, oldStatus : Shown, newStatus : Shown]

Lists == UNION {[S -> Shown] : S \in SUBSET Tasks}

SnapshotMessage ==
  [type : {"project_tasks_snapshot"}, tasks : Lists, counts : [Shown -> Nat]]

Message == CreatedMessage \cup ChangedMessage \cup SnapshotMessage \cup EventMessage

Request == [type : {"subscribe", "unsubscribe"}, nodeIds : SUBSET Tasks]
             \cup [type : {"subscribe_project"}]

ReplyKind == {"created", "retried", "deleted"}

AnswerMessage == [kind : ListKind \cup ReplyKind, tasks : Lists]

(***************************************************************************)
(* What a message does to the card of t: it creates it, gives it a status, *)
(* or has it in a list.                                                    *)
(***************************************************************************)
Creating(t) == {m \in CreatedMessage : m.task = t}

Showing(t) == {m \in ChangedMessage \cup EventMessage : m.task = t /\ m.type # "progress"}

Listing(t) == {m \in SnapshotMessage : t \in DOMAIN m.tasks}

Mentioning(t) == Creating(t) \cup Showing(t) \cup Listing(t)

StatusShown(m) == IF m.type = "task_status_changed" THEN m.newStatus ELSE StatusOf(m.type)

\* A card of t may show s: the status of t, or anything once t is cancelled.
Fits(s, t) == s = status[t] \/ status[t] = "cancelled" \/ t \in shutdown

Fitting(t) == {m \in Message : Fits(StatusShown(m), t)}

(***************************************************************************)
(* The inductive invariant, task by task.  A task that has not started has *)
(* had no events; the ring, replayed, ends with the right status; and so   *)
(* does the inbox, in which nothing comes before the creation of a task.   *)
(***************************************************************************)
NoEventsYet(t) == status[t] \in {"absent", "todo", "queued"} => sent[t] = 0

RingFits(t) == Ends(GetAll(buffers[t]), Showing(t), Fitting(t))

InboxFits(t) ==
  /\ Ends(inbox, Showing(t), Fitting(t))
  /\ ~ Quiet(inbox, Mentioning(t)) => status[t] # "absent"
  /\ \A i, j \in DOMAIN inbox :
       i < j /\ inbox[j] \in Creating(t) => inbox[i] \notin Mentioning(t)
  /\ \A i \in DOMAIN inbox :
       inbox[i] \in Creating(t) /\ Quiet(inbox, Showing(t)) => Fits(inbox[i].status, t)

(***************************************************************************)
(* The cards.  Once the list of all tasks has been taken, a task that has  *)
(* no card is about to be created, and a card that no message in the inbox *)
(* will change is right.  An answer that adds a card may come before the   *)
(* creation of the task does: then its status is right, or about to change *)
(* as well.  A task that was cancelled stays so, or has a run to hide.     *)
(***************************************************************************)
ListTaken == selected /\ unbroken /\ "all" \notin asked /\ \A a \in answers : a.kind # "all"

AnswerFits(a, t) ==
  /\ a.kind = "created" /\ ~ Quiet(inbox, Creating(t)) /\ Quiet(inbox, Showing(t)) =>
       Fits(a.tasks[t], t)
  /\ a.kind = "deleted" => a.tasks[t] = "cancelled" /\ Fits("cancelled", t)

CardFits(t) ==
  /\ rootTasks[t] # <<>> => status[t] # "absent"
  /\ \A a \in answers : t \in DOMAIN a.tasks => status[t] # "absent" /\ AnswerFits(a, t)
  /\ ListTaken /\ t \notin stale \cup hidden =>
       /\ status[t] # "absent" /\ rootTasks[t] = <<>> => ~ Quiet(inbox, Creating(t))
       /\ rootTasks[t] # <<>> /\ Quiet(inbox, Showing(t)) => Fits(rootTasks[t][1], t)

(***************************************************************************)
(* The events.  What a subscriber has not seen is in its inbox, and the    *)
(* latest comes last.                                                      *)
(***************************************************************************)
Telling(t) == {m \in EventMessage : m.task = t}

Latest(t) == {m \in EventMessage : m.n = sent[t]}

SeenFits(t) ==
  /\ seen[t] \in 0 .. sent[t]
  /\ \A i \in DOMAIN inbox : inbox[i] \in Telling(t) => inbox[i].n \in 1 .. sent[t]
  /\ t \in subscriptions =>
       /\ Ends(inbox, Telling(t), Latest(t))
       /\ Quiet(inbox, Telling(t)) => seen[t] = sent[t]

(***************************************************************************)
(* The subscriptions: the last request about t is what the browser wants.  *)
(***************************************************************************)
Asking(t) == {m \in Request : m.type \in {"subscribe", "unsubscribe"} /\ t \in m.nodeIds}

Wanted(t) == {m \in Request : m.type = "subscribe" <=> t \in activeSubscriptions}

SubscriptionFits(t) ==
  link = "up" =>
    /\ Ends(outbox, Asking(t), Wanted(t))
    /\ Quiet(outbox, Asking(t)) => (t \in subscriptions <=> t \in activeSubscriptions)

(***************************************************************************)
(* The counts: handling the messages `news` one after the other turns the  *)
(* counts c into d.                                                        *)
(***************************************************************************)
Counted(c, m) ==
  CASE m.type = "task_created" -> [c EXCEPT ![m.status] = @ + 1]
    [] m.type = "task_status_changed" -> Moved(c, m.oldStatus, m.newStatus)
    [] m.type = "project_tasks_snapshot" -> m.counts
    [] OTHER -> c

Leads(c, news, d) ==
  \E f : /\ f \in [0 .. Len(news) -> [Shown -> Nat]]
         /\ f[0] = c /\ f[Len(news)] = d
         /\ \A i \in 1 .. Len(news) : f[i] = Counted(f[i - 1], news[i])

CountsOf(st) == [s \in Shown |-> Cardinality({t \in Tasks : st[t] = s})]

CountsFit ==
  selected /\ link = "up" /\ Quiet(outbox, {SubscribeProject}) =>
    Leads(columnCounts, inbox, CountsOf(status))

-----------------------------------------------------------------------------
MessagesOK ==
  /\ inbox \in Seq(Message)
  /\ outbox \in Seq(Request)
  /\ answers \in SUBSET AnswerMessage

TaskOK(t) ==
  /\ NoEventsYet(t) /\ RingFits(t)
  /\ InboxFits(t) /\ CardFits(t) /\ SeenFits(t) /\ SubscriptionFits(t)

IInv ==
  /\ TypeOK /\ MessagesOK
  /\ P!IInv /\ LatestInv
  /\ unbroken => link = "up"
  /\ \A t \in Tasks : TaskOK(t)
  /\ CountsFit

-----------------------------------------------------------------------------
(***************************************************************************)
(* The inbox grows by `news` about t: the last of the news is right, if t  *)
(* is new then its creation comes first, and no news are good news.        *)
(***************************************************************************)
FitsThen(s, t) == s = status'[t] \/ status'[t] = "cancelled" \/ t \in shutdown'

NewsFor(t, news) ==
  /\ Ends(news, Showing(t), Fitting(t)')
  /\ ~ Quiet(news, Mentioning(t)) => status'[t] # "absent"
  /\ \A i \in DOMAIN news : news[i] \in Creating(t) =>
       /\ status[t] = "absent"
       /\ \A j \in DOMAIN news : j < i => news[j] \notin Mentioning(t)
       /\ Quiet(news, Showing(t)) => FitsThen(news[i].status, t)
  /\ status[t] = "absent" /\ status'[t] # "absent" => ~ Quiet(news, Creating(t))
  /\ status[t] # "absent" => status'[t] # "absent"
  /\ status[t] # "absent" /\ Quiet(news, Showing(t)) =>
       status'[t] = status[t] /\ shutdown \subseteq shutdown'
  /\ status[t] = "cancelled" \/ t \in shutdown => FitsThen("cancelled", t)

LEMMA InboxGrows ==
  ASSUME NEW t \in Tasks, InboxFits(t), NEW news \in Seq(Message), NewsFor(t, news),
         inbox \in Seq(Message), inbox' = inbox \o news
  PROVE  InboxFits(t)'
<1>1. /\ \A i \in DOMAIN inbox : i \in DOMAIN inbox' /\ inbox'[i] = inbox[i]
      /\ \A i \in DOMAIN news : Len(inbox) + i \in DOMAIN inbox' /\ inbox'[Len(inbox) + i] = news[i]
      /\ \A k \in DOMAIN inbox' :
           \/ k \in DOMAIN inbox /\ inbox'[k] = inbox[k]
           \/ k - Len(inbox) \in DOMAIN news /\ k > Len(inbox) /\ inbox'[k] = news[k - Len(inbox)]
  BY ConcatSplits
<1>2. Len(inbox) \in Nat /\ DOMAIN inbox = 1 .. Len(inbox) /\ inbox' \in Seq(Message)
      /\ DOMAIN inbox' = 1 .. Len(inbox') /\ DOMAIN news = 1 .. Len(news) /\ Len(news) \in Nat
      /\ Len(inbox') \in Nat
  BY ElementsAre, ConcatSplits
<1>3. \A A : Quiet(inbox', A) <=> Quiet(inbox, A) /\ Quiet(news, A)
  BY QuietConcat
<1>4. Quiet(inbox, Mentioning(t)) => Quiet(inbox, Showing(t)) /\ Quiet(inbox, Creating(t))
  BY DEF Quiet, Mentioning
<1>5. Ends(inbox', Showing(t), Fitting(t)')
  <2>1. CASE status[t] = "absent"
    <3>1. Quiet(inbox, Showing(t))
      BY <1>4, <2>1 DEF InboxFits
    <3>2. Ends(inbox, Showing(t), Fitting(t)')
      BY <3>1, EndsQuiet
    <3> QED
      BY <3>2, EndsConcat DEF NewsFor
  <2>2. CASE status[t] # "absent"
    <3>1. ASSUME Quiet(news, Showing(t)) PROVE Fitting(t) \subseteq Fitting(t)'
      BY <2>2, <3>1 DEF NewsFor, Fitting, Fits
    <3>2. Ends(inbox, Showing(t), Fitting(t))
      BY DEF InboxFits
    <3>3. Quiet(news, Showing(t)) => Ends(inbox, Showing(t), Fitting(t)')
      BY <3>1, <3>2, EndsWeaker
    <3> QED
      BY <3>3, EndsConcat DEF NewsFor
  <2> QED
    BY <2>1, <2>2
<1>6. ~ Quiet(inbox', Mentioning(t)) => status'[t] # "absent"
  BY <1>3 DEF InboxFits, NewsFor
<1>7. ASSUME NEW i \in DOMAIN inbox', NEW j \in DOMAIN inbox', i < j, inbox'[j] \in Creating(t)
      PROVE  inbox'[i] \notin Mentioning(t)
  <2>1. CASE j \in DOMAIN inbox
    <3>1. i \in DOMAIN inbox
      BY <1>2, <1>7, <2>1
    <3> QED
      BY <1>1, <1>7, <2>1, <3>1 DEF InboxFits
  <2>2. CASE j - Len(inbox) \in DOMAIN news /\ inbox'[j] = news[j - Len(inbox)]
    <3>1. status[t] = "absent"
      BY <1>7, <2>2 DEF NewsFor
    <3>2. CASE i \in DOMAIN inbox
      BY <1>1, <3>1, <3>2 DEF InboxFits, Quiet
    <3>3. CASE i - Len(inbox) \in DOMAIN news /\ inbox'[i] = news[i - Len(inbox)]
      <4>1. i - Len(inbox) < j - Len(inbox)
        BY <1>2, <1>7
      <4> QED
        BY <1>7, <2>2, <3>3, <4>1 DEF NewsFor
    <3> QED
      BY <1>1, <3>2, <3>3
  <2> QED
    BY <1>1, <2>1, <2>2
<1>8. ASSUME NEW i \in DOMAIN inbox', inbox'[i] \in Creating(t), Quiet(inbox', Showing(t))
      PROVE  FitsThen(inbox'[i].status, t)
  <2>0. Quiet(inbox, Showing(t)) /\ Quiet(news, Showing(t))
    BY <1>3, <1>8
  <2>1. CASE i \in DOMAIN inbox /\ inbox'[i] = inbox[i]
    <3>1. Fits(inbox[i].status, t) /\ status[t] # "absent"
      <4>1. ~ Quiet(inbox, Mentioning(t))
        BY <1>8, <2>1 DEF Quiet, Mentioning
      <4> QED
        BY <1>8, <2>0, <2>1, <4>1 DEF InboxFits
    <3> QED
      BY <2>0, <2>1, <3>1 DEF NewsFor, Fits, FitsThen
  <2>2. CASE i - Len(inbox) \in DOMAIN news /\ inbox'[i] = news[i - Len(inbox)]
    BY <1>8, <2>0, <2>2 DEF NewsFor
  <2> QED
    BY <1>1, <2>1, <2>2
<1>9. Mentioning(t)' = Mentioning(t) /\ Creating(t)' = Creating(t) /\ Showing(t)' = Showing(t)
  BY DEF Mentioning, Creating, Showing, Listing, CreatedMessage, ChangedMessage, SnapshotMessage,
     EventMessage, Lists
<1> QED
  BY <1>5, <1>6, <1>7, <1>8, <1>9 DEF InboxFits, Fits, FitsThen

\* The cards do not change while the inbox grows, and answers are added.
LEMMA CardsWait ==
  ASSUME NEW t \in Tasks, CardFits(t), NEW news \in Seq(Message), NewsFor(t, news),
         inbox \in Seq(Message), inbox' = inbox \o news,
         UNCHANGED <<rootTasks, hidden, stale, asked, selected, unbroken>>,
         answers \subseteq answers',
         \A a \in answers' \ answers :
           t \in DOMAIN a.tasks => status'[t] # "absent" /\ AnswerFits(a, t)'
  PROVE  CardFits(t)'
<1>1. \A A : Quiet(inbox', A) <=> Quiet(inbox, A) /\ Quiet(news, A)
  BY QuietConcat
<1>2. Creating(t)' = Creating(t) /\ Showing(t)' = Showing(t)
  BY DEF Creating, Showing, CreatedMessage, ChangedMessage, EventMessage
<1>3. ListTaken' => ListTaken
  BY DEF ListTaken
<1>4. rootTasks[t] # <<>> => status[t] # "absent" /\ status'[t] # "absent"
  BY DEF CardFits, NewsFor
<1>5. ASSUME NEW a \in answers', t \in DOMAIN a.tasks
      PROVE  status'[t] # "absent" /\ AnswerFits(a, t)'
  <2>1. CASE a \in answers
    <3>1. status[t] # "absent" /\ status'[t] # "absent" /\ AnswerFits(a, t)
      BY <1>5, <2>1 DEF CardFits, NewsFor
    <3>2. Quiet(news, Creating(t))
      BY <3>1 DEF NewsFor, Quiet
    <3>3. ASSUME a.kind = "created", ~ Quiet(inbox', Creating(t)), Quiet(inbox', Showing(t))
          PROVE  Fits(a.tasks[t], t)'
      <4>1. Fits(a.tasks[t], t) /\ Quiet(news, Showing(t))
        BY <1>1, <3>1, <3>2, <3>3 DEF AnswerFits
      <4> QED
        BY <3>1, <4>1 DEF NewsFor, Fits
    <3>4. a.kind = "deleted" => a.tasks[t] = "cancelled" /\ Fits("cancelled", t)'
      BY <3>1 DEF AnswerFits, NewsFor, Fits, FitsThen
    <3> QED
      BY <1>2, <3>1, <3>3, <3>4 DEF AnswerFits
  <2>2. CASE a \notin answers
    BY <1>5, <2>2
  <2> QED
    BY <2>1, <2>2
<1>6. ASSUME ListTaken, t \notin stale \cup hidden
      PROVE  /\ status'[t] # "absent" /\ rootTasks[t] = <<>> => ~ Quiet(inbox', Creating(t))
             /\ rootTasks[t] # <<>> /\ Quiet(inbox', Showing(t)) => Fits(rootTasks[t][1], t)'
  <2>1. /\ status[t] # "absent" /\ rootTasks[t] = <<>> => ~ Quiet(inbox, Creating(t))
        /\ rootTasks[t] # <<>> /\ Quiet(inbox, Showing(t)) => Fits(rootTasks[t][1], t)
    BY <1>6 DEF CardFits
  <2>2. ASSUME status'[t] # "absent", rootTasks[t] = <<>> PROVE ~ Quiet(inbox', Creating(t))
    BY <1>1, <2>1, <2>2 DEF NewsFor
  <2>3. ASSUME rootTasks[t] # <<>>, Quiet(inbox', Showing(t))
        PROVE  Fits(rootTasks[t][1], t)'
    BY <1>1, <1>4, <2>1, <2>3 DEF NewsFor, Fits
  <2> QED
    BY <2>2, <2>3
<1> QED
  BY <1>2, <1>3, <1>4, <1>5, <1>6 DEF CardFits

\* A subscriber, old or new, is sent what it has not seen.
LEMMA SeenGrows ==
  ASSUME NEW t \in Tasks, SeenFits(t), NEW news \in Seq(Message),
         inbox \in Seq(Message), inbox' = inbox \o news, seen'[t] = seen[t],
         sent[t] \in Nat, sent'[t] \in Nat, sent[t] <= sent'[t],
         \A i \in DOMAIN news : news[i] \in Telling(t) => news[i].n \in 1 .. sent'[t],
         Ends(news, Telling(t), Latest(t)'),
         t \in subscriptions' /\ Quiet(news, Telling(t)) =>
           sent'[t] = 0 \/ (t \in subscriptions /\ sent'[t] = sent[t])
  PROVE  SeenFits(t)'
<1>1. \A A : Quiet(inbox', A) <=> Quiet(inbox, A) /\ Quiet(news, A)
  BY QuietConcat
<1>2. Telling(t)' = Telling(t)
  BY DEF Telling, EventMessage
<1>3. seen'[t] \in 0 .. sent'[t]
  BY DEF SeenFits
<1>4. ASSUME NEW k \in DOMAIN inbox', inbox'[k] \in Telling(t) PROVE inbox'[k].n \in 1 .. sent'[t]
  <2>1. \/ k \in DOMAIN inbox /\ inbox'[k] = inbox[k]
        \/ k - Len(inbox) \in DOMAIN news /\ inbox'[k] = news[k - Len(inbox)]
    BY ConcatSplits
  <2>2. \A i \in DOMAIN inbox : inbox[i] \in Telling(t) => inbox[i].n \in 1 .. sent[t]
    BY DEF SeenFits
  <2> QED
    BY <1>4, <2>1, <2>2
<1>5. ASSUME t \in subscriptions'
      PROVE  /\ Ends(inbox', Telling(t), Latest(t)')
             /\ Quiet(inbox', Telling(t)) => seen'[t] = sent'[t]
  <2>1. CASE ~ Quiet(news, Telling(t))
    BY <1>1, <2>1, EndsConcat
  <2>2. CASE Quiet(news, Telling(t)) /\ t \in subscriptions /\ sent'[t] = sent[t]
    <3>1. Latest(t)' = Latest(t)
      BY <2>2 DEF Latest, EventMessage
    <3>2. Ends(inbox, Telling(t), Latest(t)) /\ (Quiet(inbox, Telling(t)) => seen[t] = sent[t])
      BY <2>2 DEF SeenFits
    <3>3. Ends(inbox', Telling(t), Latest(t))
      BY <3>1, <3>2, EndsConcat
    <3> QED
      BY <1>1, <2>2, <3>1, <3>2, <3>3
  <2>3. CASE Quiet(news, Telling(t)) /\ sent'[t] = 0
    <3>1. Quiet(inbox, Telling(t)) /\ seen[t] = 0
      BY <2>3 DEF SeenFits, Quiet
    <3>2. Ends(inbox', Telling(t), Latest(t)')
      BY <1>1, <2>3, <3>1, EndsQuiet
    <3> QED
      BY <2>3, <3>1, <3>2
  <2> QED
    BY <1>5, <2>1, <2>2, <2>3
<1> QED
  BY <1>2, <1>3, <1>4, <1>5 DEF SeenFits

-----------------------------------------------------------------------------
(***************************************************************************)
(* The browser handles the first message of its inbox.                     *)
(***************************************************************************)
LEMMA InboxShrinks ==
  ASSUME NEW t \in Tasks, InboxFits(t), inbox \in Seq(Message), inbox # <<>>,
         inbox' = Tail(inbox), UNCHANGED <<status, shutdown>>
  PROVE  InboxFits(t)'
<1> DEFINE r == Tail(inbox)
<1>1. /\ Head(inbox) = inbox[1] /\ 1 \in DOMAIN inbox
      /\ \A i \in DOMAIN r : i + 1 \in DOMAIN inbox /\ r[i] = inbox[i + 1]
  BY TailIs
<1>2. r \in Seq(Message) /\ DOMAIN r = 1 .. Len(r) /\ Len(r) \in Nat
  BY TailIs, ElementsAre
<1>3. /\ Ends(r, Showing(t), Fitting(t))
      /\ \A A : Quiet(inbox, A) <=> Quiet(r, A) /\ Head(inbox) \notin A
  <2>1. \A A : Ends(inbox, A, A)
    BY DEF Ends
  <2> QED
    BY <2>1, EndsTail DEF InboxFits
<1> HIDE DEF r
<1>4. ~ Quiet(r, Mentioning(t)) => status[t] # "absent"
  BY <1>3 DEF InboxFits
<1>5. ASSUME NEW i \in DOMAIN r, NEW j \in DOMAIN r, i < j, r[j] \in Creating(t)
      PROVE  r[i] \notin Mentioning(t)
  <2>1. i + 1 < j + 1 /\ i + 1 \in DOMAIN inbox /\ j + 1 \in DOMAIN inbox
        /\ r[i] = inbox[i + 1] /\ r[j] = inbox[j + 1]
    BY <1>1, <1>2, <1>5
  <2> QED
    BY <1>5, <2>1 DEF InboxFits
<1>6. ASSUME NEW i \in DOMAIN r, r[i] \in Creating(t), Quiet(r, Showing(t))
      PROVE  Fits(r[i].status, t)
  <2>1. 1 < i + 1 /\ i + 1 \in DOMAIN inbox /\ r[i] = inbox[i + 1]
    BY <1>1, <1>2
  <2>2. Head(inbox) \notin Showing(t)
    BY <1>1, <1>6, <2>1 DEF InboxFits, Mentioning
  <2> QED
    BY <1>3, <1>6, <2>1, <2>2 DEF InboxFits
<1>7. Mentioning(t)' = Mentioning(t) /\ Creating(t)' = Creating(t) /\ Showing(t)' = Showing(t)
      /\ Fitting(t)' = Fitting(t) /\ r = inbox'
  BY DEF Mentioning, Creating, Showing, Listing, CreatedMessage, ChangedMessage, SnapshotMessage,
     EventMessage, Lists, Fitting, Fits, Message, r, StatusShown, StatusOf
<1> QED
  BY <1>3, <1>4, <1>5, <1>6, <1>7 DEF InboxFits, Fits

(***************************************************************************)
(* What the message does to the card of t: `shown` is the card before.     *)
(***************************************************************************)
Handled(m, t, shown) ==
  CASE m \in Creating(t) /\ shown = <<>> -> <<m.status>>
    [] m \in Listing(t) /\ shown = <<>> -> <<m.tasks[t]>>
    [] m \in Showing(t) /\ shown # <<>> -> <<StatusShown(m)>>
    [] OTHER -> shown

LEMMA CardHandled ==
  ASSUME NEW t \in Tasks, CardFits(t), InboxFits(t), inbox \in Seq(Message), inbox # <<>>,
         inbox' = Tail(inbox),
         UNCHANGED <<status, shutdown, answers, asked, selected, unbroken, hidden>>,
         rootTasks'[t] = Handled(Head(inbox), t, rootTasks[t]),
         t \notin stale' => t \notin stale \/ (Head(inbox) \in Showing(t) /\ rootTasks[t] # <<>>)
  PROVE  CardFits(t)'
<1> DEFINE m == Head(inbox)
           r == Tail(inbox)
<1>1. /\ m = inbox[1] /\ 1 \in DOMAIN inbox /\ m \in Message
      /\ \A i \in DOMAIN r : i + 1 \in DOMAIN inbox /\ r[i] = inbox[i + 1]
      /\ r \in Seq(Message) /\ DOMAIN r = 1 .. Len(r)
  BY TailIs, ElementsAre
<1>2. /\ Quiet(r, Showing(t)) /\ m \in Showing(t) => m \in Fitting(t)
      /\ \A A : Quiet(inbox, A) <=> Quiet(r, A) /\ m \notin A
  <2>1. \A A : Ends(inbox, A, A)
    BY DEF Ends
  <2> QED
    BY <2>1, EndsTail DEF InboxFits
<1> HIDE DEF m, r
<1>3. m \in Mentioning(t) => status[t] # "absent" /\ Quiet(r, Creating(t))
  <2>1. ASSUME m \in Mentioning(t) PROVE status[t] # "absent"
    BY <1>1, <2>1 DEF InboxFits, Quiet
  <2>2. ASSUME NEW i \in DOMAIN r, r[i] \in Creating(t) PROVE m \notin Mentioning(t)
    <3>1. i + 1 \in DOMAIN inbox /\ 1 < i + 1 /\ r[i] = inbox[i + 1]
      BY <1>1
    <3> QED
      BY <1>1, <2>2, <3>1 DEF InboxFits
  <2> QED
    BY <2>1, <2>2 DEF Quiet
<1>4. /\ Creating(t) \cap Showing(t) = {} /\ Creating(t) \cap Listing(t) = {}
      /\ Showing(t) \cap Listing(t) = {}
      /\ Creating(t) \cup Showing(t) \cup Listing(t) = Mentioning(t)
  BY DEF Creating, Showing, Listing, Mentioning, CreatedMessage, ChangedMessage, SnapshotMessage,
     EventMessage, EventType
<1>5. rootTasks'[t] # <<>> => status[t] # "absent"
  BY <1>3, <1>4 DEF Handled, CardFits, m
<1>6. ASSUME ListTaken, t \notin stale' \cup hidden
      PROVE  /\ status[t] # "absent" /\ rootTasks'[t] = <<>> => ~ Quiet(r, Creating(t))
             /\ rootTasks'[t] # <<>> /\ Quiet(r, Showing(t)) => Fits(rootTasks'[t][1], t)
  <2>1. CASE rootTasks[t] # <<>> /\ m \in Showing(t)
    <3>1. rootTasks'[t] = <<StatusShown(m)>> /\ rootTasks'[t] # <<>>
      BY <1>4, <2>1 DEF Handled, m
    <3>2. Quiet(r, Showing(t)) => Fits(StatusShown(m), t)
      BY <1>2, <2>1 DEF Fitting
    <3> QED
      BY <3>1, <3>2
  <2>2. CASE rootTasks[t] # <<>> /\ m \notin Showing(t)
    <3>1. t \notin stale /\ rootTasks'[t] = rootTasks[t]
      BY <1>6, <2>2 DEF Handled, m
    <3> QED
      BY <1>2, <1>6, <2>2, <3>1 DEF CardFits
  <2>3. CASE rootTasks[t] = <<>> /\ m \in Creating(t)
    <3>1. rootTasks'[t] = <<m.status>> /\ rootTasks'[t] # <<>>
      BY <1>4, <2>3 DEF Handled, m
    <3>2. Quiet(r, Showing(t)) => Fits(m.status, t)
      BY <1>1, <1>2, <1>4, <2>3 DEF InboxFits
    <3> QED
      BY <3>1, <3>2
  <2>4. CASE rootTasks[t] = <<>> /\ m \notin Creating(t)
    <3>1. t \notin stale
      BY <1>6, <2>4 DEF m
    <3>2. status[t] # "absent" => ~ Quiet(r, Creating(t))
      BY <1>2, <1>6, <2>4, <3>1 DEF CardFits
    <3>3. m \notin Listing(t)
      BY <1>3, <1>4, <3>2
    <3>4. rootTasks'[t] = <<>>
      BY <2>4, <3>3 DEF Handled, m
    <3> QED
      BY <3>2, <3>4
  <2> QED
    BY <2>1, <2>2, <2>3, <2>4
<1>7. /\ Creating(t)' = Creating(t) /\ Showing(t)' = Showing(t) /\ ListTaken' = ListTaken
      /\ inbox' = r
  BY DEF Creating, Showing, CreatedMessage, ChangedMessage, EventMessage, ListTaken, r
<1>8. ASSUME NEW a \in answers, t \in DOMAIN a.tasks
      PROVE  status[t] # "absent" /\ AnswerFits(a, t)'
  <2>1. status[t] # "absent" /\ AnswerFits(a, t)
    BY <1>8 DEF CardFits
  <2>2. ASSUME ~ Quiet(r, Creating(t)), Quiet(r, Showing(t))
        PROVE  ~ Quiet(inbox, Creating(t)) /\ Quiet(inbox, Showing(t))
    BY <1>2, <1>3, <1>4, <2>2
  <2> QED
    BY <1>7, <2>1, <2>2 DEF AnswerFits, Fits
<1> QED
  BY <1>5, <1>6, <1>7, <1>8 DEF CardFits, Fits

LEMMA SeenShrinks ==
  ASSUME NEW t \in Tasks, SeenFits(t), inbox \in Seq(Message), inbox # <<>>,
         sent[t] \in Nat,
         inbox' = Tail(inbox), UNCHANGED <<sent, subscriptions>>,
         seen'[t] = IF Head(inbox) \in Telling(t) THEN Head(inbox).n ELSE seen[t]
  PROVE  SeenFits(t)'
<1> DEFINE m == Head(inbox)
           r == Tail(inbox)
<1>1. /\ m = inbox[1] /\ 1 \in DOMAIN inbox
      /\ \A i \in DOMAIN r : i + 1 \in DOMAIN inbox /\ r[i] = inbox[i + 1]
  BY TailIs
<1>2. t \in subscriptions =>
        /\ Ends(r, Telling(t), Latest(t))
        /\ Quiet(r, Telling(t)) /\ m \in Telling(t) => m \in Latest(t)
  BY EndsTail DEF SeenFits
<1>3. Quiet(inbox, Telling(t)) <=> Quiet(r, Telling(t)) /\ m \notin Telling(t)
  <2>1. Ends(inbox, Telling(t), Telling(t))
    BY DEF Ends
  <2> QED
    BY <2>1, EndsTail
<1> HIDE DEF m, r
<1>4. seen'[t] = (IF m \in Telling(t) THEN m.n ELSE seen[t]) /\ inbox' = r
  BY DEF m, r
<1>5. seen'[t] \in 0 .. sent[t]
  BY <1>1, <1>4 DEF SeenFits
<1>6. \A i \in DOMAIN r : r[i] \in Telling(t) => r[i].n \in 1 .. sent[t]
  BY <1>1 DEF SeenFits
<1>7. ASSUME t \in subscriptions, Quiet(r, Telling(t)) PROVE seen'[t] = sent[t]
  <2>1. CASE m \in Telling(t)
    BY <1>2, <1>4, <1>7, <2>1 DEF Latest
  <2>2. CASE m \notin Telling(t)
    BY <1>3, <1>4, <1>7, <2>2 DEF SeenFits
  <2> QED
    BY <2>1, <2>2
<1>8. Telling(t)' = Telling(t) /\ Latest(t)' = Latest(t)
  BY DEF Telling, Latest, EventMessage
<1> QED
  BY <1>2, <1>4, <1>5, <1>6, <1>7, <1>8 DEF SeenFits

-----------------------------------------------------------------------------
(***************************************************************************)
(* The requests of the browser.                                            *)
(***************************************************************************)
LEMMA OneSaid ==
  ASSUME NEW m, NEW A, NEW ok
  PROVE  /\ Quiet(<<m>>, A) <=> m \notin A
         /\ (m \in A => m \in ok) => Ends(<<m>>, A, ok)
<1>1. DOMAIN <<m>> = {1} /\ <<m>>[1] = m
  OBVIOUS
<1> QED
  BY <1>1 DEF Quiet, Ends

LEMMA RequestSent ==
  ASSUME NEW t \in Tasks, SubscriptionFits(t), outbox \in Seq(Request), NEW request \in Request,
         outbox' = IF link = "up" THEN Append(outbox, request) ELSE outbox,
         UNCHANGED <<link, subscriptions>>,
         IF request \in Asking(t)
         THEN request.type = "subscribe" <=> t \in activeSubscriptions'
         ELSE t \in activeSubscriptions' <=> t \in activeSubscriptions
  PROVE  SubscriptionFits(t)'
<1> SUFFICES ASSUME link = "up" PROVE SubscriptionFits(t)'
  BY DEF SubscriptionFits
<1>1. outbox' = outbox \o <<request>> /\ <<request>> \in Seq(Request)
  BY AppendIsConcat
<1>2. Quiet(outbox', Asking(t)) <=> Quiet(outbox, Asking(t)) /\ request \notin Asking(t)
  <2>1. Quiet(<<request>>, Asking(t)) <=> request \notin Asking(t)
    BY OneSaid
  <2>2. Quiet(outbox \o <<request>>, Asking(t)) <=> Quiet(outbox, Asking(t)) /\ Quiet(<<request>>, Asking(t))
    BY <1>1, QuietConcat
  <2> QED
    BY <1>1, <2>1, <2>2
<1>3. Asking(t)' = Asking(t)
  BY DEF Asking, Request
<1>4. CASE request \in Asking(t)
  <2>1. request \in Wanted(t)' /\ ~ Quiet(<<request>>, Asking(t))
    BY <1>4, OneSaid DEF Wanted, Request
  <2>2. Ends(<<request>>, Asking(t), Wanted(t)')
    BY <2>1, OneSaid
  <2>3. Ends(outbox \o <<request>>, Asking(t), Wanted(t)')
    BY <1>1, <2>1, <2>2, EndsConcat
  <2> QED
    BY <1>1, <1>2, <1>3, <1>4, <2>3 DEF SubscriptionFits
<1>5. CASE request \notin Asking(t)
  <2>1. Wanted(t)' = Wanted(t)
    BY <1>5 DEF Wanted, Request
  <2>2. Ends(<<request>>, Asking(t), Wanted(t)) /\ Ends(outbox, Asking(t), Wanted(t))
    BY <1>5, OneSaid DEF SubscriptionFits
  <2>3. Ends(outbox \o <<request>>, Asking(t), Wanted(t))
    BY <1>1, <2>2, EndsConcat
  <2> QED
    BY <1>1, <1>2, <1>3, <1>5, <2>1, <2>3 DEF SubscriptionFits
<1> QED
  BY <1>4, <1>5

LEMMA RequestTaken ==
  ASSUME NEW t \in Tasks, SubscriptionFits(t), outbox \in Seq(Request), outbox # <<>>,
         outbox' = Tail(outbox), UNCHANGED <<link, activeSubscriptions>>,
         IF Head(outbox) \in Asking(t)
         THEN t \in subscriptions' <=> Head(outbox).type = "subscribe"
         ELSE t \in subscriptions' <=> t \in subscriptions
  PROVE  SubscriptionFits(t)'
<1> SUFFICES ASSUME link = "up" PROVE SubscriptionFits(t)'
  BY DEF SubscriptionFits
<1>1. /\ Ends(Tail(outbox), Asking(t), Wanted(t))
      /\ Quiet(Tail(outbox), Asking(t)) /\ Head(outbox) \in Asking(t) => Head(outbox) \in Wanted(t)
      /\ Quiet(outbox, Asking(t)) <=> Quiet(Tail(outbox), Asking(t)) /\ Head(outbox) \notin Asking(t)
  BY EndsTail DEF SubscriptionFits
<1>2. Asking(t)' = Asking(t) /\ Wanted(t)' = Wanted(t)
  BY DEF Asking, Wanted, Request
<1>3. ASSUME Quiet(Tail(outbox), Asking(t))
      PROVE  t \in subscriptions' <=> t \in activeSubscriptions
  BY <1>1, <1>3 DEF SubscriptionFits, Wanted
<1> QED
  BY <1>1, <1>2, <1>3 DEF SubscriptionFits

-----------------------------------------------------------------------------
(***************************************************************************)
(* The counts.                                                             *)
(***************************************************************************)
Counts == [Shown -> Nat]

LEMMA CountedIs ==
  ASSUME NEW c \in Counts, NEW m \in Message
  PROVE  Counted(c, m) \in Counts
<1>1. CASE m \in CreatedMessage
  <2>1. m.type = "task_created" /\ m.status \in Shown
    BY <1>1 DEF CreatedMessage, Shown, Store!Status
  <2> QED
    BY <2>1 DEF Counted, Counts
<1>2. CASE m \in ChangedMessage
  <2>1. m.type = "task_status_changed" /\ m.oldStatus \in Shown /\ m.newStatus \in Shown
    BY <1>2 DEF ChangedMessage
  <2> DEFINE less == [c EXCEPT ![m.oldStatus] = IF @ > 0 THEN @ - 1 ELSE @]
  <2>2. less \in Counts
    BY <2>1 DEF Counts
  <2>3. Counted(c, m) = [less EXCEPT ![m.newStatus] = @ + 1]
    BY <2>1 DEF Counted, Moved
  <2> HIDE DEF less
  <2> QED
    BY <2>1, <2>2, <2>3 DEF Counts
<1>3. CASE m \in SnapshotMessage
  BY <1>3 DEF SnapshotMessage, Counted, Counts
<1>4. CASE m \in EventMessage
  BY <1>4 DEF EventMessage, EventType, Counted, Counts
<1> QED
  BY <1>1, <1>2, <1>3, <1>4 DEF Message

LEMMA LeadsNowhere ==
  ASSUME NEW c \in Counts
  PROVE  Leads(c, <<>>, c)
<1> DEFINE f == [i \in 0 .. 0 |-> c]
<1>1. Len(<<>>) = 0 /\ 1 .. 0 = {}
  OBVIOUS
<1>2. f \in [0 .. 0 -> Counts] /\ f[0] = c
  OBVIOUS
<1> HIDE DEF f
<1> QED
  BY <1>1, <1>2 DEF Leads, Counts

LEMMA LeadsTo ==
  ASSUME NEW c \in Counts, NEW m \in Message
  PROVE  Leads(c, <<m>>, Counted(c, m))
<1> DEFINE d == Counted(c, m)
           f == [i \in 0 .. 1 |-> IF i = 0 THEN c ELSE d]
<1>1. Len(<<m>>) = 1 /\ <<m>>[1] = m /\ d \in Counts
  BY CountedIs
<1> HIDE DEF d
<1>2. f \in [0 .. 1 -> Counts] /\ f[0] = c /\ f[1] = d
  BY <1>1
<1> HIDE DEF f
<1>3. \A i \in 1 .. 1 : f[i] = Counted(f[i - 1], <<m>>[i])
  BY <1>1, <1>2 DEF d
<1> QED
  BY <1>1, <1>2, <1>3 DEF Leads, Counts, d

LEMMA LeadsOn ==
  ASSUME NEW c, NEW d, NEW e, NEW s \in Seq(Message), NEW u \in Seq(Message),
         Leads(c, s, d), Leads(d, u, e)
  PROVE  Leads(c, s \o u, e)
<1> DEFINE w == s \o u
           n == Len(s)
           k == Len(u)
<1>1. /\ n \in Nat /\ k \in Nat /\ Len(w) = n + k
      /\ \A i \in 1 .. n : w[i] = s[i]
      /\ \A i \in 1 .. k : w[n + i] = u[i]
  BY ElementsAre, ConcatSplits
<1>2. PICK f \in [0 .. n -> Counts] :
        /\ f[0] = c /\ f[n] = d /\ \A i \in 1 .. n : f[i] = Counted(f[i - 1], s[i])
  BY DEF Leads, Counts
<1>3. PICK g \in [0 .. k -> Counts] :
        /\ g[0] = d /\ g[k] = e /\ \A i \in 1 .. k : g[i] = Counted(g[i - 1], u[i])
  BY DEF Leads, Counts
<1> HIDE DEF w, n, k
<1> DEFINE h == [i \in 0 .. n + k |-> IF i <= n THEN f[i] ELSE g[i - n]]
<1>4. h \in [0 .. n + k -> Counts]
  <2>1. \A i \in 0 .. n + k : IF i <= n THEN i \in 0 .. n ELSE i - n \in 0 .. k
    BY <1>1
  <2> QED
    BY <2>1
<1>5. /\ \A i \in 0 .. n : h[i] = f[i]
      /\ \A i \in 0 .. k : h[n + i] = g[i]
  <2>1. \A i \in 0 .. n : i \in 0 .. n + k /\ i <= n
    BY <1>1
  <2>2. ASSUME NEW i \in 0 .. k PROVE h[n + i] = g[i]
    <3>1. n + i \in 0 .. n + k /\ (n + i) - n = i
      BY <1>1
    <3>2. CASE i = 0
      BY <1>1, <1>2, <1>3, <3>1, <3>2
    <3>3. CASE i # 0
      <4>1. ~ (n + i <= n)
        BY <1>1, <3>3
      <4> QED
        BY <3>1, <4>1
    <3> QED
      BY <3>2, <3>3
  <2> QED
    BY <2>1, <2>2
<1> HIDE DEF h
<1>6. ASSUME NEW i \in 1 .. n + k PROVE h[i] = Counted(h[i - 1], w[i])
  <2>1. CASE i <= n
    <3>1. i \in 1 .. n /\ i \in 0 .. n /\ i - 1 \in 0 .. n
      BY <1>1, <2>1
    <3> QED
      BY <1>1, <1>2, <1>5, <3>1
  <2>2. CASE ~ (i <= n)
    <3>1. /\ i - n \in 1 .. k /\ i - n \in 0 .. k /\ (i - n) - 1 \in 0 .. k
          /\ n + (i - n) = i /\ n + ((i - n) - 1) = i - 1
      BY <1>1, <2>2
    <3>2. h[i] = g[i - n] /\ h[i - 1] = g[(i - n) - 1] /\ w[i] = u[i - n]
      BY <1>1, <1>5, <3>1
    <3> QED
      BY <1>3, <3>1, <3>2
  <2> QED
    BY <2>1, <2>2
<1>7. h[0] = c /\ h[n + k] = e
  BY <1>1, <1>2, <1>3, <1>5
<1> QED
  BY <1>1, <1>4, <1>6, <1>7 DEF Leads, Counts, w

\* The first message is counted first.
LEMMA LeadsTail ==
  ASSUME NEW c, NEW d, NEW s \in Seq(Message), s # <<>>, Leads(c, s, d)
  PROVE  Leads(Counted(c, Head(s)), Tail(s), d)
<1> DEFINE r == Tail(s)
           n == Len(s)
<1>1. /\ n \in Nat \ {0} /\ Len(r) = n - 1 /\ Head(s) = s[1]
      /\ \A i \in 1 .. n - 1 : r[i] = s[i + 1]
  <2>1. n \in Nat /\ DOMAIN s = 1 .. n /\ r \in Seq(Message)
    BY ElementsAre, TailIs
  <2>2. 1 \in DOMAIN s /\ Len(r) = n - 1 /\ Head(s) = s[1] /\ DOMAIN r = 1 .. Len(r)
        /\ \A i \in DOMAIN r : r[i] = s[i + 1]
    BY <2>1, ElementsAre, TailIs
  <2> QED
    BY <2>1, <2>2
<1>2. PICK f \in [0 .. n -> Counts] :
        /\ f[0] = c /\ f[n] = d /\ \A i \in 1 .. n : f[i] = Counted(f[i - 1], s[i])
  BY DEF Leads, Counts
<1> HIDE DEF r, n
<1> DEFINE g == [i \in 0 .. n - 1 |-> f[i + 1]]
<1>3. \A i \in 0 .. n - 1 : i + 1 \in 0 .. n /\ g[i] = f[i + 1]
  BY <1>1
<1>4. g \in [0 .. n - 1 -> Counts]
  BY <1>3
<1> HIDE DEF g
<1>5. g[0] = Counted(c, Head(s)) /\ g[n - 1] = d
  <2>1. 0 \in 0 .. n - 1 /\ n - 1 \in 0 .. n - 1 /\ 1 \in 1 .. n /\ 0 + 1 = 1 /\ (n - 1) + 1 = n
        /\ 1 - 1 = 0
    BY <1>1
  <2>2. g[0] = f[1] /\ g[n - 1] = f[n] /\ f[1] = Counted(f[1 - 1], s[1])
    BY <1>2, <1>3, <2>1
  <2> QED
    BY <1>1, <1>2, <2>1, <2>2
<1>6. ASSUME NEW i \in 1 .. n - 1 PROVE g[i] = Counted(g[i - 1], r[i])
  <2>1. i + 1 \in 1 .. n /\ i \in 0 .. n - 1 /\ i - 1 \in 0 .. n - 1 /\ (i - 1) + 1 = i
        /\ (i + 1) - 1 = i
    BY <1>1
  <2>2. g[i] = f[i + 1] /\ g[i - 1] = f[i] /\ r[i] = s[i + 1]
    BY <1>1, <1>3, <2>1
  <2>3. f[i + 1] = Counted(f[(i + 1) - 1], s[i + 1])
    BY <1>2, <2>1
  <2> QED
    BY <2>1, <2>2, <2>3
<1> QED
  BY <1>1, <1>4, <1>5, <1>6 DEF Leads, Counts, r

\* Whatever the messages are, they can be counted.
LEMMA LeadsSomewhere ==
  ASSUME NEW c \in Counts, NEW s \in Seq(Message)
  PROVE  \E d \in Counts : Leads(c, s, d)
<1> DEFINE n == Len(s)
           step == [i \in 1 .. n |-> [v \in Counts |-> Counted(v, s[i])]]
<1>1. n \in Nat /\ \A i \in 1 .. n : s[i] \in Message
  BY ElementsAre, ElementOfSeq
<1>2. StepsStay(step, n, Counts)
  BY <1>1, CountedIs DEF StepsStay
<1> HIDE DEF step
<1>3. PICK f : Solution(f, n, Counts, c, step)
  BY <1>1, <1>2, Recursion
<1>4. f \in [0 .. n -> Counts] /\ f[0] = c /\ \A i \in 1 .. n : f[i] = step[i][f[i - 1]]
  BY <1>3 DEF Solution
<1>5. ASSUME NEW i \in 1 .. n PROVE f[i] = Counted(f[i - 1], s[i])
  <2>1. i - 1 \in 0 .. n
    BY <1>1
  <2>2. f[i - 1] \in Counts
    BY <1>4, <2>1
  <2>3. step[i][f[i - 1]] = Counted(f[i - 1], s[i])
    BY <2>2 DEF step
  <2> QED
    BY <1>4, <2>3
<1>6. f[n] \in Counts
  BY <1>1, <1>4
<1> QED
  BY <1>4, <1>5, <1>6 DEF Leads, Counts

\* Events change no counts.
LEMMA EventsLeadNowhere ==
  ASSUME NEW c \in Counts, NEW s \in Seq(EventMessage)
  PROVE  Leads(c, s, c)
<1> DEFINE n == Len(s)
           f == [i \in 0 .. n |-> c]
<1>1. n \in Nat /\ \A i \in 1 .. n : s[i] \in EventMessage
  BY ElementsAre, ElementOfSeq
<1>2. \A m \in EventMessage : Counted(c, m) = c
  BY DEF EventMessage, EventType, Counted
<1>3. f \in [0 .. n -> Counts] /\ \A i \in 0 .. n : f[i] = c
  OBVIOUS
<1> HIDE DEF f
<1>4. ASSUME NEW i \in 1 .. n PROVE f[i] = Counted(f[i - 1], s[i])
  <2>1. i \in 0 .. n /\ i - 1 \in 0 .. n
    BY <1>1
  <2> QED
    BY <1>1, <1>2, <1>3, <2>1
<1>5. f[0] = c /\ f[n] = c
  BY <1>1, <1>3
<1> QED
  BY <1>3, <1>4, <1>5 DEF Leads, Counts

-----------------------------------------------------------------------------
(***************************************************************************)
(* The tasks are counted: one more is created, or one changes its status.  *)
(***************************************************************************)
With(st, s) == {u \in Tasks : st[u] = s}

LEMMA WithIsFinite ==
  ASSUME NEW st, NEW s
  PROVE  IsFiniteSet(With(st, s)) /\ Cardinality(With(st, s)) \in Nat
<1>1. With(st, s) \in SUBSET Tasks
  BY DEF With
<1> QED
  BY <1>1, BoardSyncAssumption, FS_Subset, FS_CardinalityType

LEMMA CountsAre ==
  ASSUME NEW st
  PROVE  CountsOf(st) \in Counts /\ \A s \in Shown : CountsOf(st)[s] = Cardinality(With(st, s))
<1>1. CountsOf(st) = [s \in Shown |-> Cardinality(With(st, s))]
  BY DEF CountsOf, With
<1> QED
  BY <1>1, WithIsFinite DEF Counts

LEMMA OneMoved ==
  ASSUME NEW st, NEW t \in Tasks, NEW new, NEW then,
         then[t] = new, \A u \in Tasks \ {t} : then[u] = st[u], NEW s
  PROVE  Cardinality(With(then, s)) =
           CASE s = new /\ st[t] # new -> Cardinality(With(st, s)) + 1
             [] s # new /\ st[t] = s -> Cardinality(With(st, s)) - 1
             [] OTHER -> Cardinality(With(st, s))
<1>1. IsFiniteSet(With(st, s))
  BY WithIsFinite
<1>2. CASE s = new /\ st[t] # new
  <2>1. With(then, s) = With(st, s) \cup {t} /\ t \notin With(st, s)
    BY <1>2 DEF With
  <2> QED
    BY <1>1, <1>2, <2>1, FS_AddElement
<1>3. CASE s # new /\ st[t] = s
  <2>1. With(then, s) = With(st, s) \ {t} /\ t \in With(st, s)
    BY <1>3 DEF With
  <2> QED
    BY <1>1, <1>3, <2>1, FS_RemoveElement
<1>4. CASE ~ (s = new /\ st[t] # new) /\ ~ (s # new /\ st[t] = s)
  <2>1. With(then, s) = With(st, s)
    BY <1>4 DEF With
  <2> QED
    BY <1>4, <2>1
<1> QED
  BY <1>2, <1>3, <1>4

LEMMA CreationIsCounted ==
  ASSUME NEW st, NEW t \in Tasks, NEW new \in {"todo", "queued"}, NEW then,
         st[t] = "absent", then[t] = new, \A u \in Tasks \ {t} : then[u] = st[u]
  PROVE  CountsOf(then) = Counted(CountsOf(st), TaskCreated(t, new))
<1> DEFINE m == TaskCreated(t, new)
           c == CountsOf(st)
<1>1. m \in Message /\ m.type = "task_created" /\ m.status = new /\ new \in Shown
      /\ "absent" \notin Shown
  BY DEF TaskCreated, Message, CreatedMessage, Shown, Store!Status
<1>2. c \in Counts /\ \A s \in Shown : c[s] = Cardinality(With(st, s))
  BY CountsAre
<1> HIDE DEF m, c
<1>3. Counted(c, m) = [c EXCEPT ![new] = @ + 1] /\ Counted(c, m) \in Counts
  BY <1>1, <1>2, CountedIs DEF Counted
<1>4. ASSUME NEW s \in Shown PROVE CountsOf(then)[s] = Counted(c, m)[s]
  <2>1. Cardinality(With(then, s)) = IF s = new THEN c[s] + 1 ELSE c[s]
    BY <1>1, <1>2, OneMoved
  <2> QED
    BY <1>1, <1>2, <1>3, <2>1, CountsAre DEF Counts
<1>5. CountsOf(then) \in Counts
  BY CountsAre
<1>6. CountsOf(then) = Counted(c, m)
  BY <1>3, <1>4, <1>5 DEF Counts
<1> QED
  BY <1>6 DEF m, c

LEMMA ChangeIsCounted ==
  ASSUME NEW st, NEW t \in Tasks, NEW new \in Shown, NEW then,
         st[t] \in Shown, then[t] = new, \A u \in Tasks \ {t} : then[u] = st[u]
  PROVE  CountsOf(then) = Counted(CountsOf(st), StatusChanged(t, st[t], new))
<1> DEFINE old == st[t]
           m == StatusChanged(t, old, new)
           c == CountsOf(st)
           less == [c EXCEPT ![old] = IF @ > 0 THEN @ - 1 ELSE @]
<1>1. m \in Message /\ m.type = "task_status_changed" /\ m.oldStatus = old /\ m.newStatus = new
  BY DEF StatusChanged, Message, ChangedMessage
<1>2. c \in Counts /\ \A s \in Shown : c[s] = Cardinality(With(st, s))
  BY CountsAre
<1>3. c[old] > 0
  <2>1. t \in With(st, old) /\ IsFiniteSet(With(st, old)) /\ Cardinality(With(st, old)) \in Nat
    BY WithIsFinite DEF With
  <2>2. Cardinality(With(st, old)) # 0
    BY <2>1, FS_EmptySet
  <2> QED
    BY <1>2, <2>1, <2>2
<1> HIDE DEF m, c
<1>4. less \in Counts /\ \A s \in Shown : less[s] = IF s = old THEN c[s] - 1 ELSE c[s]
  BY <1>2, <1>3 DEF Counts
<1>5. Counted(c, m) = [less EXCEPT ![new] = @ + 1] /\ Counted(c, m) \in Counts
  BY <1>1, <1>2, CountedIs DEF Counted, Moved
<1> HIDE DEF less
<1>6. ASSUME NEW s \in Shown PROVE CountsOf(then)[s] = Counted(c, m)[s]
  <2>1. Cardinality(With(then, s)) =
          CASE s = new /\ old # new -> c[s] + 1
            [] s # new /\ old = s -> c[s] - 1
            [] OTHER -> c[s]
    BY <1>2, OneMoved
  <2>2. Counted(c, m)[s] = (IF s = new THEN less[s] + 1 ELSE less[s]) /\ c[s] \in Nat
    BY <1>2, <1>4, <1>5 DEF Counts
  <2> QED
    BY <1>4, <2>1, <2>2, CountsAre
<1>7. CountsOf(then) \in Counts
  BY CountsAre
<1> QED
  BY <1>5, <1>6, <1>7 DEF Counts, m, c

\* What is counted are the statuses of the tasks.
LEMMA SameCounts ==
  ASSUME NEW st, NEW then, \A u \in Tasks : then[u] = st[u]
  PROVE  CountsOf(then) = CountsOf(st)
<1>1. \A s : With(then, s) = With(st, s)
  BY DEF With
<1> QED
  BY <1>1 DEF CountsOf, With

-----------------------------------------------------------------------------
(***************************************************************************)
(* The starts.  Each task that the scheduler took from `waiting` is told   *)
(* of once, whatever their order.                                          *)
(***************************************************************************)
Starts(u) == run[u] = "none" /\ run'[u] # "none"

Start(u) == StatusChanged(u, "queued", "running")

Told(f, waiting) ==
  /\ f \in [0 .. Len(waiting) -> Seq(ChangedMessage)]
  /\ f[0] = <<>> /\ StartsFrom(waiting) = f[Len(waiting)]
  /\ \A i \in 1 .. Len(waiting) :
       f[i] = IF Starts(waiting[i]) THEN Append(f[i - 1], Start(waiting[i])) ELSE f[i - 1]

LEMMA StartIs ==
  ASSUME NEW u \in Tasks
  PROVE  Start(u) \in ChangedMessage
BY DEF Start, StatusChanged, ChangedMessage, Shown, Store!Status

LEMMA StartsAreTold ==
  ASSUME NEW waiting \in Seq(Tasks)
  PROVE  \E f : Told(f, waiting)
<1> DEFINE n == Len(waiting)
           V == Seq(ChangedMessage)
           step == [i \in 1 .. n |->
                      [v \in V |-> IF Starts(waiting[i]) THEN Append(v, Start(waiting[i])) ELSE v]]
           body(f) == [i \in 0 .. n |->
                         CASE i = 0 -> <<>>
                           [] i > 0 /\ run[waiting[i]] = "none" /\ run'[waiting[i]] # "none" ->
                                Append(f[i - 1], StatusChanged(waiting[i], "queued", "running"))
                           [] OTHER -> f[i - 1]]
           told == CHOOSE f : f = body(f)
<1>1. n \in Nat /\ \A i \in 1 .. n : waiting[i] \in Tasks
  BY ElementsAre, ElementOfSeq
<1>2. <<>> \in V /\ StepsStay(step, n, V)
  <2>1. \A i \in 1 .. n : Start(waiting[i]) \in ChangedMessage
    BY <1>1, StartIs
  <2>2. \A i \in 1 .. n : \A v \in V : Append(v, Start(waiting[i])) \in V
    BY <2>1
  <2>3. \A i \in 1 .. n : step[i] \in [V -> V]
    BY <2>2
  <2> QED
    BY <2>3 DEF StepsStay
<1>3. PICK g : Solution(g, n, V, <<>>, step)
  <2> HIDE DEF step, V
  <2> QED
    BY <1>1, <1>2, Recursion
<1>4. \E f : f = body(f)
  <2> HIDE DEF step, V
  <2>3. ASSUME NEW i \in 0 .. n
        PROVE  g[i] = CASE i = 0 -> <<>>
                        [] i > 0 /\ run[waiting[i]] = "none" /\ run'[waiting[i]] # "none" ->
                             Append(g[i - 1], StatusChanged(waiting[i], "queued", "running"))
                        [] OTHER -> g[i - 1]
    <3>1. CASE i = 0
      BY <1>3, <3>1 DEF Solution
    <3>2. CASE i # 0
      <4>1. i > 0 /\ i \in 1 .. n /\ i - 1 \in 0 .. n
        BY <1>1, <3>2
      <4>2. g[i] = step[i][g[i - 1]] /\ g[i - 1] \in V
        BY <1>3, <3>2, <4>1 DEF Solution
      <4>3. g[i] = IF Starts(waiting[i]) THEN Append(g[i - 1], Start(waiting[i])) ELSE g[i - 1]
        BY <4>1, <4>2 DEF step
      <4> QED
        BY <3>2, <4>1, <4>3 DEF Starts, Start
    <3> QED
      BY <3>1, <3>2
  <2>4. g = body(g)
    BY <1>3, <2>3 DEF Solution
  <2> QED
    BY <2>4
<1>5. told = body(told)
  <2> HIDE DEF body
  <2> QED
    BY <1>4
<1>6. StartsFrom(waiting) = told[n]
  BY DEF StartsFrom
<1>7. told[0] = <<>> /\ \A i \in 1 .. n :
        told[i] = IF Starts(waiting[i]) THEN Append(told[i - 1], Start(waiting[i])) ELSE told[i - 1]
  <2> HIDE DEF told
  <2>1. \A i \in 0 .. n :
          told[i] = CASE i = 0 -> <<>>
                      [] i > 0 /\ run[waiting[i]] = "none" /\ run'[waiting[i]] # "none" ->
                           Append(told[i - 1], StatusChanged(waiting[i], "queued", "running"))
                      [] OTHER -> told[i - 1]
    BY <1>5
  <2>2. 0 \in 0 .. n /\ \A i \in 1 .. n : i \in 0 .. n /\ i > 0 /\ i # 0
    BY <1>1
  <2> QED
    BY <2>1, <2>2 DEF Starts, Start
<1>8. told = [i \in 0 .. n |-> told[i]]
  <2> HIDE DEF told
  <2>1. DOMAIN told = 0 .. n
    BY <1>5
  <2> QED
    BY <1>5
<1> HIDE DEF told, V, step
<1> DEFINE I == {i \in 0 .. n : told[i] \in V}
<1>9. 0 \in I
  BY <1>1, <1>2, <1>7
<1>10. ASSUME NEW i \in 1 .. n, i - 1 \in I PROVE i \in I
  <2>1. i \in 0 .. n /\ told[i - 1] \in V /\ Start(waiting[i]) \in ChangedMessage
    BY <1>1, <1>10, StartIs
  <2>2. Append(told[i - 1], Start(waiting[i])) \in V
    BY <2>1, AppendIs DEF V
  <2>3. told[i] = Append(told[i - 1], Start(waiting[i])) \/ told[i] = told[i - 1]
    BY <1>7
  <2> QED
    BY <2>1, <2>2, <2>3
<1>11. 0 .. n \subseteq I
  <2> HIDE DEF I
  <2> QED
    BY <1>1, <1>9, <1>10, UpTo
<1>12. told \in [0 .. n -> V]
  BY <1>8, <1>11
<1> QED
  BY <1>6, <1>7, <1>12 DEF Told, V

\* Who is told of: the tasks of `waiting` that start, and nobody else.
LEMMA StartsFromIs ==
  ASSUME NEW waiting \in Seq(Tasks)
  PROVE  /\ StartsFrom(waiting) \in Seq(ChangedMessage)
         /\ \A m \in ToSet(StartsFrom(waiting)) : \E u \in ToSet(waiting) : Starts(u) /\ m = Start(u)
         /\ \A u \in ToSet(waiting) : Starts(u) => Start(u) \in ToSet(StartsFrom(waiting))
<1> DEFINE n == Len(waiting)
<1>1. n \in Nat /\ (\A i \in 1 .. n : waiting[i] \in Tasks) /\ ToSet(waiting) = {waiting[i] : i \in 1 .. n}
  BY ElementsAre, ElementOfSeq
<1>2. PICK f : Told(f, waiting)
  BY StartsAreTold
<1>3. /\ f \in [0 .. n -> Seq(ChangedMessage)] /\ f[0] = <<>> /\ StartsFrom(waiting) = f[n]
      /\ \A i \in 1 .. n :
           f[i] = IF Starts(waiting[i]) THEN Append(f[i - 1], Start(waiting[i])) ELSE f[i - 1]
  BY <1>2 DEF Told
<1> HIDE DEF n
<1> DEFINE I == {i \in 0 .. n :
                   /\ \A m \in ToSet(f[i]) : \E j \in 1 .. i : Starts(waiting[j]) /\ m = Start(waiting[j])
                   /\ \A j \in 1 .. i : Starts(waiting[j]) => Start(waiting[j]) \in ToSet(f[i])}
<1>4. 0 \in I
  <2>1. 0 \in 0 .. n /\ 1 .. 0 = {}
    BY <1>1
  <2> QED
    BY <1>3, <2>1, EmptyIs
<1>5. ASSUME NEW i \in 1 .. n, i - 1 \in I PROVE i \in I
  <2>1. /\ i \in 0 .. n /\ i - 1 \in 0 .. n /\ f[i - 1] \in Seq(ChangedMessage)
        /\ 1 .. i = 1 .. i - 1 \cup {i} /\ Start(waiting[i]) \in ChangedMessage
    BY <1>1, <1>3, StartIs
  <2>2. /\ \A m \in ToSet(f[i - 1]) : \E j \in 1 .. i - 1 : Starts(waiting[j]) /\ m = Start(waiting[j])
        /\ \A j \in 1 .. i - 1 : Starts(waiting[j]) => Start(waiting[j]) \in ToSet(f[i - 1])
    BY <1>5
  <2>3. CASE Starts(waiting[i])
    <3>1. ToSet(f[i]) = ToSet(f[i - 1]) \cup {Start(waiting[i])}
      BY <1>3, <2>1, <2>3, AppendIs
    <3> QED
      BY <2>1, <2>2, <2>3, <3>1
  <2>4. CASE ~ Starts(waiting[i])
    <3>1. f[i] = f[i - 1]
      BY <1>3, <2>4
    <3> QED
      BY <2>1, <2>2, <2>4, <3>1
  <2> QED
    BY <2>3, <2>4
<1>6. n \in I
  <2> HIDE DEF I
  <2>1. 0 .. n \subseteq I
    BY <1>1, <1>4, <1>5, UpTo
  <2> QED
    BY <1>1, <2>1
<1>7. f[n] \in Seq(ChangedMessage)
  BY <1>1, <1>3
<1> QED
  BY <1>1, <1>3, <1>6, <1>7

\* The starts are counted one after the other.
LEMMA StartsAreCounted ==
  ASSUME NEW waiting \in Seq(Tasks), IsInjective(waiting), NEW mid, NEW then,
         \A u \in ToSet(waiting) : Starts(u) => mid[u] = "queued",
         \A u \in Tasks : then[u] = IF u \in ToSet(waiting) /\ Starts(u) THEN "running" ELSE mid[u]
  PROVE  Leads(CountsOf(mid), StartsFrom(waiting), CountsOf(then))
<1> DEFINE n == Len(waiting)
<1>1. /\ n \in Nat /\ (\A i \in 1 .. n : waiting[i] \in Tasks)
      /\ ToSet(waiting) = {waiting[i] : i \in 1 .. n}
      /\ \A i, j \in 1 .. n : waiting[i] = waiting[j] => i = j
  BY ElementsAre, ElementOfSeq
<1>2. PICK f : Told(f, waiting)
  BY StartsAreTold
<1>3. /\ f \in [0 .. n -> Seq(ChangedMessage)] /\ f[0] = <<>> /\ StartsFrom(waiting) = f[n]
      /\ \A i \in 1 .. n :
           f[i] = IF Starts(waiting[i]) THEN Append(f[i - 1], Start(waiting[i])) ELSE f[i - 1]
  BY <1>2 DEF Told
<1> HIDE DEF n
<1> DEFINE After(i) == [u \in Tasks |->
                          IF Starts(u) /\ \E j \in 1 .. i : waiting[j] = u THEN "running" ELSE mid[u]]
           I == {i \in 0 .. n : Leads(CountsOf(mid), f[i], CountsOf(After(i)))}
<1>4. ASSUME NEW i \in 0 .. n, NEW u \in Tasks
      PROVE  After(i)[u] = IF Starts(u) /\ \E j \in 1 .. i : waiting[j] = u THEN "running" ELSE mid[u]
  OBVIOUS
<1> HIDE DEF After
<1>5. 0 \in I
  <2>1. 0 \in 0 .. n /\ 1 .. 0 = {}
    BY <1>1
  <2>2. \A u \in Tasks : After(0)[u] = mid[u]
    BY <1>4, <2>1
  <2>3. CountsOf(After(0)) = CountsOf(mid)
    BY <2>2, SameCounts
  <2>4. Leads(CountsOf(mid), <<>>, CountsOf(mid))
    BY CountsAre, LeadsNowhere
  <2> QED
    BY <1>3, <2>1, <2>3, <2>4
<1>6. ASSUME NEW i \in 1 .. n, i - 1 \in I PROVE i \in I
  <2> DEFINE u == waiting[i]
  <2>1. /\ i \in 0 .. n /\ i - 1 \in 0 .. n /\ f[i - 1] \in Seq(ChangedMessage)
        /\ 1 .. i = 1 .. i - 1 \cup {i} /\ u \in Tasks /\ Start(u) \in ChangedMessage
    BY <1>1, <1>3, StartIs
  <2>2. Leads(CountsOf(mid), f[i - 1], CountsOf(After(i - 1)))
    BY <1>6
  <2>3. CASE Starts(u)
    <3>1. /\ After(i - 1)[u] = "queued" /\ After(i)[u] = "running"
          /\ \A v \in Tasks \ {u} : After(i)[v] = After(i - 1)[v]
      <4>1. ~ \E j \in 1 .. i - 1 : waiting[j] = u
        BY <1>1
      <4>2. mid[u] = "queued"
        BY <1>1, <2>3
      <4>3. \E j \in 1 .. i : waiting[j] = u
        BY <2>1
      <4>4. \A v \in Tasks \ {u} : (\E j \in 1 .. i : waiting[j] = v) <=> \E j \in 1 .. i - 1 : waiting[j] = v
        BY <2>1
      <4> QED
        BY <1>4, <2>1, <2>3, <4>1, <4>2, <4>3, <4>4
    <3>2. CountsOf(After(i)) = Counted(CountsOf(After(i - 1)), Start(u))
      <4>1. {"queued", "running"} \subseteq Shown
        BY DEF Shown, Store!Status
      <4> QED
        BY <2>1, <3>1, <4>1, ChangeIsCounted DEF Start
    <3>3. Leads(CountsOf(After(i - 1)), <<Start(u)>>, CountsOf(After(i)))
      BY <2>1, <3>2, CountsAre, LeadsTo DEF Message
    <3>4. f[i] = f[i - 1] \o <<Start(u)>>
      BY <1>3, <2>1, <2>3, AppendIsConcat
    <3>5. f[i - 1] \in Seq(Message) /\ <<Start(u)>> \in Seq(Message)
      BY <2>1 DEF Message
    <3>6. Leads(CountsOf(mid), f[i], CountsOf(After(i)))
      BY <2>2, <3>3, <3>4, <3>5, LeadsOn
    <3> QED
      BY <2>1, <3>6
  <2>4. CASE ~ Starts(u)
    <3>1. \A v \in Tasks : After(i)[v] = After(i - 1)[v]
      BY <1>4, <2>1, <2>4
    <3>2. f[i] = f[i - 1] /\ CountsOf(After(i)) = CountsOf(After(i - 1))
      BY <1>3, <2>4, <3>1, SameCounts
    <3> QED
      BY <2>1, <2>2, <3>2
  <2> QED
    BY <2>3, <2>4
<1>7. n \in I
  <2> HIDE DEF I
  <2>1. 0 .. n \subseteq I
    BY <1>1, <1>5, <1>6, UpTo
  <2> QED
    BY <1>1, <2>1
<1>8. CountsOf(After(n)) = CountsOf(then)
  <2>1. \A u \in Tasks : then[u] = After(n)[u]
    BY <1>1, <1>4
  <2> QED
    BY <2>1, SameCounts
<1> QED
  BY <1>3, <1>7, <1>8

-----------------------------------------------------------------------------
(***************************************************************************)
(* An operation of the backend, on task t, gives it the status `new`, and  *)
(* starts tasks of `waiting`.  It tells of the status, unless the status   *)
(* stays; and if it tells of a run, then of one that is there, and in      *)
(* agreement with the status.  A cancelled task stays so, unless its run   *)
(* was shut down and goes on.                                              *)
(***************************************************************************)
Begins(u, waiting) == u \in ToSet(waiting) /\ Starts(u)

Announced(t, new, toAll) ==
  \/ status[t] = "absent" /\ new \in {"todo", "queued"} /\ toAll = <<TaskCreated(t, new)>>
  \/ status[t] # "absent" /\ toAll = <<StatusChanged(t, status[t], new)>>
  \/ status[t] # "absent" /\ new = status[t] /\ toAll = <<>>

Evented(t, new, events) ==
  \/ /\ events = <<>>
     /\ new \in {status[t], "cancelled"} \/ status[t] \in {"absent", "todo"}
  \/ \E type \in EventType :
       /\ events = <<Event(t, type)>>
       /\ run[t] # "none" /\ run'[t] # "none"
       /\ IF type = "progress" THEN new = status[t]
          ELSE new \in {StatusOf(type), "cancelled"} \/ t \in shutdown'

\* The answer to the user, if it was the user who asked for the operation.
Replying(t, new) ==
  \/ UNCHANGED answers
  \/ \E kind \in ReplyKind, s \in Shown :
       /\ answers' = answers \cup {Reply(kind, t, s)}
       /\ kind = "created" => s \in {new, status'[t]}
       /\ kind = "deleted" => s = "cancelled" /\ new = "cancelled"

Operation(t, new, toAll, events, waiting) ==
  /\ waiting \in Seq(Tasks) /\ IsInjective(waiting)
  /\ new \in Shown
  /\ \A u \in Tasks : status'[u] = IF Begins(u, waiting) THEN "running"
                                   ELSE IF u = t THEN new ELSE status[u]
  /\ \A u \in Tasks : Begins(u, waiting) => (IF u = t THEN new ELSE status[u]) = "queued"
  /\ shutdown \subseteq shutdown'
  /\ status[t] = "cancelled" => new = "cancelled" \/ t \in shutdown'
  /\ Announced(t, new, toAll) /\ Evented(t, new, events)
  /\ Broadcast(toAll, events, waiting) /\ Replying(t, new)

-----------------------------------------------------------------------------
(***************************************************************************)
(* What the three parts of the news say of a task u.                       *)
(***************************************************************************)
LEMMA StartsShow ==
  ASSUME NEW waiting \in Seq(Tasks), NEW u \in Tasks
  PROVE  /\ StartsFrom(waiting) \in Seq(ChangedMessage)
         /\ Begins(u, waiting) => ~ Quiet(StartsFrom(waiting), Showing(u))
         /\ ~ Begins(u, waiting) => Quiet(StartsFrom(waiting), Mentioning(u))
         /\ Quiet(StartsFrom(waiting), Creating(u)) /\ Quiet(StartsFrom(waiting), Telling(u))
         /\ \A i \in DOMAIN StartsFrom(waiting) :
              StartsFrom(waiting)[i] \in Showing(u) => StatusShown(StartsFrom(waiting)[i]) = "running"
<1> DEFINE w == StartsFrom(waiting)
<1>1. /\ w \in Seq(ChangedMessage)
      /\ \A m \in ToSet(w) : \E v \in ToSet(waiting) : Starts(v) /\ m = Start(v)
      /\ \A v \in ToSet(waiting) : Starts(v) => Start(v) \in ToSet(w)
  BY StartsFromIs
<1> HIDE DEF w
<1>2. DOMAIN w = 1 .. Len(w) /\ ToSet(w) = {w[i] : i \in 1 .. Len(w)} /\ ToSet(waiting) \subseteq Tasks
  BY <1>1, ElementsAre
<1>3. ASSUME NEW v \in Tasks
      PROVE  /\ Start(v) \in ChangedMessage /\ Start(v).task = v
             /\ Start(v).type = "task_status_changed" /\ StatusShown(Start(v)) = "running"
  BY StartIs DEF Start, StatusChanged, StatusShown
<1>4. ASSUME Begins(u, waiting) PROVE ~ Quiet(w, Showing(u))
  <2>1. Start(u) \in Showing(u) /\ Start(u) \in ToSet(w)
    BY <1>1, <1>3, <1>4 DEF Begins, Showing
  <2> QED
    BY <1>2, <2>1 DEF Quiet
<1>5. ASSUME NEW i \in DOMAIN w
      PROVE  /\ w[i] \in Showing(u) => StatusShown(w[i]) = "running"
             /\ w[i] \in Mentioning(u) => Begins(u, waiting)
             /\ w[i] \notin Creating(u) /\ w[i] \notin Telling(u)
  <2>1. PICK v \in ToSet(waiting) : Starts(v) /\ w[i] = Start(v)
    BY <1>1, <1>2
  <2>2. v \in Tasks /\ w[i] \notin Creating(u) /\ w[i] \notin Telling(u) /\ w[i] \notin Listing(u)
    BY <1>2, <1>3, <2>1 DEF Creating, CreatedMessage, Telling, EventMessage, EventType, Listing,
       SnapshotMessage
  <2>3. w[i] \in Showing(u) => u = v
    BY <1>3, <2>1, <2>2 DEF Showing
  <2> QED
    BY <1>3, <2>1, <2>2, <2>3 DEF Mentioning, Begins
<1> QED
  BY <1>1, <1>4, <1>5 DEF Quiet, w

LEMMA AnnouncementShows ==
  ASSUME NEW t \in Tasks, NEW new \in Shown, NEW toAll, Announced(t, new, toAll),
         status[t] \in Store!Status
  PROVE  /\ toAll \in Seq(CreatedMessage \cup ChangedMessage)
         /\ \A u \in Tasks : Quiet(toAll, Telling(u)) /\ (u # t => Quiet(toAll, Mentioning(u)))
         /\ \A i \in DOMAIN toAll : toAll[i] \in Showing(t) => StatusShown(toAll[i]) = new
         /\ \A i \in DOMAIN toAll : toAll[i] \in Creating(t) => i = 1 /\ toAll[i].status = new
         /\ status[t] = "absent" <=> ~ Quiet(toAll, Creating(t))
         /\ status[t] # "absent" /\ Quiet(toAll, Showing(t)) => new = status[t]
<1>1. CASE status[t] = "absent" /\ new \in {"todo", "queued"} /\ toAll = <<TaskCreated(t, new)>>
  <2> DEFINE m == TaskCreated(t, new)
  <2>1. m \in CreatedMessage /\ m.task = t /\ m.status = new
    BY <1>1 DEF TaskCreated, CreatedMessage
  <2> HIDE DEF m
  <2>2. toAll = <<m>> /\ DOMAIN toAll = {1} /\ toAll[1] = m
        /\ toAll \in Seq(CreatedMessage \cup ChangedMessage)
    BY <1>1, <2>1 DEF m
  <2>3. /\ m \in Creating(t) /\ m \notin Showing(t)
        /\ \A u \in Tasks : m \notin Telling(u) /\ (u # t => m \notin Mentioning(u))
    BY <2>1 DEF Creating, Showing, Telling, Mentioning, Listing, CreatedMessage, ChangedMessage,
       EventMessage, EventType, SnapshotMessage
  <2> QED
    BY <1>1, <2>1, <2>2, <2>3 DEF Quiet
<1>2. CASE status[t] # "absent" /\ toAll = <<StatusChanged(t, status[t], new)>>
  <2> DEFINE m == StatusChanged(t, status[t], new)
  <2>1. /\ m \in ChangedMessage /\ m.task = t /\ m.type = "task_status_changed"
        /\ m.newStatus = new
    BY <1>2 DEF StatusChanged, ChangedMessage, Shown
  <2> HIDE DEF m
  <2>2. toAll = <<m>> /\ DOMAIN toAll = {1} /\ toAll[1] = m
        /\ toAll \in Seq(CreatedMessage \cup ChangedMessage)
    BY <1>2, <2>1 DEF m
  <2>3. /\ m \in Showing(t) /\ m \notin Creating(t) /\ StatusShown(m) = new
        /\ \A u \in Tasks : m \notin Telling(u) /\ (u # t => m \notin Mentioning(u))
    BY <2>1 DEF Creating, Showing, Telling, Mentioning, Listing, CreatedMessage, ChangedMessage,
       EventMessage, EventType, SnapshotMessage, StatusShown
  <2> QED
    BY <1>2, <2>1, <2>2, <2>3 DEF Quiet
<1>3. CASE status[t] # "absent" /\ new = status[t] /\ toAll = <<>>
  <2>1. DOMAIN toAll = {} /\ toAll \in Seq(CreatedMessage \cup ChangedMessage)
    BY <1>3
  <2> QED
    BY <1>3, <2>1 DEF Quiet
<1> QED
  BY <1>1, <1>2, <1>3 DEF Announced

LEMMA EventsShow ==
  ASSUME NEW t \in Tasks, NEW new \in Shown, NEW events, Evented(t, new, events),
         sent[t] \in Nat
  PROVE  /\ events \in Seq(EventMessage)
         /\ \A u \in Tasks : Quiet(events, Creating(u)) /\ (u # t => Quiet(events, Mentioning(u)))
         /\ \A u \in Tasks : u # t => Quiet(events, Telling(u))
         /\ \A i \in DOMAIN events : /\ events[i] \in EventMessage /\ events[i].task = t
                                     /\ events[i].n = sent[t] + 1
         /\ \A i \in DOMAIN events : events[i] \in Showing(t) =>
              new \in {StatusShown(events[i]), "cancelled"} \/ t \in shutdown'
         /\ events # <<>> => run[t] # "none" /\ run'[t] # "none" /\ events = <<events[1]>>
                             /\ DOMAIN events = {1}
         /\ events # <<>> /\ Quiet(events, Showing(t)) => new = status[t]
         /\ events = <<>> => new \in {status[t], "cancelled"} \/ status[t] \in {"absent", "todo"}
<1>1. CASE events = <<>> /\ (new \in {status[t], "cancelled"} \/ status[t] \in {"absent", "todo"})
  <2>1. DOMAIN events = {} /\ events \in Seq(EventMessage)
    BY <1>1
  <2> QED
    BY <1>1, <2>1 DEF Quiet
<1>2. ASSUME NEW type \in EventType, events = <<Event(t, type)>>,
             run[t] # "none", run'[t] # "none",
             IF type = "progress" THEN new = status[t]
             ELSE new \in {StatusOf(type), "cancelled"} \/ t \in shutdown'
      PROVE  /\ events \in Seq(EventMessage)
             /\ \A u \in Tasks : Quiet(events, Creating(u)) /\ (u # t => Quiet(events, Mentioning(u)))
             /\ \A u \in Tasks : u # t => Quiet(events, Telling(u))
             /\ \A i \in DOMAIN events : /\ events[i] \in EventMessage /\ events[i].task = t
                                         /\ events[i].n = sent[t] + 1
             /\ \A i \in DOMAIN events : events[i] \in Showing(t) =>
                  new \in {StatusShown(events[i]), "cancelled"} \/ t \in shutdown'
             /\ events = <<events[1]>> /\ DOMAIN events = {1}
             /\ Quiet(events, Showing(t)) => new = status[t]
  <2> DEFINE m == Event(t, type)
  <2>1. m \in EventMessage /\ m.task = t /\ m.type = type /\ m.n = sent[t] + 1
    BY DEF Event, EventMessage
  <2> HIDE DEF m
  <2>2. events = <<m>> /\ DOMAIN events = {1} /\ events[1] = m /\ events \in Seq(EventMessage)
    BY <1>2, <2>1 DEF m
  <2>3. /\ \A u \in Tasks : m \notin Creating(u) /\ (u # t => m \notin Mentioning(u) /\ m \notin Telling(u))
        /\ type # "progress" <=> m \in Showing(t)
        /\ StatusShown(m) = StatusOf(type)
    BY <2>1 DEF Creating, Showing, Telling, Mentioning, Listing, CreatedMessage, ChangedMessage,
       EventMessage, EventType, SnapshotMessage, StatusShown
  <2> QED
    BY <1>2, <2>1, <2>2, <2>3 DEF Quiet
<1>3. events = <<>> \/ events # <<>>
  OBVIOUS
<1> QED
  BY <1>1, <1>2 DEF Evented

-----------------------------------------------------------------------------
(***************************************************************************)
(* The rings: pushing appends, and the oldest may go.                      *)
(***************************************************************************)
LEMMA GetAllIsSeq ==
  ASSUME NEW V, NEW ring \in RingOf(V), \A i \in 1 .. ring.count : At(ring, i) \in EventMessage
  PROVE  GetAll(ring) \in Seq(EventMessage)
<1>1. /\ DOMAIN GetAll(ring) = 1 .. ring.count /\ Len(GetAll(ring)) = ring.count
      /\ \A i \in 1 .. ring.count : GetAll(ring)[i] = At(ring, i)
  BY GetAllOf
<1>2. ring.count \in Nat
  BY MaxSizeAssumption DEF RingOf
<1>3. GetAll(ring) = [i \in 1 .. ring.count |-> GetAll(ring)[i]]
  BY <1>1 DEF GetAll
<1>4. GetAll(ring) \in [1 .. ring.count -> EventMessage]
  BY <1>1, <1>3
<1> QED
  BY <1>2, <1>4

LEMMA PushEnds ==
  ASSUME NEW V, NEW ring \in RingOf(V), NEW m \in V, NEW A, NEW ok,
         m \in A => m \in ok,
         m \notin A => Ends(GetAll(ring), A, ok)
  PROVE  Ends(GetAll(Push(ring, m)), A, ok)
<1> DEFINE new == GetAll(Push(ring, m))
           old == GetAll(ring)
<1>1. ring.count \in 0 .. MaxSize /\ MaxSize \in Nat \ {0}
  BY MaxSizeAssumption DEF RingOf
<1>2. /\ DOMAIN old = 1 .. ring.count
      /\ \A i \in 1 .. ring.count : old[i] = At(ring, i)
  BY GetAllOf
<1>3. CASE ring.count < MaxSize
  <2>1. /\ Push(ring, m) \in RingOf(V)
        /\ Push(ring, m).count = ring.count + 1
        /\ \A i \in 1 .. ring.count : At(Push(ring, m), i) = At(ring, i)
        /\ At(Push(ring, m), ring.count + 1) = m
    BY <1>1, <1>3, PushWithRoom
  <2>2. /\ DOMAIN new = 1 .. ring.count + 1
        /\ \A i \in 1 .. ring.count : new[i] = old[i]
        /\ new[ring.count + 1] = m
    <3>1. /\ DOMAIN new = 1 .. ring.count + 1
          /\ \A i \in 1 .. ring.count + 1 : new[i] = At(Push(ring, m), i)
      BY <2>1, GetAllOf
    <3> QED
      BY <1>1, <1>2, <2>1, <3>1
  <2> HIDE DEF new, old
  <2>3. ASSUME NEW i \in DOMAIN new, new[i] \in A, \A j \in DOMAIN new : j > i => new[j] \notin A
        PROVE  new[i] \in ok
    <3>1. CASE i = ring.count + 1
      BY <2>2, <2>3, <3>1
    <3>2. CASE i # ring.count + 1
      <4>1. i \in DOMAIN old /\ new[i] = old[i] /\ m \notin A
        BY <1>1, <1>2, <2>2, <2>3, <3>2
      <4>2. \A j \in DOMAIN old : j > i => old[j] \notin A
        BY <1>1, <1>2, <2>2, <2>3
      <4> QED
        BY <2>3, <4>1, <4>2 DEF Ends, old
    <3> QED
      BY <3>1, <3>2
  <2> QED
    BY <2>3 DEF Ends, new
<1>4. CASE ring.count = MaxSize
  <2>1. /\ Push(ring, m) \in RingOf(V)
        /\ Push(ring, m).count = MaxSize
        /\ \A i \in 1 .. MaxSize - 1 : At(Push(ring, m), i) = At(ring, i + 1)
        /\ At(Push(ring, m), MaxSize) = m
    BY <1>1, <1>4, PushWhenFull
  <2>2. /\ DOMAIN new = 1 .. MaxSize
        /\ \A i \in 1 .. MaxSize - 1 : new[i] = old[i + 1]
        /\ new[MaxSize] = m
    <3>1. /\ DOMAIN new = 1 .. MaxSize
          /\ \A i \in 1 .. MaxSize : new[i] = At(Push(ring, m), i)
      BY <2>1, GetAllOf
    <3>2. \A i \in 1 .. MaxSize - 1 : i + 1 \in 1 .. ring.count /\ i \in 1 .. MaxSize
      BY <1>1, <1>4
    <3> QED
      BY <1>1, <1>2, <2>1, <3>1, <3>2
  <2> HIDE DEF new, old
  <2>3. ASSUME NEW i \in DOMAIN new, new[i] \in A, \A j \in DOMAIN new : j > i => new[j] \notin A
        PROVE  new[i] \in ok
    <3>1. CASE i = MaxSize
      BY <2>2, <2>3, <3>1
    <3>2. CASE i # MaxSize
      <4>1. i \in 1 .. MaxSize - 1 /\ i + 1 \in DOMAIN old /\ new[i] = old[i + 1] /\ m \notin A
        BY <1>1, <1>2, <1>4, <2>2, <2>3, <3>2
      <4>2. ASSUME NEW j \in DOMAIN old, j > i + 1 PROVE old[j] \notin A
        <5>1. j - 1 \in 1 .. MaxSize - 1 /\ j - 1 \in DOMAIN new /\ j - 1 > i /\ (j - 1) + 1 = j
          BY <1>1, <1>2, <1>4, <2>2, <4>1, <4>2
        <5>2. new[j - 1] = old[j]
          BY <2>2, <5>1
        <5> QED
          BY <2>3, <5>1, <5>2
      <4> QED
        BY <2>3, <4>1, <4>2 DEF Ends, old
    <3> QED
      BY <3>1, <3>2
  <2> QED
    BY <2>3 DEF Ends, new
<1> QED
  BY <1>1, <1>3, <1>4

-----------------------------------------------------------------------------
(***************************************************************************)
(* The news of an operation are fit to be told.                            *)
(***************************************************************************)
News(toAll, events, waiting) == toAll \o ToSubscribers(events) \o StartsFrom(waiting)

LEMMA NewsAre ==
  ASSUME IInv, NEW t \in Tasks, NEW new, NEW toAll, NEW events, NEW waiting,
         Operation(t, new, toAll, events, waiting)
  PROVE  /\ toAll \in Seq(Message) /\ ToSubscribers(events) \in Seq(Message)
         /\ StartsFrom(waiting) \in Seq(Message)
         /\ toAll \o ToSubscribers(events) \in Seq(Message)
         /\ News(toAll, events, waiting) \in Seq(Message)
<1>1. /\ new \in Shown /\ Announced(t, new, toAll) /\ Evented(t, new, events)
      /\ waiting \in Seq(Tasks) /\ status[t] \in Store!Status /\ sent[t] \in Nat
  BY DEF Operation, IInv, TypeOK, Store!TypeOK
<1>2. toAll \in Seq(CreatedMessage \cup ChangedMessage)
  BY <1>1, AnnouncementShows
<1>3. events \in Seq(EventMessage)
  BY <1>1, EventsShow
<1>4. StartsFrom(waiting) \in Seq(ChangedMessage)
  BY <1>1, StartsShow
<1>5. ToSubscribers(events) \in Seq(EventMessage)
  BY <1>3 DEF ToSubscribers
<1>6. /\ toAll \in Seq(Message) /\ ToSubscribers(events) \in Seq(Message)
      /\ StartsFrom(waiting) \in Seq(Message)
  BY <1>2, <1>4, <1>5 DEF Message
<1>7. toAll \o ToSubscribers(events) \in Seq(Message)
  BY <1>6, ConcatSplits
<1> QED
  BY <1>6, <1>7, ConcatSplits DEF News

LEMMA QuietNews ==
  ASSUME IInv, NEW t \in Tasks, NEW new, NEW toAll, NEW events, NEW waiting,
         Operation(t, new, toAll, events, waiting), NEW A
  PROVE  Quiet(News(toAll, events, waiting), A) <=>
           /\ Quiet(toAll, A) /\ Quiet(ToSubscribers(events), A)
           /\ Quiet(StartsFrom(waiting), A)
<1>1. /\ toAll \in Seq(Message) /\ ToSubscribers(events) \in Seq(Message)
      /\ StartsFrom(waiting) \in Seq(Message)
      /\ toAll \o ToSubscribers(events) \in Seq(Message)
  BY NewsAre
<1>2. Quiet(toAll \o ToSubscribers(events), A) <=>
        Quiet(toAll, A) /\ Quiet(ToSubscribers(events), A)
  BY <1>1, QuietConcat
<1>3. Quiet((toAll \o ToSubscribers(events)) \o StartsFrom(waiting), A) <=>
        Quiet(toAll \o ToSubscribers(events), A) /\ Quiet(StartsFrom(waiting), A)
  BY <1>1, QuietConcat
<1> QED
  BY <1>2, <1>3 DEF News

\* What goes to the subscribers says nothing that the events do not say.
LEMMA QuietSubscribers ==
  ASSUME NEW events, NEW A, Quiet(events, A)
  PROVE  Quiet(ToSubscribers(events), A)
<1>1. ToSubscribers(events) = events \/ ToSubscribers(events) = <<>>
  BY DEF ToSubscribers
<1> QED
  BY <1>1, NothingSaid

LEMMA NewsFit ==
  ASSUME IInv, NEW t \in Tasks, NEW new, NEW toAll, NEW events, NEW waiting,
         Operation(t, new, toAll, events, waiting), NEW u \in Tasks
  PROVE  NewsFor(u, News(toAll, events, waiting))
<1> DEFINE e == ToSubscribers(events)
           w == StartsFrom(waiting)
           news == News(toAll, events, waiting)
<1>1. /\ new \in Shown /\ Announced(t, new, toAll) /\ Evented(t, new, events)
      /\ waiting \in Seq(Tasks) /\ sent[t] \in Nat
      /\ status'[u] = IF Begins(u, waiting) THEN "running" ELSE IF u = t THEN new ELSE status[u]
      /\ Begins(u, waiting) => (IF u = t THEN new ELSE status[u]) = "queued"
      /\ shutdown \subseteq shutdown'
      /\ status[t] = "cancelled" => new = "cancelled" \/ t \in shutdown'
      /\ status \in [Tasks -> Store!Status] /\ "absent" \notin Shown /\ "running" \in Shown
      /\ Shown = Store!Status \ {"absent"}
  BY DEF Operation, IInv, TypeOK, Store!TypeOK, Shown, Store!Status
<1>2. /\ toAll \in Seq(Message) /\ e \in Seq(Message) /\ w \in Seq(Message)
      /\ toAll \o e \in Seq(Message) /\ news \in Seq(Message) /\ news = (toAll \o e) \o w
  BY NewsAre DEF News
<1>3. \A A : Quiet(news, A) <=> Quiet(toAll, A) /\ Quiet(e, A) /\ Quiet(w, A)
  BY QuietNews
<1>4. /\ Begins(u, waiting) => ~ Quiet(w, Showing(u))
      /\ ~ Begins(u, waiting) => Quiet(w, Mentioning(u))
      /\ Quiet(w, Creating(u)) /\ Quiet(w, Telling(u))
      /\ \A i \in DOMAIN w : w[i] \in Showing(u) => StatusShown(w[i]) = "running"
  BY <1>1, StartsShow
<1>5. /\ u # t => Quiet(toAll, Mentioning(u))
      /\ \A i \in DOMAIN toAll : toAll[i] \in Showing(t) => StatusShown(toAll[i]) = new
      /\ \A i \in DOMAIN toAll : toAll[i] \in Creating(t) => i = 1 /\ toAll[i].status = new
      /\ status[t] = "absent" <=> ~ Quiet(toAll, Creating(t))
      /\ status[t] # "absent" /\ Quiet(toAll, Showing(t)) => new = status[t]
  BY <1>1, AnnouncementShows
<1>6. /\ Quiet(events, Creating(u)) /\ (u # t => Quiet(events, Mentioning(u)))
      /\ \A i \in DOMAIN events : events[i] \in Showing(t) =>
           new \in {StatusShown(events[i]), "cancelled"} \/ t \in shutdown'
      /\ events # <<>> => run[t] # "none"
  BY <1>1, EventsShow
<1>7. Quiet(e, Creating(u)) /\ (u # t => Quiet(e, Mentioning(u)))
  BY <1>6, QuietSubscribers
<1> HIDE DEF news, w
<1>8. \A s : Quiet(s, Mentioning(u)) =>
               Quiet(s, Creating(u)) /\ Quiet(s, Showing(u)) /\ Quiet(s, Listing(u))
  BY DEF Quiet, Mentioning
<1>9. Showing(u)' = Showing(u)
  BY DEF Showing, ChangedMessage, EventMessage
<1>10. Showing(u) \subseteq Message
  BY DEF Showing, Message
<1>11. Ends(news, Showing(u), Fitting(u)')
  <2>1. CASE Begins(u, waiting)
    <3>1. Ends(w, Showing(u), Fitting(u)')
      <4>1. \A i \in DOMAIN w : w[i] \in Showing(u) => w[i] \in Fitting(u)'
        BY <1>1, <1>4, <1>10, <2>1 DEF Fitting, Fits, Message, CreatedMessage, ChangedMessage,
           SnapshotMessage, EventMessage, Lists, StatusShown, StatusOf
      <4> QED
        BY <4>1 DEF Ends
    <3> QED
      BY <1>2, <1>4, <2>1, <3>1, EndsConcat
  <2>2. CASE ~ Begins(u, waiting) /\ u # t
    <3>1. Quiet(news, Showing(u))
      BY <1>3, <1>4, <1>5, <1>7, <1>8, <2>2
    <3> QED
      BY <3>1, EndsQuiet
  <2>3. CASE ~ Begins(u, waiting) /\ u = t
    <3>1. Quiet(w, Showing(u)) /\ status'[u] = new
      BY <1>1, <1>4, <1>8, <2>3
    <3>2. Ends(e, Showing(u), Fitting(u)')
      <4>1. \A i \in DOMAIN events : events[i] \in Showing(u) => events[i] \in Fitting(u)'
        BY <1>6, <1>10, <2>3, <3>1 DEF Fitting, Fits, Message, CreatedMessage, ChangedMessage,
           SnapshotMessage, EventMessage, Lists, StatusShown, StatusOf
      <4>2. Ends(events, Showing(u), Fitting(u)')
        BY <4>1 DEF Ends
      <4>3. e = events \/ e = <<>>
        BY DEF ToSubscribers
      <4> QED
        BY <4>2, <4>3, NothingSaid
    <3>3. Ends(toAll, Showing(u), Fitting(u)')
      <4>1. \A i \in DOMAIN toAll : toAll[i] \in Showing(u) => toAll[i] \in Fitting(u)'
        BY <1>5, <1>10, <2>3, <3>1 DEF Fitting, Fits, Message, CreatedMessage, ChangedMessage,
           SnapshotMessage, EventMessage, Lists, StatusShown, StatusOf
      <4> QED
        BY <4>1 DEF Ends
    <3>4. Ends(toAll \o e, Showing(u), Fitting(u)')
      BY <1>2, <3>2, <3>3, EndsConcat
    <3>5. Ends(w, Showing(u), Fitting(u)')
      BY <3>1, EndsQuiet
    <3> QED
      BY <1>2, <3>4, <3>5, EndsConcat
  <2> QED
    BY <2>1, <2>2, <2>3
<1>12. ~ Quiet(news, Mentioning(u)) => status'[u] # "absent"
  BY <1>1, <1>3, <1>4, <1>5, <1>7
<1>13. ASSUME NEW i \in DOMAIN news, news[i] \in Creating(u)
       PROVE  /\ status[u] = "absent"
              /\ \A j \in DOMAIN news : j < i => news[j] \notin Mentioning(u)
              /\ Quiet(news, Showing(u)) => FitsThen(news[i].status, u)
  <2>1. /\ toAll \o e \in Seq(Message)
        /\ \/ i \in DOMAIN (toAll \o e) /\ news[i] = (toAll \o e)[i]
           \/ i - Len(toAll \o e) \in DOMAIN w /\ news[i] = w[i - Len(toAll \o e)]
    BY <1>2, ConcatSplits
  <2>2. i \in DOMAIN (toAll \o e) /\ news[i] = (toAll \o e)[i]
    BY <1>4, <1>13, <2>1 DEF Quiet
  <2>3. \/ i \in DOMAIN toAll /\ news[i] = toAll[i]
        \/ i - Len(toAll) \in DOMAIN e /\ news[i] = e[i - Len(toAll)]
    BY <1>2, <2>2, ConcatSplits
  <2>4. i \in DOMAIN toAll /\ news[i] = toAll[i]
    BY <1>7, <1>13, <2>3 DEF Quiet
  <2>5. u = t
    BY <1>5, <1>8, <1>13, <2>4 DEF Quiet
  <2>6. i = 1 /\ news[i].status = new /\ status[u] = "absent"
    BY <1>5, <1>13, <2>4, <2>5 DEF Quiet
  <2>7. DOMAIN news = 1 .. Len(news) /\ Len(news) \in Nat
    BY <1>2, ElementsAre
  <2>8. Quiet(news, Showing(u)) => status'[u] = new
    BY <1>1, <1>3, <1>4, <2>5
  <2> QED
    BY <2>6, <2>7, <2>8 DEF FitsThen
<1>14. status[u] = "absent" /\ status'[u] # "absent" => ~ Quiet(news, Creating(u))
  BY <1>1, <1>3, <1>5
<1>15. status[u] # "absent" => status'[u] # "absent"
  BY <1>1
<1>16. status[u] # "absent" /\ Quiet(news, Showing(u)) =>
         status'[u] = status[u] /\ shutdown \subseteq shutdown'
  BY <1>1, <1>3, <1>4, <1>5
<1>17. status[u] = "cancelled" \/ u \in shutdown => FitsThen("cancelled", u)
  BY <1>1 DEF FitsThen
<1> QED
  BY <1>11, <1>12, <1>13, <1>14, <1>15, <1>16, <1>17 DEF NewsFor, news

\* The answer to the user is right, or the news are on their way as well.
LEMMA ReplyFits ==
  ASSUME IInv, NEW t \in Tasks, NEW new, NEW toAll, NEW events, NEW waiting,
         Operation(t, new, toAll, events, waiting),
         link = "down" => inbox' = <<>>,
         link = "up" => inbox' = inbox \o News(toAll, events, waiting)
  PROVE  /\ answers \subseteq answers'
         /\ \A a \in answers' \ answers :
              /\ a \in AnswerMessage /\ a.kind # "all"
              /\ \A u \in DOMAIN a.tasks : status'[u] # "absent" /\ AnswerFits(a, u)'
<1> DEFINE news == News(toAll, events, waiting)
<1>1. /\ new \in Shown /\ Replying(t, new) /\ waiting \in Seq(Tasks)
      /\ status'[t] = IF Begins(t, waiting) THEN "running" ELSE new
      /\ Begins(t, waiting) => new = "queued"
      /\ "absent" \notin Shown /\ "running" \in Shown
      /\ inbox \in Seq(Message) /\ link \in {"up", "down"}
  BY DEF Operation, IInv, TypeOK, MessagesOK, Shown, Store!Status
<1>2. news \in Seq(Message)
  BY NewsAre
<1>3. Quiet(news, Showing(t)) => status'[t] = new
  <2>1. Quiet(news, Showing(t)) => Quiet(StartsFrom(waiting), Showing(t))
    BY QuietNews
  <2>2. Begins(t, waiting) => ~ Quiet(StartsFrom(waiting), Showing(t))
    BY <1>1, StartsShow
  <2> QED
    BY <1>1, <2>1, <2>2
<1> HIDE DEF news
<1>4. ASSUME NEW a \in answers' \ answers
      PROVE  /\ a \in AnswerMessage /\ a.kind # "all"
             /\ \A u \in DOMAIN a.tasks : status'[u] # "absent" /\ AnswerFits(a, u)'
  <2>1. PICK kind \in ReplyKind, s \in Shown :
          /\ a = Reply(kind, t, s)
          /\ kind = "created" => s \in {new, status'[t]}
          /\ kind = "deleted" => s = "cancelled" /\ new = "cancelled"
    BY <1>1 DEF Replying
  <2>2. /\ a.kind = kind /\ DOMAIN a.tasks = {t} /\ a.tasks[t] = s
        /\ a = [kind |-> kind, tasks |-> a.tasks] /\ a.tasks \in [{t} -> Shown]
    BY <2>1 DEF Reply
  <2>3. a \in AnswerMessage /\ a.kind # "all"
    <3>1. a.tasks \in Lists
      BY <2>2 DEF Lists
    <3> QED
      BY <2>2, <3>1 DEF AnswerMessage, ReplyKind
  <2>4. ASSUME kind = "created", ~ Quiet(inbox', Creating(t)), Quiet(inbox', Showing(t))
        PROVE  Fits(s, t)'
    <3>1. link = "up"
      <4>1. DOMAIN <<>> = {}
        OBVIOUS
      <4> QED
        BY <1>1, <2>4, <4>1 DEF Quiet
    <3>2. inbox' = inbox \o news
      BY <3>1 DEF news
    <3>3. Quiet(news, Showing(t))
      BY <1>1, <1>2, <2>4, <3>2, QuietConcat
    <3> QED
      BY <1>3, <2>1, <2>4, <3>3 DEF Fits
  <2>5. kind = "deleted" => s = "cancelled" /\ Fits("cancelled", t)'
    BY <1>1, <2>1 DEF Fits
  <2>6. Creating(t)' = Creating(t) /\ Showing(t)' = Showing(t)
    BY DEF Creating, Showing, CreatedMessage, ChangedMessage, EventMessage
  <2>7. status'[t] # "absent"
    BY <1>1
  <2>8. AnswerFits(a, t)'
    BY <2>2, <2>4, <2>5, <2>6 DEF AnswerFits
  <2> QED
    BY <2>2, <2>3, <2>7, <2>8
<1>5. answers \subseteq answers'
  BY <1>1 DEF Replying
<1> QED
  BY <1>4, <1>5

\* What Keep does to the ring and the number of each task.
LEMMA KeepIs ==
  ASSUME IInv, NEW t \in Tasks, NEW new, NEW toAll, NEW events, NEW waiting,
         Operation(t, new, toAll, events, waiting), NEW u \in Tasks
  PROVE  IF u = t /\ events # <<>>
         THEN buffers'[u] = Push(buffers[u], events[1]) /\ sent'[u] = sent[u] + 1
         ELSE buffers'[u] = buffers[u] /\ sent'[u] = sent[u]
<1>1. /\ new \in Shown /\ Evented(t, new, events) /\ sent[t] \in Nat /\ Keep(events)
  BY DEF Operation, IInv, TypeOK, Broadcast
<1>2. events # <<>> => events[1].task = t
  BY <1>1, EventsShow
<1> QED
  BY <1>1, <1>2 DEF Keep

LEMMA RingsAreRings ==
  ASSUME IInv, NEW u \in Tasks
  PROVE  /\ buffers[u] \in RingOf(Held) /\ GetAll(buffers[u]) \in Seq(EventMessage)
         /\ sent[u] = 0 => GetAll(buffers[u]) = <<>>
<1>1. buffers[u] \in RingOf(Held) /\ HoldsLatest(buffers[u], u, sent[u])
  BY DEF IInv, LatestInv, RingsOK
<1>2. GetAll(buffers[u]) \in Seq(EventMessage)
  BY <1>1, GetAllIsSeq DEF HoldsLatest
<1>3. ASSUME sent[u] = 0 PROVE Len(GetAll(buffers[u])) = 0
  BY <1>1, <1>3, GetAllOf, MaxSizeAssumption DEF HoldsLatest
<1> QED
  BY <1>1, <1>2, <1>3

LEMMA RingsGrow ==
  ASSUME IInv, NEW t \in Tasks, NEW new, NEW toAll, NEW events, NEW waiting,
         Operation(t, new, toAll, events, waiting), P!IInv', NEW u \in Tasks
  PROVE  NoEventsYet(u)' /\ RingFits(u)'
<1>1. /\ new \in Shown /\ Announced(t, new, toAll) /\ Evented(t, new, events)
      /\ waiting \in Seq(Tasks) /\ sent[t] \in Nat
      /\ status'[u] = IF Begins(u, waiting) THEN "running" ELSE IF u = t THEN new ELSE status[u]
      /\ Begins(u, waiting) => (IF u = t THEN new ELSE status[u]) = "queued"
      /\ shutdown \subseteq shutdown'
  BY DEF Operation, IInv, TypeOK
<1>2. NoEventsYet(u) /\ RingFits(u)
  BY DEF IInv, TaskOK
<1>3. IF u = t /\ events # <<>>
      THEN buffers'[u] = Push(buffers[u], events[1]) /\ sent'[u] = sent[u] + 1
      ELSE buffers'[u] = buffers[u] /\ sent'[u] = sent[u]
  BY KeepIs
<1>4. /\ events # <<>> => run'[t] # "none" /\ DOMAIN events = {1} /\ run[t] # "none"
      /\ \A i \in DOMAIN events : events[i] \in EventMessage
      /\ \A i \in DOMAIN events : events[i] \in Showing(t) =>
           new \in {StatusShown(events[i]), "cancelled"} \/ t \in shutdown'
      /\ events # <<>> /\ Quiet(events, Showing(t)) => new = status[t]
      /\ events = <<>> => new \in {status[t], "cancelled"} \/ status[t] \in {"absent", "todo"}
  BY <1>1, EventsShow
<1>5. run'[u] # "none" => status'[u] \notin {"absent", "todo", "queued"}
  BY DEF P!IInv, P!StatusMatchesRun
<1>6. NoEventsYet(u)'
  <2>1. CASE u = t /\ events # <<>>
    BY <1>4, <1>5, <2>1 DEF NoEventsYet
  <2>2. CASE u = t /\ events = <<>>
    BY <1>1, <1>2, <1>3, <1>4, <2>2 DEF NoEventsYet
  <2>3. CASE u # t
    BY <1>1, <1>2, <1>3, <2>3 DEF NoEventsYet
  <2> QED
    BY <2>1, <2>2, <2>3
<1>7. /\ buffers[u] \in RingOf(Held) /\ GetAll(buffers[u]) \in Seq(EventMessage)
      /\ sent[u] = 0 => GetAll(buffers[u]) = <<>>
  BY RingsAreRings
<1>8. Showing(u)' = Showing(u)
  BY DEF Showing, ChangedMessage, EventMessage
<1>9. ASSUME status'[u] = status[u] PROVE Ends(GetAll(buffers[u]), Showing(u), Fitting(u)')
  <2>1. Fitting(u) \subseteq Fitting(u)'
    BY <1>1, <1>9 DEF Fitting, Fits
  <2> QED
    BY <1>2, <2>1, EndsWeaker DEF RingFits
<1>10. ASSUME status'[u] = "cancelled" PROVE Ends(GetAll(buffers[u]), Showing(u), Fitting(u)')
  <2>1. Showing(u) \subseteq Fitting(u)'
    BY <1>10 DEF Fitting, Fits, Showing, Message, CreatedMessage, ChangedMessage, SnapshotMessage,
       EventMessage, Lists
  <2> QED
    BY <2>1 DEF Ends
<1>11. ASSUME status[u] \in {"absent", "todo", "queued"}
       PROVE  Ends(GetAll(buffers[u]), Showing(u), Fitting(u)')
  <2>1. GetAll(buffers[u]) = <<>>
    BY <1>2, <1>7, <1>11 DEF NoEventsYet
  <2> QED
    BY <2>1, NothingSaid
<1>12. Ends(GetAll(buffers'[u]), Showing(u), Fitting(u)')
  <2>1. CASE u = t /\ events # <<>>
    <3> DEFINE m == events[1]
    <3>1. m \in EventMessage /\ m \in Held /\ DOMAIN events = {1} /\ ~ Begins(u, waiting)
      BY <1>4, <2>1 DEF Held, Begins, Starts
    <3>2. status'[u] = new
      BY <1>1, <2>1, <3>1
    <3>3. ASSUME m \in Showing(u) PROVE m \in Fitting(u)'
      BY <1>4, <2>1, <3>1, <3>2, <3>3
      DEF Fitting, Fits, Message, CreatedMessage, ChangedMessage,
           SnapshotMessage, EventMessage, Lists, StatusShown, StatusOf
    <3>4. ASSUME m \notin Showing(u) PROVE Ends(GetAll(buffers[u]), Showing(u), Fitting(u)')
      <4>1. status'[u] = status[u]
        BY <1>4, <2>1, <3>1, <3>2, <3>4 DEF Quiet
      <4> QED
        BY <1>9, <4>1
    <3> HIDE DEF m
    <3>5. Ends(GetAll(Push(buffers[u], m)), Showing(u), Fitting(u)')
      BY <1>7, <3>1, <3>3, <3>4, PushEnds
    <3> QED
      BY <1>3, <2>1, <3>5 DEF m
  <2>2. CASE ~ (u = t /\ events # <<>>)
    <3>1. \/ status'[u] = status[u]
          \/ status'[u] = "cancelled"
          \/ status[u] \in {"absent", "todo", "queued"}
      BY <1>1, <1>4, <2>2
    <3>2. buffers'[u] = buffers[u]
      BY <1>3, <2>2
    <3> QED
      BY <1>9, <1>10, <1>11, <3>1, <3>2
  <2> QED
    BY <2>1, <2>2
<1> QED
  BY <1>6, <1>8, <1>12 DEF RingFits

LEMMA EventsAreSeen ==
  ASSUME IInv, NEW t \in Tasks, NEW new, NEW toAll, NEW events, NEW waiting,
         Operation(t, new, toAll, events, waiting), NEW u \in Tasks
  PROVE  SeenFits(u)'
<1> DEFINE e == ToSubscribers(events)
           w == StartsFrom(waiting)
           news == News(toAll, events, waiting)
<1>1. /\ new \in Shown /\ Announced(t, new, toAll) /\ Evented(t, new, events)
      /\ waiting \in Seq(Tasks) /\ sent[t] \in Nat /\ status[t] \in Store!Status
      /\ UNCHANGED <<subscriptions, seen, link>>
      /\ inbox' = IF link = "down" THEN inbox ELSE inbox \o toAll \o e \o w
  BY DEF Operation, IInv, TypeOK, Store!TypeOK, Broadcast, viewVars
<1>2. /\ toAll \in Seq(Message) /\ e \in Seq(Message) /\ w \in Seq(Message)
      /\ toAll \o e \in Seq(Message) /\ news \in Seq(Message) /\ news = (toAll \o e) \o w
  BY NewsAre DEF News
<1>3. Quiet(toAll, Telling(u))
  BY <1>1, AnnouncementShows
<1>4. Quiet(w, Telling(u))
  BY <1>1, StartsShow
<1>5. /\ u # t => Quiet(events, Telling(u))
      /\ events \in Seq(EventMessage)
      /\ \A i \in DOMAIN events : /\ events[i] \in EventMessage /\ events[i].task = t
                                  /\ events[i].n = sent[t] + 1
      /\ events # <<>> => DOMAIN events = {1}
  BY <1>1, EventsShow
<1>6. IF u = t /\ events # <<>> THEN sent'[u] = sent[u] + 1 ELSE sent'[u] = sent[u]
  BY KeepIs
<1>7. /\ SeenFits(u) /\ sent[u] \in Nat /\ inbox \in Seq(Message)
      /\ link = "down" => inbox = <<>> /\ subscriptions = {}
  BY DEF IInv, TaskOK, TypeOK, MessagesOK
<1>8. sent'[u] \in Nat /\ sent[u] <= sent'[u]
  BY <1>6, <1>7
<1>9. CASE link = "down"
  BY <1>1, <1>7, <1>8, <1>9 DEF SeenFits
<1>10. CASE link # "down"
  <2>1. inbox' = inbox \o news
    <3>1. inbox' = ((inbox \o toAll) \o e) \o w
      BY <1>1, <1>10
    <3> HIDE DEF e, w, news
    <3>2. inbox \o (toAll \o e) = (inbox \o toAll) \o e
      BY <1>2, <1>7, ConcatAssociative
    <3>3. inbox \o ((toAll \o e) \o w) = (inbox \o (toAll \o e)) \o w
      <4> DEFINE c == toAll \o e
      <4>1. c \in Seq(Message) /\ w \in Seq(Message) /\ inbox \in Seq(Message)
        BY <1>2, <1>7
      <4> HIDE DEF c
      <4>2. inbox \o (c \o w) = (inbox \o c) \o w
        BY <4>1, ConcatAssociative
      <4> QED
        BY <4>2 DEF c
    <3> QED
      BY <1>2, <3>1, <3>2, <3>3
  <2>2. ASSUME NEW i \in DOMAIN events, events[i] \in Telling(u)
        PROVE  u = t /\ events[i].n = sent'[u] /\ sent'[u] = sent[u] + 1
    <3>1. u = t /\ events # <<>>
      BY <1>5, <2>2 DEF Quiet
    <3> QED
      BY <1>5, <1>6, <3>1
  <2>3. e = events \/ e = <<>>
    BY DEF ToSubscribers
  <2>4. \A i \in DOMAIN e : e[i] \in Telling(u) => e[i].n = sent'[u] /\ sent'[u] = sent[u] + 1
    <3>1. DOMAIN <<>> = {}
      OBVIOUS
    <3> QED
      BY <2>2, <2>3, <3>1
  <2>5. Ends(e, Telling(u), Latest(u)')
    BY <2>4 DEF Ends, Latest, Telling, EventMessage
  <2>6. Ends(news, Telling(u), Latest(u)')
    <3>1. Ends(toAll, Telling(u), Latest(u)') /\ Ends(w, Telling(u), Latest(u)')
      BY <1>3, <1>4, EndsQuiet
    <3>2. Ends(toAll \o e, Telling(u), Latest(u)')
      BY <1>2, <2>5, <3>1, EndsConcat
    <3> QED
      BY <1>2, <3>1, <3>2, EndsConcat
  <2>7. ASSUME NEW k \in DOMAIN news, news[k] \in Telling(u) PROVE news[k].n \in 1 .. sent'[u]
    <3> HIDE DEF news, e, w
    <3>1. \/ k \in DOMAIN (toAll \o e) /\ news[k] = (toAll \o e)[k]
          \/ k - Len(toAll \o e) \in DOMAIN w /\ news[k] = w[k - Len(toAll \o e)]
      BY <1>2, ConcatSplits
    <3>2. k \in DOMAIN (toAll \o e) /\ news[k] = (toAll \o e)[k]
      BY <1>4, <2>7, <3>1 DEF Quiet
    <3>3. \/ k \in DOMAIN toAll /\ news[k] = toAll[k]
          \/ k - Len(toAll) \in DOMAIN e /\ news[k] = e[k - Len(toAll)]
      BY <1>2, <3>2, ConcatSplits
    <3>4. k - Len(toAll) \in DOMAIN e /\ news[k] = e[k - Len(toAll)]
      BY <1>3, <2>7, <3>3 DEF Quiet
    <3> QED
      BY <1>7, <2>4, <2>7, <3>4
  <2>8. ASSUME u \in subscriptions', Quiet(news, Telling(u))
        PROVE  u \in subscriptions /\ sent'[u] = sent[u]
    <3>1. Quiet(e, Telling(u))
      BY <2>8, QuietNews
    <3>2. ASSUME u = t, events # <<>> PROVE FALSE
      <4>1. events[1] \in Telling(u) /\ DOMAIN events = {1}
        BY <1>5, <3>2 DEF Telling
      <4>2. e = events
        BY <1>1, <1>5, <2>8, <3>2 DEF ToSubscribers
      <4> QED
        BY <3>1, <4>1, <4>2 DEF Quiet
    <3> QED
      BY <1>1, <1>6, <2>8, <3>2
  <2> HIDE DEF news
  <2> QED
    BY <1>1, <1>2, <1>7, <1>8, <2>1, <2>6, <2>7, <2>8, SeenGrows
<1> QED
  BY <1>9, <1>10

\* The news lead the counts to where the statuses are.
LEMMA NewsAreCounted ==
  ASSUME IInv, NEW t \in Tasks, NEW new, NEW toAll, NEW events, NEW waiting,
         Operation(t, new, toAll, events, waiting)
  PROVE  Leads(CountsOf(status), News(toAll, events, waiting), CountsOf(status'))
<1> DEFINE e == ToSubscribers(events)
           w == StartsFrom(waiting)
           mid == [u \in Tasks |-> IF u = t THEN new ELSE status[u]]
<1>1. /\ new \in Shown /\ Announced(t, new, toAll) /\ Evented(t, new, events)
      /\ waiting \in Seq(Tasks) /\ IsInjective(waiting) /\ sent[t] \in Nat
      /\ status[t] \in Store!Status
      /\ \A u \in Tasks : status'[u] = IF Begins(u, waiting) THEN "running"
                                       ELSE IF u = t THEN new ELSE status[u]
      /\ \A u \in Tasks : Begins(u, waiting) => (IF u = t THEN new ELSE status[u]) = "queued"
  BY DEF Operation, IInv, TypeOK, Store!TypeOK
<1>2. /\ toAll \in Seq(Message) /\ e \in Seq(Message) /\ w \in Seq(Message)
      /\ toAll \o e \in Seq(Message)
  BY NewsAre
<1>3. \A u \in Tasks : mid[u] = IF u = t THEN new ELSE status[u]
  OBVIOUS
<1> HIDE DEF mid
<1>4. Leads(CountsOf(status), toAll, CountsOf(mid))
  <2>1. CASE status[t] = "absent" /\ new \in {"todo", "queued"} /\ toAll = <<TaskCreated(t, new)>>
    <3>1. CountsOf(mid) = Counted(CountsOf(status), TaskCreated(t, new))
      BY <1>3, <2>1, CreationIsCounted
    <3>2. TaskCreated(t, new) \in Message
      BY <2>1 DEF TaskCreated, Message, CreatedMessage
    <3> QED
      BY <2>1, <3>1, <3>2, CountsAre, LeadsTo
  <2>2. CASE status[t] # "absent" /\ toAll = <<StatusChanged(t, status[t], new)>>
    <3>1. status[t] \in Shown
      BY <1>1, <2>2 DEF Shown
    <3>2. CountsOf(mid) = Counted(CountsOf(status), StatusChanged(t, status[t], new))
      BY <1>1, <1>3, <3>1, ChangeIsCounted
    <3>3. StatusChanged(t, status[t], new) \in Message
      BY <1>1, <3>1 DEF StatusChanged, Message, ChangedMessage
    <3> QED
      BY <2>2, <3>2, <3>3, CountsAre, LeadsTo
  <2>3. CASE new = status[t] /\ toAll = <<>>
    <3>1. CountsOf(mid) = CountsOf(status)
      BY <1>3, <2>3, SameCounts
    <3> QED
      BY <2>3, <3>1, CountsAre, LeadsNowhere
  <2> QED
    BY <1>1, <2>1, <2>2, <2>3 DEF Announced
<1>5. Leads(CountsOf(mid), e, CountsOf(mid))
  <2>1. events \in Seq(EventMessage)
    BY <1>1, EventsShow
  <2>2. e \in Seq(EventMessage)
    BY <2>1 DEF ToSubscribers
  <2> QED
    BY <2>2, CountsAre, EventsLeadNowhere
<1>6. Leads(CountsOf(mid), w, CountsOf(status'))
  <2>1. ToSet(waiting) \subseteq Tasks
    BY <1>1, ElementsAre
  <2>2. \A u \in ToSet(waiting) : Starts(u) => mid[u] = "queued"
    BY <1>1, <1>3, <2>1 DEF Begins
  <2>3. \A u \in Tasks : status'[u] = IF u \in ToSet(waiting) /\ Starts(u) THEN "running" ELSE mid[u]
    BY <1>1, <1>3 DEF Begins
  <2> QED
    BY <1>1, <2>2, <2>3, StartsAreCounted
<1>7. Leads(CountsOf(status), toAll \o e, CountsOf(mid))
  BY <1>2, <1>4, <1>5, LeadsOn
<1> QED
  BY <1>2, <1>6, <1>7, LeadsOn DEF News

-----------------------------------------------------------------------------
(***************************************************************************)
(* An operation keeps the invariant.                                       *)
(***************************************************************************)
LEMMA OperationKeeps ==
  ASSUME IInv, NEW t \in Tasks, NEW new, NEW toAll, NEW events, NEW waiting,
         Operation(t, new, toAll, events, waiting), P!IInv', LatestInv'
  PROVE  IInv'
<1> DEFINE news == News(toAll, events, waiting)
<1>1. /\ TypeOK /\ MessagesOK /\ (unbroken => link = "up") /\ CountsFit
      /\ \A u \in Tasks : TaskOK(u)
  BY DEF IInv
<1>2. /\ UNCHANGED <<subscriptions, link, breaks, outbox, selected, unbroken, asked,
                     activeSubscriptions, rootTasks, hidden, columnCounts, seen, stale>>
      /\ Keep(events) /\ Evented(t, new, events) /\ new \in Shown
      /\ inbox' = IF link = "down" THEN inbox
                  ELSE inbox \o toAll \o ToSubscribers(events) \o StartsFrom(waiting)
  BY DEF Operation, Broadcast, viewVars
<1>3. /\ toAll \in Seq(Message) /\ ToSubscribers(events) \in Seq(Message)
      /\ StartsFrom(waiting) \in Seq(Message) /\ toAll \o ToSubscribers(events) \in Seq(Message)
      /\ news \in Seq(Message)
  BY NewsAre
<1>4. inbox \in Seq(Message) /\ link \in {"up", "down"} /\ sent \in [Tasks -> Nat]
      /\ (link = "down" => inbox = <<>>)
  BY <1>1 DEF MessagesOK, TypeOK
<1>5. link = "up" => inbox' = inbox \o news
  <2> DEFINE e == ToSubscribers(events)
             w == StartsFrom(waiting)
             c == toAll \o e
  <2>1. /\ toAll \in Seq(Message) /\ e \in Seq(Message) /\ w \in Seq(Message)
        /\ c \in Seq(Message) /\ inbox \in Seq(Message)
    BY <1>3, <1>4
  <2>2. inbox \o c = (inbox \o toAll) \o e
    <3> HIDE DEF e, w
    <3> QED
      BY <2>1, ConcatAssociative
  <2> HIDE DEF c
  <2>3. inbox \o (c \o w) = (inbox \o c) \o w
    <3> HIDE DEF e, w
    <3> QED
      BY <2>1, ConcatAssociative
  <2>4. news = c \o w
    BY DEF News, c
  <2> QED
    BY <1>2, <2>2, <2>3, <2>4
<1>6. inbox' \in Seq(Message) /\ (link = "down" => inbox' = <<>>)
  BY <1>2, <1>3, <1>4, <1>5, ConcatSplits
<1> HIDE DEF news
<1>7. TypeOK'
  <2>1. Store!TypeOK'
    BY DEF P!IInv, P!TypeOK, Store!TypeOK, P!Status, Store!Status, P!RunState, Store!RunState,
       P!Live, Store!Live
  <2>2. buffers' \in [Tasks -> Ring] /\ sent' \in [Tasks -> Nat]
    BY DEF LatestInv, RingsOK, RingOf, Ring, Held, EventMessage
  <2>3. ASSUME NEW u \in Tasks PROVE sent'[u] <= MaxSent[u]
    <3>1. sent[u] <= MaxSent[u] /\ sent[u] \in Nat /\ MaxSent[u] \in Nat /\ sent[t] \in Nat
      BY <1>1, BoardSyncAssumption DEF TypeOK
    <3>2. IF u = t /\ events # <<>>
          THEN buffers'[u] = Push(buffers[u], events[1]) /\ sent'[u] = sent[u] + 1
          ELSE buffers'[u] = buffers[u] /\ sent'[u] = sent[u]
      BY KeepIs
    <3>3. events # <<>> => DOMAIN events = {1} /\ events[1].task = t
      BY <1>2, <3>1, EventsShow
    <3>4. events # <<>> => sent[t] < MaxSent[t]
      BY <1>2, <3>3 DEF Keep
    <3> QED
      BY <3>1, <3>2, <3>4
  <2> QED
    BY <1>1, <1>2, <1>6, <2>1, <2>2, <2>3 DEF TypeOK, Ring, EventMessage, EventType, Shown
<1>6a. /\ answers \subseteq answers'
       /\ \A a \in answers' \ answers :
            /\ a \in AnswerMessage /\ a.kind # "all"
            /\ \A u \in DOMAIN a.tasks : status'[u] # "absent" /\ AnswerFits(a, u)'
  BY <1>5, <1>6, ReplyFits DEF news
<1>8. MessagesOK'
  <2>1. answers' \in SUBSET AnswerMessage
    BY <1>1, <1>6a DEF MessagesOK
  <2> QED
    BY <1>1, <1>2, <1>6, <2>1 DEF MessagesOK, Message, CreatedMessage, ChangedMessage,
       SnapshotMessage, EventMessage, Request, AnswerMessage, Lists
<1>9. ASSUME NEW u \in Tasks PROVE TaskOK(u)'
  <2>1. TaskOK(u) /\ NewsFor(u, news)
    BY <1>1, NewsFit DEF news
  <2>2. NoEventsYet(u)' /\ RingFits(u)'
    BY RingsGrow
  <2>3. SeenFits(u)'
    BY EventsAreSeen
  <2>4. SubscriptionFits(u)'
    BY <1>2, <2>1 DEF TaskOK, SubscriptionFits, Asking, Wanted, Request
  <2>5. CASE link = "up"
    <3>1. InboxFits(u)'
      BY <1>3, <1>4, <1>5, <2>1, <2>5, InboxGrows DEF TaskOK
    <3>2. CardFits(u)'
      BY <1>2, <1>3, <1>4, <1>5, <1>6a, <2>1, <2>5, CardsWait DEF TaskOK
    <3> QED
      BY <2>2, <2>3, <2>4, <3>1, <3>2 DEF TaskOK
  <2>6. CASE link = "down"
    <3>1. InboxFits(u)'
      <4>1. DOMAIN inbox' = {}
        BY <1>6, <2>6
      <4> QED
        BY <4>1 DEF InboxFits, Quiet, Ends
    <3>2. CardFits(u)'
      <4>1. rootTasks[u] # <<>> => status'[u] # "absent"
        BY <2>1 DEF TaskOK, CardFits, NewsFor
      <4>2. ASSUME NEW a \in answers, u \in DOMAIN a.tasks
            PROVE  status'[u] # "absent" /\ AnswerFits(a, u)'
        <5>1. status'[u] # "absent" /\ AnswerFits(a, u)
          BY <2>1, <4>2 DEF TaskOK, CardFits, NewsFor
        <5>2. Quiet(inbox', Creating(u)')
          BY <1>6, <2>6 DEF Quiet
        <5>3. a.kind = "deleted" => a.tasks[u] = "cancelled" /\ Fits("cancelled", u)'
          BY <2>1, <5>1 DEF AnswerFits, NewsFor, Fits, FitsThen
        <5> QED
          BY <5>1, <5>2, <5>3 DEF AnswerFits
      <4>3. ~ ListTaken'
        BY <1>1, <1>2, <2>6 DEF ListTaken
      <4> QED
        BY <1>2, <1>6a, <4>1, <4>2, <4>3 DEF CardFits
    <3> QED
      BY <2>2, <2>3, <2>4, <3>1, <3>2 DEF TaskOK
  <2> QED
    BY <1>4, <2>5, <2>6
<1>10. CountsFit'
  <2> SUFFICES ASSUME selected', link' = "up", Quiet(outbox, {SubscribeProject})
               PROVE  Leads(columnCounts', inbox', CountsOf(status'))
    BY <1>2 DEF CountsFit, SubscribeProject, Leads, CountsOf, Counted, Moved, Shown
  <2>1. Leads(columnCounts, inbox, CountsOf(status))
    BY <1>1, <1>2 DEF CountsFit
  <2>2. Leads(CountsOf(status), news, CountsOf(status'))
    BY NewsAreCounted DEF news
  <2> QED
    BY <1>2, <1>3, <1>4, <1>5, <2>1, <2>2, LeadsOn
<1> QED
  BY <1>1, <1>2, <1>7, <1>8, <1>9, <1>10 DEF IInv

-----------------------------------------------------------------------------
(***************************************************************************)
(* The operations of the backend.  The instances of TaskLifecycle are      *)
(* about the same tasks.                                                   *)
(***************************************************************************)
LEMMA SameOperators ==
  ASSUME NEW S
  PROVE  /\ Store!IsFiniteSet(S) = IsFiniteSet(S) /\ P!IsFiniteSet(S) = IsFiniteSet(S)
         /\ Store!Cardinality(S) = Cardinality(S) /\ P!Cardinality(S) = Cardinality(S)
BY DEF Store!IsFiniteSet, P!IsFiniteSet, IsFiniteSet, Store!Cardinality, P!Cardinality, Cardinality

LEMMA SameTasks == P!TasksAssumption
BY BoardSyncAssumption, SameOperators DEF P!TasksAssumption

LEMMA StoreSteps ==
  ASSUME P!IInv, NEW t \in Tasks,
         \/ Store!CreateTodoTask(t) \/ Store!CreateTask(t) \/ Store!ExecuteTask(t)
         \/ Store!ApproveTask(t) \/ Store!RejectTask(t) \/ Store!CancelTask(t)
         \/ Store!AskApproval(t) \/ Store!RunSucceeds(t) \/ Store!RunUnsuccessful(t)
         \/ Store!RunFails(t) \/ Store!StartRejected(t)
  PROVE  P!IInv'
<1>1. \A q, held, st, rn : Store!Drain(q, held, st, rn) = P!Drain(q, held, st, rn)
  BY DEF Store!Drain, P!Drain, Store!Started, P!Started, Store!Least, P!Least,
     Store!Cardinality, P!Cardinality
<1> USE DEF Store!Live, P!Live, Store!Enqueue, P!Enqueue, Store!Finish, P!Finish
<1>2. Store!CreateTodoTask(t) => P!CreateTodoTask(t)
  BY DEF Store!CreateTodoTask, P!CreateTodoTask
<1>3. Store!CreateTask(t) => P!CreateTask(t)
  BY <1>1 DEF Store!CreateTask, P!CreateTask
<1>4. Store!ExecuteTask(t) => P!ExecuteTask(t)
  BY <1>1 DEF Store!ExecuteTask, P!ExecuteTask
<1>5. Store!ApproveTask(t) => P!ApproveTask(t)
  BY DEF Store!ApproveTask, P!ApproveTask
<1>6. Store!RejectTask(t) => P!RejectTask(t)
  BY DEF Store!RejectTask, P!RejectTask
<1>7. Store!CancelTask(t) => P!CancelTask(t)
  <2>1. Store!Dequeued(queue, t) = P!Dequeued(queue, t)
    BY DEF Store!Dequeued, P!Dequeued
  <2> QED
    BY <1>1, <2>1 DEF Store!CancelTask, P!CancelTask
<1>8. Store!AskApproval(t) => P!AskApproval(t)
  BY DEF Store!AskApproval, P!AskApproval
<1>9. Store!RunSucceeds(t) => P!RunSucceeds(t)
  BY <1>1 DEF Store!RunSucceeds, P!RunSucceeds
<1>10. Store!RunUnsuccessful(t) => P!RunUnsuccessful(t)
  BY <1>1 DEF Store!RunUnsuccessful, P!RunUnsuccessful
<1>11. Store!RunFails(t) => P!RunFails(t)
  BY <1>1 DEF Store!RunFails, P!RunFails
<1>12. Store!StartRejected(t) => P!StartRejected(t)
  BY <1>1 DEF Store!StartRejected, P!StartRejected
<1>13. P!Next
  BY <1>2, <1>3, <1>4, <1>5, <1>6, <1>7, <1>8, <1>9, <1>10, <1>11, <1>12 DEF P!Next
<1> QED
  BY <1>13, SameTasks, P!NextIInv

LEMMA QueueIs ==
  ASSUME IInv
  PROVE  /\ queue \in Seq(Tasks) /\ IsInjective(queue) /\ running \in SUBSET Tasks
         /\ ToSet(queue) = {u \in Tasks : status[u] = "queued"}
         /\ \A u \in Tasks : status[u] \in {"absent", "todo", "queued"} => run[u] = "none"
         /\ status \in [Tasks -> Store!Status] /\ run \in [Tasks -> Store!RunState]
<1>1. /\ queue \in Seq(Tasks) /\ running \in SUBSET Tasks
      /\ status \in [Tasks -> Store!Status] /\ run \in [Tasks -> Store!RunState]
  BY DEF IInv, TypeOK, Store!TypeOK
<1>2. P!QueueMatchesStatus /\ P!StatusMatchesRun
  BY DEF IInv, P!IInv
<1> QED
  BY <1>1, <1>2, ElementsAre DEF P!QueueMatchesStatus, P!Queued, P!StatusMatchesRun

\* Those that are taken from the queue q are those whose run begins.
LEMMA DrainTells ==
  ASSUME IInv, NEW q \in Seq(Tasks), NEW held \in SUBSET Tasks, NEW mid, NEW rn,
         NEW waiting \in Seq(Tasks), Store!Drain(q, held, mid, rn),
         ToSet(q) \subseteq ToSet(waiting), \A u \in ToSet(q) : run[u] = "none",
         \A u \in Tasks : rn[u] = "none" \/ run[u] # "none"
  PROVE  \A u \in Tasks :
           /\ status'[u] = IF Begins(u, waiting) THEN "running" ELSE mid[u]
           /\ Begins(u, waiting) => u \in ToSet(q)
<1> DEFINE S == Store!Started(q, held)
<1>1. S \subseteq ToSet(q)
  <2>1. Cardinality(held) \in Nat /\ MaxConcurrent \in Nat /\ Len(q) \in Nat
    BY BoardSyncAssumption, FS_Subset, FS_CardinalityType, ElementsAre
  <2>2. Store!Least(Len(q), MaxConcurrent - Cardinality(held)) <= Len(q)
    BY <2>1 DEF Store!Least
  <2>3. S = {q[i] : i \in 1 .. Store!Least(Len(q), MaxConcurrent - Cardinality(held))}
    BY SameOperators DEF Store!Started
  <2>4. 1 .. Store!Least(Len(q), MaxConcurrent - Cardinality(held)) \subseteq 1 .. Len(q)
    BY <2>1, <2>2 DEF Store!Least
  <2> QED
    BY <2>3, <2>4, ElementsAre
<1>2. /\ status' = [u \in Tasks |-> IF u \in S THEN "running" ELSE mid[u]]
      /\ run' = [u \in Tasks |-> CASE u \in S \cap Misconfigured -> "failing"
                                   [] u \in S \ Misconfigured -> "active"
                                   [] OTHER -> rn[u]]
  BY DEF Store!Drain
<1> HIDE DEF S
<1>3. ASSUME NEW u \in Tasks PROVE Begins(u, waiting) <=> u \in S
  <2>1. CASE u \in S
    <3>1. run'[u] # "none"
      BY <1>2, <2>1
    <3> QED
      BY <1>1, <2>1, <3>1 DEF Begins, Starts
  <2>2. CASE u \notin S
    <3>1. run'[u] = rn[u]
      BY <1>2, <2>2
    <3> QED
      BY <2>2, <3>1 DEF Begins, Starts
  <2> QED
    BY <2>1, <2>2
<1> QED
  BY <1>1, <1>2, <1>3

\* An operation that starts nothing.
LEMMA NothingBegins ==
  ASSUME NEW u \in Tasks
  PROVE  ~ Begins(u, <<>>) /\ <<>> \in Seq(Tasks) /\ IsInjective(<<>>)
BY EmptyIs DEF Begins

LEMMA QuietOperation ==
  ASSUME IInv, NEW t \in Tasks, NEW new \in Shown, NEW toAll, NEW events,
         status' = [status EXCEPT ![t] = new], shutdown' = shutdown,
         status[t] = "cancelled" => new = "cancelled" \/ t \in shutdown,
         Announced(t, new, toAll), Evented(t, new, events), Broadcast(toAll, events, <<>>),
         Replying(t, new)
  PROVE  Operation(t, new, toAll, events, <<>>)
<1>1. \A u \in Tasks : status'[u] = IF u = t THEN new ELSE status[u]
  BY QueueIs
<1> QED
  BY <1>1, NothingBegins DEF Operation

\* A cancelled task has no run that was not shut down.
LEMMA CancelledIsShutDown ==
  ASSUME IInv, NEW t \in Tasks, run[t] \in {"asking", "active"}, status[t] = "cancelled"
  PROVE  t \in shutdown
BY DEF IInv, P!IInv, P!StatusMatchesRun

LEMMA QuietOperationsKeep ==
  ASSUME IInv, LatestInv', NEW t \in Tasks,
         \/ CreateTodoTask(t) \/ ApproveTask(t) \/ RejectTask(t) \/ AskApproval(t)
  PROVE  IInv'
<1>1. /\ status \in [Tasks -> Store!Status] /\ run \in [Tasks -> Store!RunState]
      /\ \A u \in Tasks : status[u] \in {"absent", "todo", "queued"} => run[u] = "none"
      /\ {"todo", "running", "cancelled", "awaiting_approval"} \subseteq Shown
  BY QueueIs DEF Shown, Store!Status
<1>2. P!IInv'
  BY StoreSteps DEF IInv, CreateTodoTask, ApproveTask, RejectTask, AskApproval
<1>3. CASE CreateTodoTask(t)
  <2>1. /\ status[t] = "absent" /\ status' = [status EXCEPT ![t] = "todo"] /\ shutdown' = shutdown
        /\ Broadcast(<<TaskCreated(t, "todo")>>, <<>>, <<>>) /\ Replying(t, "todo")
    BY <1>1, <1>3 DEF CreateTodoTask, Store!CreateTodoTask, Replying, ReplyKind, Answer
  <2>2. Announced(t, "todo", <<TaskCreated(t, "todo")>>) /\ Evented(t, "todo", <<>>)
    BY <2>1 DEF Announced, Evented
  <2> QED
    BY <1>1, <1>2, <2>1, <2>2, QuietOperation, OperationKeeps
<1>4. CASE ApproveTask(t)
  <2> DEFINE toAll == <<StatusChanged(t, status[t], "running")>>
             events == <<Event(t, "approved")>>
  <2>1. /\ run[t] = "asking" /\ status' = [status EXCEPT ![t] = "running"] /\ shutdown' = shutdown
        /\ run'[t] = "active" /\ Broadcast(toAll, events, <<>>) /\ Replying(t, "running")
        /\ (status[t] = "cancelled" => t \in shutdown)
    BY <1>1, <1>4, CancelledIsShutDown DEF ApproveTask, Store!ApproveTask, Replying
  <2>2. Announced(t, "running", toAll) /\ Evented(t, "running", events)
    BY <1>1, <2>1 DEF Announced, Evented, EventType, StatusOf
  <2> HIDE DEF toAll, events
  <2> QED
    BY <1>1, <1>2, <2>1, <2>2, QuietOperation, OperationKeeps
<1>5. CASE RejectTask(t)
  <2> DEFINE toAll == <<StatusChanged(t, status[t], "cancelled")>>
             events == <<Event(t, "rejected")>>
  <2>1. /\ run[t] = "asking" /\ status' = [status EXCEPT ![t] = "cancelled"] /\ shutdown' = shutdown
        /\ run'[t] = "refused" /\ Broadcast(toAll, events, <<>>) /\ Replying(t, "cancelled")
    BY <1>1, <1>5 DEF RejectTask, Store!RejectTask, Replying
  <2>2. Announced(t, "cancelled", toAll) /\ Evented(t, "cancelled", events)
    BY <1>1, <2>1 DEF Announced, Evented, EventType, StatusOf
  <2> HIDE DEF toAll, events
  <2> QED
    BY <1>1, <1>2, <2>1, <2>2, QuietOperation, OperationKeeps
<1>6. CASE AskApproval(t)
  <2> DEFINE toAll == <<StatusChanged(t, status[t], "awaiting_approval")>>
             events == <<Event(t, "approval_required")>>
  <2>1. /\ run[t] = "active" /\ status' = [status EXCEPT ![t] = "awaiting_approval"]
        /\ shutdown' = shutdown
        /\ run'[t] = "asking" /\ Broadcast(toAll, events, <<>>) /\ Replying(t, "awaiting_approval")
        /\ (status[t] = "cancelled" => t \in shutdown)
    BY <1>1, <1>6, CancelledIsShutDown DEF AskApproval, Store!AskApproval, Replying
  <2>2. Announced(t, "awaiting_approval", toAll) /\ Evented(t, "awaiting_approval", events)
    BY <1>1, <2>1 DEF Announced, Evented, EventType, StatusOf
  <2> HIDE DEF toAll, events
  <2> QED
    BY <1>1, <1>2, <2>1, <2>2, QuietOperation, OperationKeeps
<1> QED
  BY <1>3, <1>4, <1>5, <1>6

LEMMA ProgressKeeps ==
  ASSUME IInv, LatestInv', NEW t \in Tasks, Progress(t)
  PROVE  IInv'
<1>1. /\ run[t] = "active" /\ Broadcast(<<>>, <<Event(t, "progress")>>, <<>>)
      /\ UNCHANGED <<status, queue, running, run, shutdown>> /\ Replying(t, status[t])
  BY DEF Progress, storeVars, Replying
<1>2. P!IInv'
  <2>1. P!IInv /\ UNCHANGED P!vars
    BY <1>1 DEF IInv, P!vars
  <2> QED
    BY <2>1, SameTasks, P!NextIInv
<1>3. /\ status \in [Tasks -> Store!Status] /\ status[t] \notin {"absent", "todo", "queued"}
      /\ status' = [status EXCEPT ![t] = status[t]] /\ status[t] \in Shown
  BY <1>1, QueueIs DEF Shown
<1>4. Announced(t, status[t], <<>>) /\ Evented(t, status[t], <<Event(t, "progress")>>)
  BY <1>1, <1>3 DEF Announced, Evented, EventType
<1> QED
  BY <1>1, <1>2, <1>3, <1>4, QuietOperation, OperationKeeps

\* A task joins the queue, an old one or a new one.
LEMMA EnqueueKeeps ==
  ASSUME IInv, LatestInv', NEW t \in Tasks, CreateTask(t) \/ RetryTask(t) \/ ExecuteTask(t)
  PROVE  IInv'
<1> DEFINE q == Append(queue, t)
           mid == [status EXCEPT ![t] = "queued"]
           toAll == IF status[t] = "absent" THEN <<TaskCreated(t, "queued")>>
                    ELSE <<StatusChanged(t, "todo", "queued")>>
<1>0. Store!CreateTask(t) \/ Store!ExecuteTask(t)
  BY DEF CreateTask, RetryTask, ExecuteTask, Store!RetryTask
<1>1. /\ status[t] \in {"absent", "todo"}
      /\ Store!Drain(q, running, mid, run) /\ shutdown' = shutdown
      /\ Broadcast(toAll, <<>>, q)
  BY DEF CreateTask, RetryTask, ExecuteTask, Store!RetryTask, Store!CreateTask, Store!ExecuteTask,
     Store!Enqueue
<1>2. P!IInv'
  BY <1>0, StoreSteps DEF IInv
<1>3. /\ q \in Seq(Tasks) /\ IsInjective(q) /\ ToSet(q) = ToSet(queue) \cup {t}
  <2>1. t \notin ToSet(queue)
    BY <1>1, QueueIs
  <2> QED
    BY <2>1, QueueIs, AppendIs
<1>4. \A u \in Tasks : mid[u] = IF u = t THEN "queued" ELSE status[u]
  BY QueueIs
<1>5. Announced(t, "queued", toAll) /\ Evented(t, "queued", <<>>)
      /\ {"queued", "running"} \subseteq Shown
  BY <1>1 DEF Announced, Evented, Shown, Store!Status
<1> HIDE DEF q, mid, toAll
<1>6. \A u \in ToSet(q) : run[u] = "none" /\ mid[u] = "queued"
  BY <1>1, <1>3, <1>4, QueueIs
<1>7. \A u \in Tasks :
        /\ status'[u] = IF Begins(u, q) THEN "running" ELSE mid[u]
        /\ Begins(u, q) => u \in ToSet(q)
  <2>1. \A u \in Tasks : run[u] = "none" \/ run[u] # "none"
    OBVIOUS
  <2> QED
    BY <1>1, <1>3, <1>6, <2>1, QueueIs, DrainTells
<1>8. Replying(t, "queued")
  <2>1. status'[t] \in Shown
    BY <1>4, <1>5, <1>7
  <2>2. CASE CreateTask(t)
    BY <2>1, <2>2 DEF CreateTask, Replying, ReplyKind, Answer
  <2>3. CASE RetryTask(t)
    BY <1>5, <2>3 DEF RetryTask, Replying, ReplyKind, Answer
  <2>4. CASE ExecuteTask(t)
    BY <2>4 DEF ExecuteTask, Replying
  <2> QED
    BY <2>2, <2>3, <2>4
<1>9. Operation(t, "queued", toAll, <<>>, q)
  BY <1>1, <1>3, <1>4, <1>5, <1>6, <1>7, <1>8 DEF Operation
<1> QED
  BY <1>2, <1>9, OperationKeeps

\* A run ends, or did not start, and the queue moves up.
LEMMA FinishTells ==
  ASSUME IInv, NEW t \in Tasks, NEW new \in Shown, NEW r, Store!Finish(t, new, r),
         run[t] # "none", shutdown' = shutdown, NEW toAll, NEW events,
         status[t] = "cancelled" => new = "cancelled" \/ t \in shutdown, UNCHANGED answers,
         Announced(t, new, toAll), Evented(t, new, events), Broadcast(toAll, events, queue)
  PROVE  Operation(t, new, toAll, events, queue)
<1> DEFINE mid == [status EXCEPT ![t] = new]
           rn == [run EXCEPT ![t] = r]
<1>1. Store!Drain(queue, running \ {t}, mid, rn)
  BY DEF Store!Finish
<1>2. /\ \A u \in Tasks : mid[u] = IF u = t THEN new ELSE status[u]
      /\ \A u \in Tasks : rn[u] = "none" \/ run[u] # "none"
  BY QueueIs
<1> HIDE DEF mid, rn
<1>3. \A u \in ToSet(queue) : run[u] = "none" /\ u # t /\ status[u] = "queued"
  BY QueueIs
<1>4. \A u \in Tasks :
        /\ status'[u] = IF Begins(u, queue) THEN "running" ELSE mid[u]
        /\ Begins(u, queue) => u \in ToSet(queue)
  <2>1. running \ {t} \in SUBSET Tasks /\ queue \in Seq(Tasks)
    BY QueueIs
  <2> QED
    BY <1>1, <1>2, <1>3, <2>1, DrainTells
<1> QED
  BY <1>2, <1>3, <1>4, QueueIs DEF Operation, Replying

LEMMA EndsKeep ==
  ASSUME IInv, LatestInv', NEW t \in Tasks,
         RunSucceeds(t) \/ RunUnsuccessful(t) \/ RunFails(t) \/ StartRejected(t)
  PROVE  IInv'
<1>1. /\ status \in [Tasks -> Store!Status] /\ run \in [Tasks -> Store!RunState]
      /\ \A u \in Tasks : status[u] \in {"absent", "todo", "queued"} => run[u] = "none"
      /\ {"completed", "failed", "cancelled"} \subseteq Shown /\ "absent" \notin Shown
  BY QueueIs DEF Shown, Store!Status
<1>2. P!IInv'
  BY StoreSteps DEF IInv, RunSucceeds, RunUnsuccessful, RunFails, StartRejected
<1>3. ASSUME NEW s, Store!Finish(t, s, "ended"), run[t] # "none"
      PROVE  run'[t] = "ended" /\ status'[t] = s
  <2>1. /\ run' = [u \in Tasks |->
                     CASE u \in Store!Started(queue, running \ {t}) \cap Misconfigured -> "failing"
                       [] u \in Store!Started(queue, running \ {t}) \ Misconfigured -> "active"
                       [] OTHER -> [run EXCEPT ![t] = "ended"][u]]
    BY <1>3 DEF Store!Finish, Store!Drain
  <2>2. t \notin Store!Started(queue, running \ {t})
    <3>1. \A i \in 1 .. Len(queue) : queue[i] # t
      BY <1>1, <1>3, QueueIs, ElementsAre
    <3>2. /\ Cardinality(running \ {t}) \in Nat /\ MaxConcurrent \in Nat /\ Len(queue) \in Nat
      BY QueueIs, BoardSyncAssumption, FS_Subset, FS_CardinalityType, ElementsAre
    <3>3. 1 .. Store!Least(Len(queue), MaxConcurrent - Cardinality(running \ {t})) \subseteq 1 .. Len(queue)
      BY <3>2 DEF Store!Least
    <3> QED
      BY <3>1, <3>3, SameOperators DEF Store!Started
  <2>3. status' = [u \in Tasks |-> IF u \in Store!Started(queue, running \ {t}) THEN "running"
                                   ELSE [status EXCEPT ![t] = s][u]]
    BY <1>3 DEF Store!Finish, Store!Drain
  <2> QED
    BY <1>1, <2>1, <2>2, <2>3
<1>4. CASE RunSucceeds(t)
  <2> DEFINE toAll == <<StatusChanged(t, status[t], "completed")>>
             events == <<Event(t, "task_complete")>>
  <2>1. /\ run[t] = "active" /\ Store!Finish(t, "completed", "ended") /\ shutdown' = shutdown
        /\ Broadcast(toAll, events, queue) /\ UNCHANGED answers
        /\ (status[t] = "cancelled" => t \in shutdown)
    BY <1>4, CancelledIsShutDown DEF RunSucceeds, Store!RunSucceeds
  <2>2. Announced(t, "completed", toAll) /\ Evented(t, "completed", events)
    BY <1>1, <1>3, <2>1 DEF Announced, Evented, EventType, StatusOf
  <2> HIDE DEF toAll, events
  <2> QED
    BY <1>1, <1>2, <2>1, <2>2, FinishTells, OperationKeeps
<1>5. CASE RunUnsuccessful(t)
  <2> DEFINE new == IF status[t] \in {"failed", "cancelled"} THEN status[t] ELSE "failed"
             toAll == IF status'[t] = status[t] THEN <<>>
                      ELSE <<StatusChanged(t, status[t], "failed")>>
             events == <<Event(t, "task_error")>>
  <2>1. /\ run[t] \in {"active", "refused"} /\ Store!Finish(t, new, "ended")
        /\ shutdown' = shutdown /\ Broadcast(toAll, events, queue) /\ UNCHANGED answers
    BY <1>5 DEF RunUnsuccessful, Store!RunUnsuccessful
  <2>2. status'[t] = new
    BY <1>3, <2>1
  <2>3. Announced(t, new, toAll) /\ Evented(t, new, events)
    BY <1>1, <1>3, <2>1, <2>2 DEF Announced, Evented, EventType, StatusOf
  <2>4. new \in Shown /\ (status[t] = "cancelled" => new = "cancelled")
    BY <1>1
  <2> HIDE DEF new, toAll, events
  <2> QED
    BY <1>1, <1>2, <2>1, <2>3, <2>4, FinishTells, OperationKeeps
<1>6. CASE RunFails(t)
  <2> DEFINE toAll == <<StatusChanged(t, status[t], "failed")>>
             events == <<Event(t, "task_error")>>
  <2>1. /\ run[t] = "active" /\ Store!Finish(t, "failed", "ended") /\ shutdown' = shutdown
        /\ Broadcast(toAll, events, queue) /\ UNCHANGED answers
        /\ (status[t] = "cancelled" => t \in shutdown)
    BY <1>6, CancelledIsShutDown DEF RunFails, Store!RunFails
  <2>2. Announced(t, "failed", toAll) /\ Evented(t, "failed", events)
    BY <1>1, <1>3, <2>1 DEF Announced, Evented, EventType, StatusOf
  <2> HIDE DEF toAll, events
  <2> QED
    BY <1>1, <1>2, <2>1, <2>2, FinishTells, OperationKeeps
<1>7. CASE StartRejected(t)
  <2>1. /\ run[t] = "failing" /\ Store!Finish(t, status[t], "none") /\ shutdown' = shutdown
        /\ Broadcast(<<>>, <<>>, queue) /\ UNCHANGED answers
    BY <1>7 DEF StartRejected, Store!StartRejected
  <2>2. Announced(t, status[t], <<>>) /\ Evented(t, status[t], <<>>) /\ status[t] \in Shown
    BY <1>1, <2>1 DEF Announced, Evented, Shown
  <2> QED
    BY <1>1, <1>2, <2>1, <2>2, FinishTells, OperationKeeps
<1> QED
  BY <1>4, <1>5, <1>6, <1>7

LEMMA CancelKeeps ==
  ASSUME IInv, LatestInv', NEW t \in Tasks, CancelTask(t)
  PROVE  IInv'
<1> DEFINE q == IF status[t] = "queued" THEN Store!Dequeued(queue, t) ELSE queue
           mid == [status EXCEPT ![t] = "cancelled"]
           toAll == <<StatusChanged(t, status[t], "cancelled")>>
<1>1. /\ status[t] # "absent" /\ Store!Drain(q, running \ {t}, mid, run)
      /\ shutdown' = IF run[t] \in Store!Live \cup {"ended"} THEN shutdown \cup {t} ELSE shutdown
      /\ Broadcast(toAll, <<>>, queue)
  BY DEF CancelTask, Store!CancelTask
<1>2. P!IInv'
  BY StoreSteps DEF IInv, CancelTask
<1>3. q \in Seq(Tasks) /\ ToSet(q) = ToSet(queue) \ {t}
  <2>1. CASE status[t] = "queued"
    <3> DEFINE d == Store!Dequeued(queue, t)
    <3>1. d = P!Dequeued(queue, t)
      BY DEF Store!Dequeued, P!Dequeued
    <3>2. P!NoDup(queue) /\ P!Elems(queue) = ToSet(queue) /\ t \in P!Elems(queue)
      BY <2>1, QueueIs, ElementsAre DEF P!NoDup, P!Elems
    <3>3. d \in Seq(Tasks) /\ P!Elems(d) = P!Elems(queue) \ {t}
      BY <3>1, <3>2, QueueIs, SameTasks, P!DequeuedIs
    <3> HIDE DEF d
    <3>4. d \in Seq(Tasks) /\ ToSet(d) = ToSet(queue) \ {t}
      BY <3>2, <3>3, ElementsAre DEF P!Elems
    <3> QED
      BY <2>1, <3>4 DEF d
  <2>2. CASE status[t] # "queued"
    BY <2>2, QueueIs
  <2> QED
    BY <2>1, <2>2
<1>4. \A u \in Tasks : mid[u] = IF u = t THEN "cancelled" ELSE status[u]
  BY QueueIs
<1>5. Announced(t, "cancelled", toAll) /\ Evented(t, "cancelled", <<>>) /\ "cancelled" \in Shown
      /\ shutdown \subseteq shutdown' /\ Replying(t, "cancelled")
  BY <1>1 DEF Announced, Evented, Shown, Store!Status, CancelTask, Replying, ReplyKind, Answer
<1> HIDE DEF q, mid, toAll
<1>6. \A u \in ToSet(q) : run[u] = "none" /\ status[u] = "queued" /\ u # t
  BY <1>3, QueueIs
<1>7. \A u \in Tasks :
        /\ status'[u] = IF Begins(u, queue) THEN "running" ELSE mid[u]
        /\ Begins(u, queue) => u \in ToSet(q)
  <2>1. /\ running \ {t} \in SUBSET Tasks /\ queue \in Seq(Tasks) /\ ToSet(q) \subseteq ToSet(queue)
        /\ \A u \in Tasks : run[u] = "none" \/ run[u] # "none"
    BY <1>3, QueueIs
  <2> QED
    BY <1>1, <1>3, <1>6, <2>1, DrainTells
<1>8. Operation(t, "cancelled", toAll, <<>>, queue)
  BY <1>1, <1>4, <1>5, <1>6, <1>7, QueueIs DEF Operation
<1> QED
  BY <1>2, <1>8, OperationKeeps

-----------------------------------------------------------------------------
(***************************************************************************)
(* The messages that are replayed to a new subscriber: of each of its      *)
(* tasks the ring, and of no other task anything.                          *)
(***************************************************************************)
\* What may be replayed about u, among the rings of the tasks in S.
ReplayOf(u, s, S) ==
  /\ s \in Seq(EventMessage)
  /\ u \notin S => Quiet(s, Mentioning(u)) /\ Quiet(s, Telling(u))
  /\ Quiet(s, Creating(u))
  /\ ~ Quiet(s, Mentioning(u)) => sent[u] # 0
  /\ Ends(s, Showing(u), Fitting(u)) /\ Ends(s, Telling(u), Latest(u))
  /\ \A i \in DOMAIN s : s[i] \in Telling(u) => s[i].n \in 1 .. sent[u]
  /\ u \in S /\ Quiet(s, Telling(u)) => sent[u] = 0

\* The ring of t, as seen from u.
LEMMA RingIsReplayed ==
  ASSUME IInv, NEW t \in Tasks, NEW u \in Tasks
  PROVE  ReplayOf(u, GetAll(buffers[t]), {t})
<1> DEFINE s == GetAll(buffers[t])
           ring == buffers[t]
<1>1. /\ ring \in RingOf(Held) /\ HoldsLatest(ring, t, sent[t]) /\ sent[t] \in Nat
      /\ s \in Seq(EventMessage) /\ (sent[t] = 0 => s = <<>>)
  BY RingsAreRings DEF IInv, LatestInv, RingsOK
<1>2. /\ DOMAIN s = 1 .. ring.count /\ \A i \in 1 .. ring.count : s[i] = At(ring, i)
  BY <1>1, GetAllOf
<1>3. ring.count \in 0 .. MaxSize /\ MaxSize \in Nat \ {0}
  BY <1>1, MaxSizeAssumption DEF RingOf
<1>4. \A i \in DOMAIN s : /\ s[i] \in EventMessage /\ s[i].task = t
                          /\ s[i].n = sent[t] - ring.count + i
  BY <1>1, <1>2 DEF HoldsLatest
<1>5. ring.count = IF sent[t] < MaxSize THEN sent[t] ELSE MaxSize
  BY <1>1 DEF HoldsLatest
<1> HIDE DEF s, ring
<1>6. Quiet(s, Creating(u))
  BY <1>4 DEF Quiet, Creating, CreatedMessage, EventMessage, EventType
<1>7. u # t => Quiet(s, Mentioning(u)) /\ Quiet(s, Telling(u))
  BY <1>4 DEF Quiet, Mentioning, Creating, Showing, Listing, Telling, CreatedMessage,
     SnapshotMessage, EventMessage, EventType
<1>8. ASSUME u = t, ~ Quiet(s, Mentioning(u)) PROVE sent[u] # 0
  <2>1. s # <<>>
    BY <1>8, NothingSaid
  <2> QED
    BY <1>1, <1>8, <2>1
<1>9. Ends(s, Showing(u), Fitting(u))
  <2>1. CASE u = t
    BY <2>1 DEF IInv, TaskOK, RingFits, s
  <2>2. CASE u # t
    <3>1. Quiet(s, Showing(u))
      BY <1>7, <2>2 DEF Quiet, Mentioning
    <3> QED
      BY <3>1, EndsQuiet
  <2> QED
    BY <2>1, <2>2
<1>10. Ends(s, Telling(u), Latest(u))
  <2>1. CASE u = t
    <3>1. \A i \in DOMAIN s : s[i] \in Telling(u)
      BY <1>4, <2>1 DEF Telling
    <3>2. ASSUME NEW i \in DOMAIN s, \A j \in DOMAIN s : j > i => s[j] \notin Telling(u)
          PROVE  s[i] \in Latest(u)
      <4>1. i = ring.count
        BY <1>2, <1>3, <3>1, <3>2
      <4> QED
        BY <1>1, <1>3, <1>4, <2>1, <4>1 DEF Latest
    <3> QED
      BY <3>2 DEF Ends
  <2>2. CASE u # t
    BY <1>7, <2>2, EndsQuiet
  <2> QED
    BY <2>1, <2>2
<1>11. ASSUME NEW i \in DOMAIN s, s[i] \in Telling(u) PROVE s[i].n \in 1 .. sent[u]
  <2>1. u = t
    BY <1>4, <1>11 DEF Telling
  <2>2. s[i].n = sent[t] - ring.count + i /\ i \in 1 .. ring.count /\ ring.count <= sent[t]
    BY <1>1, <1>2, <1>3, <1>4, <1>5
  <2> QED
    BY <1>1, <1>3, <2>1, <2>2
<1>12. ASSUME u = t, Quiet(s, Telling(u)) PROVE sent[u] = 0
  <2>1. 1 \notin DOMAIN s
    BY <1>4, <1>12 DEF Quiet, Telling
  <2>2. ring.count = 0
    BY <1>2, <1>3, <2>1
  <2> QED
    BY <1>1, <1>3, <1>5, <1>12, <2>2
<1> QED
  BY <1>1, <1>6, <1>7, <1>8, <1>9, <1>10, <1>11, <1>12 DEF ReplayOf, s

\* Two replays, one after the other, of different tasks.
LEMMA ReplaysJoin ==
  ASSUME IInv, NEW u \in Tasks, NEW s, NEW r, NEW S, NEW T,
         ReplayOf(u, s, S), ReplayOf(u, r, T)
  PROVE  ReplayOf(u, s \o r, S \cup T)
<1> DEFINE c == s \o r
<1>1. s \in Seq(EventMessage) /\ r \in Seq(EventMessage)
  BY DEF ReplayOf
<1>2. c \in Seq(EventMessage)
  BY <1>1, ConcatSplits
<1>3. \A A : Quiet(c, A) <=> Quiet(s, A) /\ Quiet(r, A)
  BY <1>1, QuietConcat
<1>4. Ends(c, Showing(u), Fitting(u)) /\ Ends(c, Telling(u), Latest(u))
  <2>1. /\ Ends(s, Showing(u), Fitting(u)) /\ Ends(s, Telling(u), Latest(u))
        /\ Ends(r, Showing(u), Fitting(u)) /\ Ends(r, Telling(u), Latest(u))
    BY DEF ReplayOf
  <2> QED
    BY <1>1, <2>1, EndsConcat
<1>5. ASSUME NEW k \in DOMAIN c, c[k] \in Telling(u) PROVE c[k].n \in 1 .. sent[u]
  <2>1. \/ k \in DOMAIN s /\ c[k] = s[k]
        \/ k - Len(s) \in DOMAIN r /\ c[k] = r[k - Len(s)]
    BY <1>1, ConcatSplits
  <2> QED
    BY <1>5, <2>1 DEF ReplayOf
<1> HIDE DEF c
<1>6. u \notin S \cup T => Quiet(c, Mentioning(u)) /\ Quiet(c, Telling(u))
  BY <1>3 DEF ReplayOf
<1>7. Quiet(c, Creating(u)) /\ (~ Quiet(c, Mentioning(u)) => sent[u] # 0)
  BY <1>3 DEF ReplayOf
<1>8. u \in S \cup T /\ Quiet(c, Telling(u)) => sent[u] = 0
  BY <1>3 DEF ReplayOf
<1> QED
  BY <1>2, <1>4, <1>5, <1>6, <1>7, <1>8 DEF ReplayOf, c

LEMMA ReplayedAre ==
  ASSUME IInv, NEW S \in SUBSET Tasks, NEW order \in SetToSeqs(S)
  PROVE  /\ Replay(order) \in Seq(EventMessage)
         /\ Len(order) \in Nat /\ (\A i \in 1 .. Len(order) : order[i] \in Tasks)
         /\ S = {order[i] : i \in 1 .. Len(order)}
         /\ \E f : /\ f \in [0 .. Len(order) -> Seq(EventMessage)] /\ f[0] = <<>>
                   /\ Replay(order) = f[Len(order)]
                   /\ \A i \in 1 .. Len(order) : f[i] = f[i - 1] \o GetAll(buffers[order[i]])
<1> DEFINE n == Len(order)
           s == [i \in DOMAIN order |-> GetAll(buffers[order[i]])]
<1>1. order \in Seq(Tasks) /\ ToSet(order) = S
  <2>1. IsFiniteSet(S)
    BY BoardSyncAssumption, FS_Subset
  <2>2. order \in Seq(S) /\ ToSet(order) = S
    BY <2>1, OrderIs
  <2> QED
    BY <2>2
<1>2. /\ n \in Nat /\ DOMAIN order = 1 .. n /\ (\A i \in 1 .. n : order[i] \in Tasks)
      /\ S = {order[i] : i \in 1 .. n}
  BY <1>1, ElementsAre, ElementOfSeq
<1>3. s \in Seq(Seq(EventMessage)) /\ Len(s) = n /\ \A i \in 1 .. n : s[i] = GetAll(buffers[order[i]])
  <2>1. \A i \in 1 .. n : GetAll(buffers[order[i]]) \in Seq(EventMessage)
    BY <1>2, RingsAreRings
  <2>2. s \in [1 .. n -> Seq(EventMessage)]
    BY <1>2, <2>1
  <2> QED
    BY <1>2, <2>2
<1>4. Replay(order) = FlattenSeq(s)
  BY DEF Replay
<1> HIDE DEF n, s
<1>5. PICK f : Flattened(f, s, EventMessage)
  BY <1>3, FlattenIs
<1>6. /\ f \in [0 .. n -> Seq(EventMessage)] /\ f[0] = <<>> /\ Replay(order) = f[n]
      /\ \A i \in 1 .. n : f[i] = f[i - 1] \o GetAll(buffers[order[i]])
  BY <1>3, <1>4, <1>5 DEF Flattened
<1>7. f[n] \in Seq(EventMessage)
  BY <1>2, <1>6
<1> QED
  BY <1>2, <1>6, <1>7 DEF n

LEMMA ReplayIs ==
  ASSUME IInv, NEW S \in SUBSET Tasks, NEW order \in SetToSeqs(S), NEW u \in Tasks
  PROVE  ReplayOf(u, Replay(order), S)
<1> DEFINE n == Len(order)
<1>2. /\ n \in Nat /\ (\A i \in 1 .. n : order[i] \in Tasks)
      /\ S = {order[i] : i \in 1 .. n}
  BY ReplayedAre
<1>6. PICK f : /\ f \in [0 .. n -> Seq(EventMessage)] /\ f[0] = <<>> /\ Replay(order) = f[n]
               /\ \A i \in 1 .. n : f[i] = f[i - 1] \o GetAll(buffers[order[i]])
  BY ReplayedAre
<1> HIDE DEF n
<1> DEFINE Until(i) == {order[j] : j \in 1 .. i}
           I == {i \in 0 .. n : ReplayOf(u, f[i], Until(i))}
<1>7. 0 \in I
  <2>1. Until(0) = {} /\ 0 \in 0 .. n /\ DOMAIN <<>> = {}
    BY <1>2
  <2>2. ReplayOf(u, <<>>, {})
    BY <2>1, NothingSaid, EmptyIs DEF ReplayOf
  <2> QED
    BY <1>6, <2>1, <2>2
<1>8. ASSUME NEW i \in 1 .. n, i - 1 \in I PROVE i \in I
  <2>0. i \in 0 .. n /\ i - 1 \in 0 .. n
    BY <1>2
  <2>1. ReplayOf(u, f[i - 1], Until(i - 1))
    <3> HIDE DEF Until
    <3> QED
      BY <1>8
  <2>2. ReplayOf(u, GetAll(buffers[order[i]]), {order[i]})
    BY <1>2, RingIsReplayed
  <2>3. Until(i) = Until(i - 1) \cup {order[i]}
    <3>1. 1 .. i = 1 .. i - 1 \cup {i}
      BY <1>2
    <3> QED
      BY <3>1
  <2>4. f[i] = f[i - 1] \o GetAll(buffers[order[i]])
    BY <1>6
  <2> HIDE DEF Until
  <2>5. ReplayOf(u, f[i], Until(i))
    BY <2>1, <2>2, <2>3, <2>4, ReplaysJoin
  <2> QED
    BY <2>0, <2>5
<1>9. n \in I
  <2> HIDE DEF I
  <2>1. 0 .. n \subseteq I
    BY <1>2, <1>7, <1>8, UpTo
  <2> QED
    BY <1>2, <2>1
<1>10. Until(n) = S
  BY <1>2
<1> HIDE DEF Until
<1>11. ReplayOf(u, f[n], Until(n))
  BY <1>9
<1> QED
  BY <1>6, <1>10, <1>11

-----------------------------------------------------------------------------
(***************************************************************************)
(* The steps that are not the backend's: tasks and rings stay.             *)
(***************************************************************************)
LEMMA BackendStays ==
  ASSUME IInv, UNCHANGED <<storeVars, buffers, sent>>
  PROVE  /\ P!IInv' /\ LatestInv' /\ Store!TypeOK'
         /\ buffers' \in [Tasks -> Ring] /\ sent' \in [Tasks -> Nat]
         /\ \A u \in Tasks : NoEventsYet(u)' /\ RingFits(u)' /\ sent'[u] <= MaxSent[u]
         /\ \A t \in Tasks : /\ Mentioning(t)' = Mentioning(t) /\ Creating(t)' = Creating(t)
                             /\ Showing(t)' = Showing(t) /\ Telling(t)' = Telling(t)
                             /\ Fitting(t)' = Fitting(t) /\ Latest(t)' = Latest(t)
<1>1. UNCHANGED <<status, queue, running, run, shutdown, buffers, sent>>
  BY DEF storeVars
<1>2. P!IInv'
  <2>1. P!IInv /\ UNCHANGED P!vars
    BY <1>1 DEF IInv, P!vars
  <2> QED
    BY <2>1, SameTasks, P!NextIInv
<1>3. LatestInv'
  BY <1>1, LatestUnchanged DEF IInv
<1>4. Store!TypeOK' /\ buffers' \in [Tasks -> Ring] /\ sent' \in [Tasks -> Nat]
  BY <1>1 DEF IInv, TypeOK, Store!TypeOK
<1>5. ASSUME NEW t \in Tasks
      PROVE  /\ Mentioning(t)' = Mentioning(t) /\ Creating(t)' = Creating(t)
             /\ Showing(t)' = Showing(t) /\ Telling(t)' = Telling(t)
             /\ Fitting(t)' = Fitting(t) /\ Latest(t)' = Latest(t)
  BY <1>1 DEF Mentioning, Creating, Showing, Listing, Telling, Latest, CreatedMessage, ChangedMessage,
     SnapshotMessage, EventMessage, Lists, Fitting, Fits, Message, StatusShown, StatusOf
<1>6. ASSUME NEW u \in Tasks
      PROVE  NoEventsYet(u)' /\ RingFits(u)' /\ sent'[u] <= MaxSent[u]
  BY <1>1, <1>5 DEF IInv, TypeOK, TaskOK, NoEventsYet, RingFits
<1> QED
  BY <1>2, <1>3, <1>4, <1>5, <1>6

\* What such a step has to keep.
StepKeeps ==
  /\ TypeOK' /\ MessagesOK' /\ (unbroken' => link' = "up") /\ CountsFit'
  /\ \A u \in Tasks : InboxFits(u)' /\ CardFits(u)' /\ SeenFits(u)' /\ SubscriptionFits(u)'

LEMMA StepSuffices ==
  ASSUME IInv, UNCHANGED <<storeVars, buffers, sent>>, StepKeeps
  PROVE  IInv'
BY BackendStays DEF StepKeeps, IInv, TaskOK

\* What the views of a task depend on.
LEMMA InboxUnchanged ==
  ASSUME IInv, NEW u \in Tasks, UNCHANGED <<storeVars, buffers, sent, inbox>>
  PROVE  InboxFits(u)'
BY BackendStays DEF IInv, TaskOK, InboxFits, Fits, storeVars

LEMMA SeenUnchanged ==
  ASSUME IInv, NEW u \in Tasks, UNCHANGED <<storeVars, buffers, sent, inbox, seen>>,
         subscriptions' \subseteq subscriptions
  PROVE  SeenFits(u)'
BY BackendStays DEF IInv, TaskOK, SeenFits

LEMMA CardUnchanged ==
  ASSUME IInv, NEW u \in Tasks,
         UNCHANGED <<storeVars, buffers, sent, inbox, rootTasks, hidden, stale, answers>>,
         ListTaken' => ListTaken
  PROVE  CardFits(u)'
BY BackendStays DEF IInv, TaskOK, CardFits, AnswerFits, Fits, storeVars

LEMMA CountsUnchanged ==
  ASSUME IInv, UNCHANGED <<storeVars, columnCounts, inbox, outbox, selected, link>>
  PROVE  CountsFit'
<1> SUFFICES ASSUME selected', link' = "up", Quiet(outbox', {SubscribeProject})
             PROVE  Leads(columnCounts', inbox', CountsOf(status'))
  BY DEF CountsFit, SubscribeProject, Leads, CountsOf, Counted, Moved, Shown
<1>1. UNCHANGED <<status, columnCounts, inbox, outbox, selected, link>>
  BY DEF storeVars
<1>2. Leads(columnCounts, inbox, CountsOf(status))
  BY <1>1 DEF IInv, CountsFit
<1> QED
  BY <1>1, <1>2

-----------------------------------------------------------------------------
(***************************************************************************)
(* WsServer.handleMessage.                                                 *)
(***************************************************************************)
LEMMA RequestIs ==
  ASSUME IInv, HandleRequest
  PROVE  /\ outbox \in Seq(Request) /\ outbox # <<>> /\ Head(outbox) \in Request
         /\ outbox' = Tail(outbox) /\ outbox' \in Seq(Request) /\ link = "up"
         /\ inbox \in Seq(Message)
         /\ UNCHANGED <<storeVars, buffers, sent, link, breaks, selected, unbroken, asked, answers,
                        activeSubscriptions, rootTasks, hidden, columnCounts, seen, stale>>
         /\ Quiet(outbox, {SubscribeProject}) <=>
              Quiet(outbox', {SubscribeProject}) /\ Head(outbox) # SubscribeProject
<1>1. /\ outbox \in Seq(Request) /\ outbox # <<>> /\ outbox' = Tail(outbox) /\ link = "up"
      /\ inbox \in Seq(Message)
  BY DEF IInv, TypeOK, MessagesOK, HandleRequest
<1>2. Head(outbox) \in Request /\ outbox' \in Seq(Request)
  BY <1>1, TailIs
<1>3. UNCHANGED <<storeVars, buffers, sent, link, breaks, selected, unbroken, asked, answers,
                  activeSubscriptions, rootTasks, hidden, columnCounts, seen, stale>>
  BY DEF HandleRequest, httpVars, viewVars
<1>4. Ends(outbox, {SubscribeProject}, {SubscribeProject})
  BY DEF Ends
<1>5. Quiet(outbox, {SubscribeProject}) <=>
        Quiet(Tail(outbox), {SubscribeProject}) /\ Head(outbox) \notin {SubscribeProject}
  BY <1>1, <1>4, EndsTail
<1> QED
  BY <1>1, <1>2, <1>3, <1>5

\* The answer to a request is added to the inbox.
LEMMA AnswerKeeps ==
  ASSUME IInv, HandleRequest, NEW news \in Seq(Message), inbox' = inbox \o news,
         subscriptions' \in SUBSET Tasks,
         \A u \in Tasks : NewsFor(u, news) /\ SeenFits(u)',
         \A u \in Tasks : IF Head(outbox) \in Asking(u)
                          THEN u \in subscriptions' <=> Head(outbox).type = "subscribe"
                          ELSE u \in subscriptions' <=> u \in subscriptions,
         selected /\ Quiet(outbox', {SubscribeProject}) =>
           Leads(columnCounts, inbox \o news, CountsOf(status))
  PROVE  IInv'
<1>1. /\ outbox \in Seq(Request) /\ outbox # <<>> /\ outbox' = Tail(outbox)
      /\ outbox' \in Seq(Request) /\ link = "up" /\ inbox \in Seq(Message)
      /\ UNCHANGED <<storeVars, buffers, sent, link, breaks, selected, unbroken, asked, answers,
                     activeSubscriptions, rootTasks, hidden, columnCounts, seen, stale>>
  BY RequestIs
<1>2. TypeOK'
  BY <1>1, BackendStays DEF IInv, TypeOK
<1>3. MessagesOK'
  <2>1. inbox' \in Seq(Message)
    BY <1>1, ConcatSplits
  <2> QED
    BY <1>1, <2>1 DEF IInv, MessagesOK, Message, CreatedMessage, ChangedMessage, SnapshotMessage,
       EventMessage, Request, AnswerMessage, Lists
<1>4. ASSUME NEW u \in Tasks
      PROVE  InboxFits(u)' /\ CardFits(u)' /\ SeenFits(u)' /\ SubscriptionFits(u)'
  <2>1. NewsFor(u, news) /\ TaskOK(u)
    BY DEF IInv
  <2>2. InboxFits(u)'
    BY <1>1, <2>1, InboxGrows DEF TaskOK
  <2>3. CardFits(u)'
    BY <1>1, <2>1, CardsWait DEF TaskOK
  <2>4. SubscriptionFits(u)'
    BY <1>1, <2>1, RequestTaken DEF TaskOK
  <2> QED
    BY <2>2, <2>3, <2>4
<1>5. CountsFit'
  <2>1. CountsOf(status') = CountsOf(status)
    BY <1>1 DEF storeVars
  <2> QED
    BY <1>1, <2>1 DEF CountsFit, SubscribeProject, Leads, Counted, Moved, Shown
<1>6. unbroken' => link' = "up"
  BY <1>1 DEF IInv
<1> QED
  BY <1>1, <1>2, <1>3, <1>4, <1>5, <1>6, StepSuffices DEF StepKeeps

LEMMA SubscribeKeeps ==
  ASSUME IInv, HandleRequest, Head(outbox).type = "subscribe"
  PROVE  IInv'
<1> DEFINE ids == Head(outbox).nodeIds
           S == ids \ subscriptions
<1>1. /\ Head(outbox) \in Request /\ inbox \in Seq(Message) /\ link = "up"
      /\ UNCHANGED <<storeVars, buffers, sent, selected, seen, columnCounts>>
      /\ Quiet(outbox, {SubscribeProject}) <=>
           Quiet(outbox', {SubscribeProject}) /\ Head(outbox) # SubscribeProject
  BY RequestIs
<1>2. /\ ids \subseteq Tasks /\ Head(outbox) # SubscribeProject
      /\ \A u \in Tasks : Head(outbox) \in Asking(u) <=> u \in ids
  BY <1>1 DEF Request, SubscribeProject, Asking
<1>3. subscriptions' = subscriptions \cup ids /\ subscriptions \subseteq Tasks
  BY DEF HandleRequest, ServeSubscribe, IInv, TypeOK
<1>4. PICK order \in SetToSeqs(S) : inbox' = inbox \o Replay(order)
  BY DEF HandleRequest, ServeSubscribe
<1> DEFINE news == Replay(order)
<1>5. S \in SUBSET Tasks
  BY <1>2
<1>6. news \in Seq(EventMessage) /\ \A u \in Tasks : ReplayOf(u, news, S)
  <2> HIDE DEF S
  <2> QED
    BY <1>5, ReplayIs, ReplayedAre
<1> HIDE DEF news
<1>7. news \in Seq(Message) /\ inbox' = inbox \o news
  BY <1>4, <1>6, ElementsAre, ElementOfSeq DEF Message, news
<1>8. /\ UNCHANGED <<status, shutdown, sent, seen>>
      /\ sent \in [Tasks -> Nat]
  BY <1>1 DEF storeVars, IInv, TypeOK
<1>9. ASSUME NEW u \in Tasks PROVE NewsFor(u, news)
  <2>1. ReplayOf(u, news, S) /\ NoEventsYet(u)
    BY <1>6 DEF IInv, TaskOK
  <2>2. Fitting(u)' = Fitting(u)
    BY <1>1, BackendStays
  <2>3. status[u] = "absent" => sent[u] = 0
    BY <2>1 DEF NoEventsYet
  <2>4. Ends(news, Showing(u), Fitting(u)')
    BY <2>1, <2>2 DEF ReplayOf
  <2>5. \A i \in DOMAIN news : news[i] \notin Creating(u)
    BY <2>1 DEF ReplayOf, Quiet
  <2>6. ~ Quiet(news, Mentioning(u)) => status'[u] # "absent"
    BY <1>8, <2>1, <2>3 DEF ReplayOf
  <2> QED
    BY <1>8, <2>4, <2>5, <2>6 DEF NewsFor, FitsThen
<1>10. ASSUME NEW u \in Tasks PROVE SeenFits(u)'
  <2>1. ReplayOf(u, news, S) /\ SeenFits(u)
    BY <1>6 DEF IInv, TaskOK
  <2>2. Latest(u)' = Latest(u)
    BY <1>1, BackendStays
  <2>3. Ends(news, Telling(u), Latest(u)')
    BY <2>1, <2>2 DEF ReplayOf
  <2>4. \A i \in DOMAIN news : news[i] \in Telling(u) => news[i].n \in 1 .. sent'[u]
    BY <1>8, <2>1 DEF ReplayOf
  <2>5. u \in subscriptions' /\ Quiet(news, Telling(u)) =>
          sent'[u] = 0 \/ (u \in subscriptions /\ sent'[u] = sent[u])
    BY <1>3, <1>8, <2>1 DEF ReplayOf
  <2>6. sent[u] \in Nat /\ sent'[u] = sent[u] /\ sent[u] <= sent[u] /\ seen'[u] = seen[u]
    BY <1>8
  <2> QED
    BY <1>1, <1>7, <2>1, <2>3, <2>4, <2>5, <2>6, SeenGrows
<1>11. \A u \in Tasks : IF Head(outbox) \in Asking(u)
                        THEN u \in subscriptions' <=> Head(outbox).type = "subscribe"
                        ELSE u \in subscriptions' <=> u \in subscriptions
  BY <1>2, <1>3
<1>12. ASSUME selected, Quiet(outbox', {SubscribeProject})
       PROVE  Leads(columnCounts, inbox \o news, CountsOf(status))
  <2>1. Leads(columnCounts, inbox, CountsOf(status))
    BY <1>1, <1>2, <1>12 DEF IInv, CountsFit
  <2>2. Leads(CountsOf(status), news, CountsOf(status))
    BY <1>6, CountsAre, EventsLeadNowhere DEF Counts
  <2> QED
    BY <1>1, <1>7, <2>1, <2>2, LeadsOn
<1> HIDE DEF S, ids
<1>13. subscriptions' \in SUBSET Tasks
  BY <1>2, <1>3
<1> QED
  BY <1>7, <1>9, <1>10, <1>11, <1>12, <1>13, AnswerKeeps

LEMMA UnsubscribeKeeps ==
  ASSUME IInv, HandleRequest, Head(outbox).type = "unsubscribe"
  PROVE  IInv'
<1>1. /\ Head(outbox) \in Request /\ inbox \in Seq(Message) /\ link = "up"
      /\ UNCHANGED <<storeVars, buffers, sent, selected, seen, columnCounts>>
      /\ Quiet(outbox, {SubscribeProject}) <=>
           Quiet(outbox', {SubscribeProject}) /\ Head(outbox) # SubscribeProject
  BY RequestIs
<1>2. /\ Head(outbox).nodeIds \subseteq Tasks /\ Head(outbox) # SubscribeProject
      /\ \A u \in Tasks : Head(outbox) \in Asking(u) <=> u \in Head(outbox).nodeIds
  BY <1>1 DEF Request, SubscribeProject, Asking
<1>3. /\ subscriptions' = subscriptions \ Head(outbox).nodeIds /\ subscriptions \subseteq Tasks
      /\ inbox' = inbox
  BY DEF HandleRequest, ServeUnsubscribe, IInv, TypeOK
<1>4. inbox \o <<>> = inbox /\ <<>> \in Seq(Message)
  BY <1>1, ConcatEmptySeq, EmptyIs
<1>5. ASSUME NEW u \in Tasks PROVE NewsFor(u, <<>>) /\ SeenFits(u)'
  <2>1. SeenFits(u)'
    BY <1>1, <1>3, SeenUnchanged
  <2>2. DOMAIN <<>> = {}
    OBVIOUS
  <2>3. NewsFor(u, <<>>)
    BY <1>1, <2>2 DEF NewsFor, Quiet, Ends, storeVars, FitsThen
  <2> QED
    BY <2>1, <2>3
<1>6. \A u \in Tasks : IF Head(outbox) \in Asking(u)
                       THEN u \in subscriptions' <=> Head(outbox).type = "subscribe"
                       ELSE u \in subscriptions' <=> u \in subscriptions
  BY <1>2, <1>3
<1>7. selected /\ Quiet(outbox', {SubscribeProject}) =>
        Leads(columnCounts, inbox \o <<>>, CountsOf(status))
  BY <1>1, <1>2, <1>4 DEF IInv, CountsFit
<1>8. subscriptions' \in SUBSET Tasks /\ inbox' = inbox \o <<>>
  BY <1>3, <1>4
<1> QED
  BY <1>4, <1>5, <1>6, <1>7, <1>8, AnswerKeeps

LEMMA SnapshotIs ==
  ASSUME IInv
  PROVE  /\ Snapshot \in SnapshotMessage /\ Snapshot.counts = CountsOf(status)
         /\ \A u \in Tasks : Snapshot \in Listing(u) => status[u] # "absent"
         /\ \A u \in Tasks : Snapshot \notin Creating(u) \cup Showing(u) \cup Telling(u)
<1> DEFINE S == {u \in Tasks : status[u] \in Active}
           tasks == [t \in S |-> status[t]]
           counts == [s \in Shown |-> Count(s)]
<1>1. counts = CountsOf(status) /\ counts \in [Shown -> Nat]
  <2>1. counts = CountsOf(status)
    BY DEF CountsOf, Count
  <2> QED
    BY <2>1, CountsAre DEF Counts
<1>2. tasks \in Lists
  <2>1. tasks \in [S -> Shown] /\ S \in SUBSET Tasks
    BY DEF Active
  <2> QED
    BY <2>1 DEF Lists
<1>3. Snapshot = [type |-> "project_tasks_snapshot", tasks |-> tasks, counts |-> counts]
  BY DEF Snapshot
<1>4. DOMAIN tasks = S
  OBVIOUS
<1> HIDE DEF tasks, counts
<1>5. Snapshot \in SnapshotMessage /\ Snapshot.counts = counts /\ Snapshot.tasks = tasks
  BY <1>1, <1>2, <1>3 DEF SnapshotMessage
<1>6. \A u \in Tasks : Snapshot \in Listing(u) => status[u] # "absent"
  BY <1>4, <1>5 DEF Listing, Active, Shown
<1>7. \A u \in Tasks : Snapshot \notin Creating(u) \cup Showing(u) \cup Telling(u)
  BY <1>5 DEF Creating, Showing, Telling, CreatedMessage, ChangedMessage, EventMessage, EventType,
     SnapshotMessage
<1> QED
  BY <1>1, <1>5, <1>6, <1>7

LEMMA SubscribeProjectKeeps ==
  ASSUME IInv, HandleRequest, Head(outbox).type = "subscribe_project"
  PROVE  IInv'
<1> DEFINE news == <<Snapshot>>
<1>1. /\ Head(outbox) \in Request /\ inbox \in Seq(Message) /\ link = "up"
      /\ UNCHANGED <<storeVars, buffers, sent, selected, seen, columnCounts>>
  BY RequestIs
<1>2. \A u \in Tasks : Head(outbox) \notin Asking(u)
  BY DEF Asking
<1>3. subscriptions' = subscriptions /\ subscriptions \subseteq Tasks
      /\ inbox' = Append(inbox, Snapshot)
  BY DEF HandleRequest, ServeSubscribeProject, IInv, TypeOK
<1>4. /\ Snapshot \in SnapshotMessage /\ Snapshot.counts = CountsOf(status)
      /\ \A u \in Tasks : Snapshot \in Listing(u) => status[u] # "absent"
      /\ \A u \in Tasks : Snapshot \notin Creating(u) \cup Showing(u) \cup Telling(u)
  BY SnapshotIs
<1>5. Snapshot \in Message
  BY <1>4 DEF Message
<1>6. news \in Seq(Message) /\ inbox' = inbox \o news
  BY <1>1, <1>3, <1>5, AppendIsConcat
<1>7. DOMAIN news = {1} /\ news[1] = Snapshot
  OBVIOUS
<1>8. UNCHANGED <<status, shutdown, sent, seen>> /\ sent \in [Tasks -> Nat]
  BY <1>1 DEF storeVars, IInv, TypeOK
<1> HIDE DEF news
<1>9. ASSUME NEW u \in Tasks PROVE NewsFor(u, news) /\ SeenFits(u)'
  <2>1. Quiet(news, Creating(u)) /\ Quiet(news, Showing(u)) /\ Quiet(news, Telling(u))
    BY <1>4, <1>7 DEF Quiet
  <2>2. ~ Quiet(news, Mentioning(u)) => status[u] # "absent"
    BY <1>4, <1>7 DEF Quiet, Mentioning
  <2>3. Ends(news, Showing(u), Fitting(u)') /\ Ends(news, Telling(u), Latest(u)')
    BY <2>1, EndsQuiet
  <2>4. NewsFor(u, news)
    BY <1>8, <2>1, <2>2, <2>3 DEF NewsFor, Quiet, FitsThen
  <2>5. \A i \in DOMAIN news : news[i] \in Telling(u) => news[i].n \in 1 .. sent'[u]
    BY <2>1 DEF Quiet
  <2>6. /\ sent[u] \in Nat /\ sent'[u] = sent[u] /\ sent[u] <= sent[u] /\ seen'[u] = seen[u]
        /\ SeenFits(u)
    BY <1>8 DEF IInv, TaskOK
  <2>7. SeenFits(u)'
    BY <1>1, <1>3, <1>6, <2>3, <2>5, <2>6, SeenGrows
  <2> QED
    BY <2>4, <2>7
<1>10. Leads(columnCounts, inbox \o news, CountsOf(status))
  <2>1. columnCounts \in Counts
    BY DEF IInv, TypeOK, Counts
  <2>2. PICK d \in Counts : Leads(columnCounts, inbox, d)
    BY <1>1, <2>1, LeadsSomewhere
  <2>3. Leads(d, news, Counted(d, Snapshot))
    BY <1>5, LeadsTo DEF news
  <2>4. Counted(d, Snapshot) = CountsOf(status)
    BY <1>4 DEF Counted, SnapshotMessage
  <2> QED
    BY <1>1, <1>6, <2>2, <2>3, <2>4, LeadsOn
<1> QED
  BY <1>2, <1>3, <1>6, <1>9, <1>10, AnswerKeeps

LEMMA HandleRequestKeeps ==
  ASSUME IInv, HandleRequest
  PROVE  IInv'
<1>1. Head(outbox) \in Request
  BY RequestIs
<1>2. Head(outbox).type \in {"subscribe", "unsubscribe", "subscribe_project"}
  BY <1>1 DEF Request
<1> QED
  BY <1>2, SubscribeKeeps, UnsubscribeKeeps, SubscribeProjectKeeps

-----------------------------------------------------------------------------
(***************************************************************************)
(* The connection.                                                         *)
(***************************************************************************)
LEMMA ResubscribeIs ==
  ASSUME IInv
  PROVE  /\ Resubscribe \in Seq(Request)
         /\ selected => ~ Quiet(Resubscribe, {SubscribeProject})
         /\ \A u \in Tasks : /\ Ends(Resubscribe, Asking(u), Wanted(u))
                             /\ Quiet(Resubscribe, Asking(u)) => u \notin activeSubscriptions
<1> DEFINE wanted == IF activeSubscriptions # {} THEN <<Subscribe(activeSubscriptions)>> ELSE <<>>
           project == IF selected THEN <<SubscribeProject>> ELSE <<>>
<1>1. /\ activeSubscriptions \in SUBSET Tasks
      /\ Subscribe(activeSubscriptions) \in Request /\ SubscribeProject \in Request
  BY DEF IInv, TypeOK, Request, Subscribe, SubscribeProject
<1>2. wanted \in Seq(Request) /\ project \in Seq(Request)
  BY <1>1
<1>3. Resubscribe = wanted \o project
  BY DEF Resubscribe
<1>4. selected => ~ Quiet(project, {SubscribeProject})
  <2>1. SubscribeProject \in {SubscribeProject}
    OBVIOUS
  <2> QED
    BY <2>1, OneSaid
<1>5. ASSUME NEW u \in Tasks
      PROVE  /\ Quiet(project, Asking(u)) /\ Ends(wanted, Asking(u), Wanted(u))
             /\ u \in activeSubscriptions => ~ Quiet(wanted, Asking(u))
  <2>1. SubscribeProject \notin Asking(u)
    BY DEF Asking, SubscribeProject
  <2>2. Quiet(project, Asking(u))
    BY <2>1, OneSaid, NothingSaid
  <2>3. CASE u \in activeSubscriptions
    <3>1. Subscribe(activeSubscriptions) \in Asking(u) \cap Wanted(u)
      BY <1>1, <2>3 DEF Asking, Wanted, Subscribe
    <3>2. wanted = <<Subscribe(activeSubscriptions)>>
      BY <2>3
    <3> QED
      BY <2>2, <3>1, <3>2, OneSaid
  <2>4. CASE u \notin activeSubscriptions
    <3>1. Subscribe(activeSubscriptions) \notin Asking(u)
      BY <2>4 DEF Asking, Subscribe
    <3>2. Quiet(wanted, Asking(u))
      BY <3>1, OneSaid, NothingSaid
    <3> QED
      BY <2>2, <2>4, <3>2, EndsQuiet
  <2> QED
    BY <2>3, <2>4
<1> HIDE DEF wanted, project
<1>6. Resubscribe \in Seq(Request)
  BY <1>2, <1>3, ConcatSplits
<1>7. Quiet(Resubscribe, {SubscribeProject}) =>
        Quiet(project, {SubscribeProject})
  BY <1>2, <1>3, QuietConcat
<1>8. ASSUME NEW u \in Tasks
      PROVE  /\ Ends(Resubscribe, Asking(u), Wanted(u))
             /\ Quiet(Resubscribe, Asking(u)) => u \notin activeSubscriptions
  <2>1. Ends(project, Asking(u), Wanted(u))
    BY <1>5, EndsQuiet
  <2>2. Ends(Resubscribe, Asking(u), Wanted(u))
    BY <1>2, <1>3, <1>5, <2>1, EndsConcat
  <2>3. Quiet(Resubscribe, Asking(u)) => Quiet(wanted, Asking(u))
    BY <1>2, <1>3, QuietConcat
  <2> QED
    BY <1>5, <2>2, <2>3
<1> QED
  BY <1>4, <1>6, <1>7, <1>8

LEMMA ConnectKeeps ==
  ASSUME IInv, Connect
  PROVE  IInv'
<1>1. /\ UNCHANGED <<storeVars, buffers, sent, subscriptions, breaks, inbox, selected, unbroken,
                     asked, answers, activeSubscriptions, rootTasks, hidden, columnCounts, seen, stale>>
      /\ link = "down" /\ link' = "up" /\ outbox' = Resubscribe
  BY DEF Connect, serverVars, httpVars, viewVars
<1>2. inbox = <<>> /\ subscriptions = {}
  BY <1>1 DEF IInv, TypeOK
<1>3. /\ outbox' \in Seq(Request) /\ (selected => ~ Quiet(outbox', {SubscribeProject}))
      /\ \A u \in Tasks : /\ Ends(outbox', Asking(u), Wanted(u))
                          /\ Quiet(outbox', Asking(u)) => u \notin activeSubscriptions
  BY <1>1, ResubscribeIs
<1>4. TypeOK'
  BY <1>1, BackendStays DEF IInv, TypeOK
<1>5. MessagesOK'
  BY <1>1, <1>3 DEF IInv, MessagesOK, Message, CreatedMessage, ChangedMessage, SnapshotMessage,
     EventMessage, Request, AnswerMessage, Lists
<1>6. ASSUME NEW u \in Tasks
      PROVE  InboxFits(u)' /\ CardFits(u)' /\ SeenFits(u)' /\ SubscriptionFits(u)'
  <2>0. ListTaken' => ListTaken
    BY <1>1 DEF ListTaken
  <2>1. InboxFits(u)' /\ CardFits(u)' /\ SeenFits(u)'
    BY <1>1, <2>0, InboxUnchanged, CardUnchanged, SeenUnchanged
  <2>2. Asking(u)' = Asking(u) /\ Wanted(u)' = Wanted(u)
    BY <1>1 DEF Asking, Wanted, Request
  <2>3. SubscriptionFits(u)'
    BY <1>1, <1>2, <1>3, <2>2 DEF SubscriptionFits
  <2> QED
    BY <2>1, <2>3
<1>7. CountsFit'
  BY <1>1, <1>3 DEF CountsFit, SubscribeProject
<1> QED
  BY <1>1, <1>4, <1>5, <1>6, <1>7, StepSuffices DEF StepKeeps

LEMMA DisconnectKeeps ==
  ASSUME IInv, Disconnect
  PROVE  IInv'
<1>1. /\ UNCHANGED <<storeVars, buffers, sent, selected, asked, answers,
                     activeSubscriptions, rootTasks, hidden, columnCounts, seen, stale>>
      /\ link' = "down" /\ outbox' = <<>> /\ inbox' = <<>> /\ subscriptions' = {}
      /\ unbroken' = FALSE /\ breaks' \in 0 .. MaxBreaks /\ answers = {}
  BY BoardSyncAssumption DEF Disconnect, httpVars, viewVars, IInv, TypeOK
<1>2. TypeOK'
  BY <1>1, BackendStays DEF IInv, TypeOK
<1>3. DOMAIN inbox' = {} /\ inbox' \in Seq(Message') /\ outbox' \in Seq(Request')
  BY <1>1, EmptyIs
<1>4. MessagesOK'
  BY <1>1, <1>3 DEF IInv, MessagesOK, AnswerMessage, Lists
<1>5. ASSUME NEW u \in Tasks
      PROVE  InboxFits(u)' /\ CardFits(u)' /\ SeenFits(u)' /\ SubscriptionFits(u)'
  <2>1. UNCHANGED <<status, sent, seen>> /\ TaskOK(u)
    BY <1>1 DEF storeVars, IInv
  <2>2. InboxFits(u)'
    BY <1>3 DEF InboxFits, Quiet, Ends
  <2>3. CardFits(u)'
    BY <1>1, <2>1 DEF CardFits, ListTaken, TaskOK
  <2>4. SeenFits(u)'
    BY <1>1, <1>3, <2>1 DEF SeenFits, TaskOK
  <2>5. SubscriptionFits(u)'
    BY <1>1 DEF SubscriptionFits
  <2> QED
    BY <2>2, <2>3, <2>4, <2>5
<1>6. CountsFit'
  BY <1>1 DEF CountsFit
<1> QED
  BY <1>1, <1>2, <1>4, <1>5, <1>6, StepSuffices DEF StepKeeps

-----------------------------------------------------------------------------
(***************************************************************************)
(* The lists.                                                              *)
(***************************************************************************)
LEMMA SelectProjectKeeps ==
  ASSUME IInv, SelectProject
  PROVE  IInv'
<1>1. /\ UNCHANGED <<storeVars, buffers, sent, subscriptions, link, breaks, inbox, answers,
                     activeSubscriptions, columnCounts, seen, stale>>
      /\ selected' = TRUE /\ unbroken' = (link = "up")
      /\ asked' \in SUBSET ListKind /\ "all" \in asked'
      /\ rootTasks' = [t \in Tasks |-> <<>>] /\ hidden' = {}
      /\ outbox' = IF link = "up" THEN Append(outbox, SubscribeProject) ELSE outbox
  BY DEF SelectProject, Send, serverVars, ListKind
<1>2. outbox \in Seq(Request) /\ SubscribeProject \in Request
  BY DEF IInv, MessagesOK, Request, SubscribeProject
<1>3. outbox' \in Seq(Request) /\ (link = "up" => ~ Quiet(outbox', {SubscribeProject}))
  <2>1. CASE link = "up"
    <3>1. Append(outbox, SubscribeProject) = outbox \o <<SubscribeProject>>
      BY <1>2, AppendIsConcat
    <3>2. <<SubscribeProject>> \in Seq(Request) /\ SubscribeProject \in {SubscribeProject}
      BY <1>2
    <3>3. ~ Quiet(<<SubscribeProject>>, {SubscribeProject})
      BY <3>2, OneSaid
    <3>4. ~ Quiet(outbox \o <<SubscribeProject>>, {SubscribeProject})
      BY <1>2, <3>2, <3>3, QuietConcat
    <3> QED
      BY <1>1, <1>2, <2>1, <3>1, <3>4
  <2>2. CASE link # "up"
    BY <1>1, <1>2, <2>2
  <2> QED
    BY <2>1, <2>2
<1>4. TypeOK'
  <2>1. link = "down" => outbox' = <<>>
    BY <1>1 DEF IInv, TypeOK
  <2> QED
    BY <1>1, <2>1, BackendStays DEF IInv, TypeOK
<1>5. MessagesOK'
  BY <1>1, <1>3 DEF IInv, MessagesOK, Message, CreatedMessage, ChangedMessage, SnapshotMessage,
     EventMessage, Request, AnswerMessage, Lists
<1>6. ASSUME NEW u \in Tasks
      PROVE  InboxFits(u)' /\ CardFits(u)' /\ SeenFits(u)' /\ SubscriptionFits(u)'
  <2>1. InboxFits(u)' /\ SeenFits(u)'
    BY <1>1, InboxUnchanged, SeenUnchanged
  <2>2. TaskOK(u) /\ UNCHANGED <<status, shutdown>>
    BY <1>1 DEF IInv, storeVars
  <2>3. CardFits(u)'
    <3>1. ~ ListTaken'
      BY <1>1 DEF ListTaken
    <3>2. Creating(u)' = Creating(u) /\ Showing(u)' = Showing(u)
      BY <1>1, BackendStays
    <3> QED
      BY <1>1, <2>2, <3>1, <3>2 DEF TaskOK, CardFits, AnswerFits, Fits
  <2>4. SubscriptionFits(u)'
    <3>1. SubscribeProject \notin Asking(u)
      BY DEF Asking, SubscribeProject
    <3> QED
      BY <1>1, <1>2, <2>2, <3>1, RequestSent DEF TaskOK
  <2> QED
    BY <2>1, <2>3, <2>4
<1>7. CountsFit'
  BY <1>1, <1>3 DEF CountsFit, SubscribeProject
<1> QED
  BY <1>1, <1>4, <1>5, <1>6, <1>7, StepSuffices DEF StepKeeps

\* A column is asked for more: the list of all tasks is not asked for again.
LEMMA LoadMoreKeeps ==
  ASSUME IInv, NEW column \in Column, LoadMore(column)
  PROVE  IInv'
<1>1. /\ UNCHANGED <<storeVars, buffers, sent, subscriptions, link, breaks, inbox, outbox, answers,
                     selected, unbroken, activeSubscriptions, rootTasks, hidden, columnCounts, seen, stale>>
      /\ asked' = asked \cup (column \cap Paged)
  BY DEF LoadMore, serverVars, viewVars
<1>2. TypeOK'
  BY <1>1, BackendStays DEF IInv, TypeOK, ListKind
<1>3. MessagesOK'
  BY <1>1 DEF IInv, MessagesOK, Message, CreatedMessage, ChangedMessage, SnapshotMessage,
     EventMessage, Request, AnswerMessage, Lists
<1>4. ASSUME NEW u \in Tasks
      PROVE  InboxFits(u)' /\ CardFits(u)' /\ SeenFits(u)' /\ SubscriptionFits(u)'
  <2>1. ListTaken' => ListTaken
    BY <1>1 DEF ListTaken
  <2>2. InboxFits(u)' /\ CardFits(u)' /\ SeenFits(u)'
    BY <1>1, <2>1, InboxUnchanged, CardUnchanged, SeenUnchanged
  <2>3. SubscriptionFits(u)
    BY DEF IInv, TaskOK
  <2>4. SubscriptionFits(u)'
    BY <1>1, <2>3 DEF SubscriptionFits, Asking, Wanted, Request
  <2> QED
    BY <2>2, <2>4
<1>5. CountsFit'
  BY <1>1, CountsUnchanged
<1>6. unbroken' => link' = "up"
  BY <1>1 DEF IInv
<1> QED
  BY <1>1, <1>2, <1>3, <1>4, <1>5, <1>6, StepSuffices DEF StepKeeps

LEMMA AnswerListKeeps ==
  ASSUME IInv, NEW kind \in ListKind, AnswerList(kind)
  PROVE  IInv'
<1>0. PICK listed \in Listed(kind) :
        answers' = answers \cup {[kind |-> kind, tasks |-> [t \in listed |-> status[t]]]}
  BY DEF AnswerList
<1> DEFINE tasks == [t \in listed |-> status[t]]
           answer == [kind |-> kind, tasks |-> tasks]
<1>1. /\ UNCHANGED <<storeVars, buffers, sent, subscriptions, link, breaks, inbox, outbox,
                     selected, unbroken, activeSubscriptions, rootTasks, hidden, columnCounts, seen, stale>>
      /\ asked' = asked \ {kind} /\ answers' = answers \cup {answer} /\ kind \in asked
  BY <1>0 DEF AnswerList, serverVars, viewVars
<1>2. /\ tasks \in Lists /\ DOMAIN tasks = listed
      /\ \A t \in listed : t \in Tasks /\ status[t] \in Shown /\ status[t] # "absent"
  <2>1. \A t \in listed : t \in Tasks /\ status[t] \in Shown
    BY BoardSyncAssumption DEF IInv, TypeOK, Store!TypeOK, Listed, Existing, ListKind, Shown,
       Store!Status
  <2>2. tasks \in [listed -> Shown] /\ listed \in SUBSET Tasks
    BY <2>1
  <2> QED
    BY <2>1, <2>2 DEF Lists, Shown
<1> HIDE DEF tasks
<1>3. /\ answer \in AnswerMessage /\ answer.kind = kind /\ answer.tasks = tasks
      /\ kind \notin ReplyKind
  BY <1>2, BoardSyncAssumption DEF AnswerMessage, ListKind, ReplyKind
<1> HIDE DEF answer
<1>4. TypeOK'
  BY <1>1, BackendStays DEF IInv, TypeOK
<1>5. MessagesOK'
  BY <1>1, <1>3 DEF IInv, MessagesOK, Message, CreatedMessage, ChangedMessage, SnapshotMessage,
     EventMessage, Request, AnswerMessage, Lists
<1>6. ASSUME NEW u \in Tasks
      PROVE  InboxFits(u)' /\ CardFits(u)' /\ SeenFits(u)' /\ SubscriptionFits(u)'
  <2>1. InboxFits(u)' /\ SeenFits(u)'
    BY <1>1, InboxUnchanged, SeenUnchanged
  <2>2. TaskOK(u) /\ UNCHANGED <<status, shutdown>>
    BY <1>1 DEF IInv, storeVars
  <2>3. CardFits(u)'
    <3>1. ListTaken' => ListTaken
      BY <1>1, <1>3 DEF ListTaken
    <3>2. AnswerFits(answer, u)
      BY <1>3 DEF AnswerFits, ReplyKind
    <3>3. \A a \in answers' : u \in DOMAIN a.tasks => status[u] # "absent" /\ AnswerFits(a, u)
      BY <1>1, <1>2, <1>3, <2>2, <3>2 DEF TaskOK, CardFits
    <3>4. Creating(u)' = Creating(u) /\ Showing(u)' = Showing(u)
      BY <1>1, BackendStays
    <3> QED
      BY <1>1, <2>2, <3>1, <3>3, <3>4 DEF TaskOK, CardFits, AnswerFits, Fits
  <2>4. SubscriptionFits(u)'
    BY <1>1, <2>2 DEF TaskOK, SubscriptionFits, Asking, Wanted, Request
  <2> QED
    BY <2>1, <2>3, <2>4
<1>7. CountsFit'
  BY <1>1, CountsUnchanged
<1>8. unbroken' => link' = "up"
  BY <1>1 DEF IInv
<1> QED
  BY <1>1, <1>4, <1>5, <1>6, <1>7, <1>8, StepSuffices DEF StepKeeps

-----------------------------------------------------------------------------
(***************************************************************************)
(* An answer arrives.  If a list is older than what is shown, and is not   *)
(* called overtaken, then the news are still in the inbox.                 *)
(***************************************************************************)
LEMMA NewsComeYet ==
  ASSUME IInv, NEW tasks \in Lists, NEW u \in Tasks, ~ Overtaken(tasks, u)
  PROVE  /\ u \in DOMAIN tasks => tasks[u] = status[u] \/ ~ Quiet(inbox, Showing(u))
         /\ u \notin DOMAIN tasks => status[u] = "absent" \/ ~ Quiet(inbox, Creating(u))
<1>1. inbox \in Seq(Message)
  BY DEF IInv, MessagesOK
<1>2. \A i \in DOMAIN inbox : inbox[i] \in Message
  BY <1>1
<1>3. u \in DOMAIN tasks => tasks[u] # "absent"
  BY DEF Lists, Shown
<1>4. CASE u \in DOMAIN tasks /\ tasks[u] # status[u]
  <2>1. PICK i \in DOMAIN inbox : inbox[i].type = "task_status_changed" /\ inbox[i].task = u
    BY <1>3, <1>4 DEF Overtaken
  <2>2. inbox[i] \in ChangedMessage
    BY <1>2, <2>1 DEF Message, CreatedMessage, SnapshotMessage, EventMessage, EventType
  <2>3. inbox[i] \in Showing(u)
    BY <2>1, <2>2 DEF Showing
  <2> QED
    BY <1>4, <2>3 DEF Quiet
<1>5. CASE u \notin DOMAIN tasks /\ status[u] # "absent"
  <2>1. PICK i \in DOMAIN inbox : inbox[i].type = "task_created" /\ inbox[i].task = u
    BY <1>5 DEF Overtaken
  <2>2. inbox[i] \in CreatedMessage
    BY <1>2, <2>1 DEF Message, ChangedMessage, SnapshotMessage, EventMessage, EventType
  <2>3. inbox[i] \in Creating(u)
    BY <2>1, <2>2 DEF Creating
  <2> QED
    BY <1>5, <2>3 DEF Quiet
<1> QED
  BY <1>4, <1>5

\* What the answer has to do to the card of u.
CardThen(u) ==
  /\ rootTasks'[u] # <<>> => status[u] # "absent"
  /\ ListTaken' /\ u \notin stale' \cup hidden' =>
       /\ status[u] # "absent" /\ rootTasks'[u] = <<>> => ~ Quiet(inbox, Creating(u))
       /\ rootTasks'[u] # <<>> /\ Quiet(inbox, Showing(u)) => Fits(rootTasks'[u][1], u)

\* What the five kinds of answers have in common.
LEMMA AnswerTaken ==
  ASSUME IInv, NEW answer \in answers, TakeAnswer(answer),
         rootTasks' \in [Tasks -> {<<>>} \cup {<<s>> : s \in Shown}],
         stale' \in SUBSET Tasks, hidden' \in SUBSET Tasks,
         \A u \in Tasks : CardThen(u)
  PROVE  IInv'
<1>1. /\ UNCHANGED <<storeVars, buffers, sent, subscriptions, link, breaks, inbox, outbox,
                     selected, unbroken, asked, activeSubscriptions, columnCounts, seen>>
      /\ answers' = answers \ {answer}
  BY DEF TakeAnswer, serverVars
<1>2. TypeOK'
  BY <1>1, BackendStays DEF IInv, TypeOK
<1>3. MessagesOK'
  BY <1>1 DEF IInv, MessagesOK, Message, CreatedMessage, ChangedMessage, SnapshotMessage,
     EventMessage, Request, AnswerMessage, Lists, ListKind
<1>4. ASSUME NEW u \in Tasks
      PROVE  InboxFits(u)' /\ CardFits(u)' /\ SeenFits(u)' /\ SubscriptionFits(u)'
  <2>1. InboxFits(u)' /\ SeenFits(u)'
    BY <1>1, InboxUnchanged, SeenUnchanged
  <2>2. TaskOK(u) /\ CardThen(u) /\ UNCHANGED <<status, shutdown>>
    BY <1>1 DEF storeVars, IInv
  <2>3. Creating(u)' = Creating(u) /\ Showing(u)' = Showing(u) /\ inbox' = inbox
    BY <1>1, BackendStays
  <2>4. \A a \in answers' : u \in DOMAIN a.tasks => status'[u] # "absent" /\ AnswerFits(a, u)'
    BY <1>1, <2>2, <2>3 DEF TaskOK, CardFits, AnswerFits, Fits
  <2>5. CardFits(u)'
    BY <2>2, <2>3, <2>4 DEF CardThen, CardFits, Fits
  <2>6. SubscriptionFits(u)'
    BY <1>1, <2>2 DEF TaskOK, SubscriptionFits, Asking, Wanted, Request
  <2> QED
    BY <2>1, <2>5, <2>6
<1>5. CountsFit'
  BY <1>1, CountsUnchanged
<1>6. unbroken' => link' = "up"
  BY <1>1 DEF IInv
<1> QED
  BY <1>1, <1>2, <1>3, <1>4, <1>5, <1>6, StepSuffices DEF StepKeeps

\* What is known of an answer, and of the cards before it is taken.
LEMMA AnswerIs ==
  ASSUME IInv, NEW answer \in answers, TakeAnswer(answer)
  PROVE  /\ answer.tasks \in Lists /\ DOMAIN answer.tasks \subseteq Tasks
         /\ rootTasks \in [Tasks -> {<<>>} \cup {<<s>> : s \in Shown}]
         /\ stale \in SUBSET Tasks /\ hidden \in SUBSET Tasks
         /\ \A u \in DOMAIN answer.tasks :
              /\ answer.tasks[u] \in Shown /\ status[u] # "absent" /\ AnswerFits(answer, u)
         /\ \A u \in Tasks : CardFits(u)
         /\ ListTaken' /\ answer.kind # "all" => ListTaken
<1>1. answer.tasks \in Lists
  BY DEF IInv, MessagesOK, AnswerMessage
<1>2. \A u \in Tasks : CardFits(u)
  BY DEF IInv, TaskOK
<1>3. DOMAIN answer.tasks \subseteq Tasks /\ \A u \in DOMAIN answer.tasks : answer.tasks[u] \in Shown
  BY <1>1 DEF Lists
<1>4. \A u \in DOMAIN answer.tasks : status[u] # "absent" /\ AnswerFits(answer, u)
  BY <1>2, <1>3 DEF CardFits
<1>5. ListTaken' /\ answer.kind # "all" => ListTaken
  BY DEF TakeAnswer, ListTaken
<1> QED
  BY <1>1, <1>2, <1>3, <1>4, <1>5 DEF IInv, TypeOK

\* Cards are added where there is none.
LEMMA AppendTasksIs ==
  ASSUME IInv, NEW tasks \in Lists
  PROVE  /\ AppendTasks(tasks) \in [Tasks -> {<<>>} \cup {<<s>> : s \in Shown}]
         /\ \A u \in Tasks : AppendTasks(tasks)[u] =
              IF u \in DOMAIN tasks /\ rootTasks[u] = <<>> THEN <<tasks[u]>> ELSE rootTasks[u]
<1>1. rootTasks \in [Tasks -> {<<>>} \cup {<<s>> : s \in Shown}]
  BY DEF IInv, TypeOK
<1>2. \A u \in DOMAIN tasks : tasks[u] \in Shown
  BY DEF Lists
<1> QED
  BY <1>1, <1>2 DEF AppendTasks

\* A card is updated if it is there.
LEMMA UpdateIs ==
  ASSUME IInv, NEW t \in Tasks, NEW s \in Shown
  PROVE  /\ UpdateTaskStatus(t, s) \in [Tasks -> {<<>>} \cup {<<x>> : x \in Shown}]
         /\ \A u \in Tasks : UpdateTaskStatus(t, s)[u] =
              IF u = t /\ rootTasks[u] # <<>> THEN <<s>> ELSE rootTasks[u]
<1>1. rootTasks \in [Tasks -> {<<>>} \cup {<<x>> : x \in Shown}]
  BY DEF IInv, TypeOK
<1> DEFINE card == [i \in DOMAIN rootTasks[t] |-> s]
<1>2. card = IF rootTasks[t] # <<>> THEN <<s>> ELSE <<>>
  <2>1. CASE rootTasks[t] = <<>>
    <3>1. DOMAIN rootTasks[t] = {}
      BY <2>1
    <3> QED
      BY <2>1, <3>1
  <2>2. CASE rootTasks[t] # <<>>
    <3>1. PICK x \in Shown : rootTasks[t] = <<x>>
      BY <1>1, <2>2
    <3>2. DOMAIN rootTasks[t] = 1 .. 1
      BY <3>1
    <3>3. card = [i \in 1 .. 1 |-> s]
      BY <3>2
    <3>4. <<s>> = [i \in 1 .. 1 |-> s]
      OBVIOUS
    <3> QED
      BY <2>2, <3>3, <3>4
  <2> QED
    BY <2>1, <2>2
<1>3. UpdateTaskStatus(t, s) = [rootTasks EXCEPT ![t] = card]
  BY DEF UpdateTaskStatus
<1> HIDE DEF card
<1> QED
  BY <1>1, <1>2, <1>3

LEMMA TakeListKeeps ==
  ASSUME IInv, NEW answer \in answers, TakeAnswer(answer), TakeList(answer)
  PROVE  IInv'
<1> DEFINE tasks == answer.tasks
<1>1. /\ tasks \in Lists
      /\ \A u \in DOMAIN tasks : tasks[u] \in Shown /\ status[u] # "absent"
  BY AnswerIs
<1>2. /\ rootTasks' = SetRootTasks(tasks) /\ hidden' = {}
      /\ stale' = {t \in Tasks : Overtaken(tasks, t)}
  BY DEF TakeList
<1> HIDE DEF tasks
<1>3. /\ rootTasks' \in [Tasks -> {<<>>} \cup {<<s>> : s \in Shown}]
      /\ \A u \in Tasks : rootTasks'[u] = IF u \in DOMAIN tasks THEN <<tasks[u]>> ELSE <<>>
  BY <1>1, <1>2 DEF SetRootTasks
<1>4. ASSUME NEW u \in Tasks PROVE CardThen(u)
  <2>1. ASSUME u \notin stale'
        PROVE  /\ u \in DOMAIN tasks => tasks[u] = status[u] \/ ~ Quiet(inbox, Showing(u))
               /\ u \notin DOMAIN tasks => status[u] = "absent" \/ ~ Quiet(inbox, Creating(u))
    <3>1. ~ Overtaken(tasks, u)
      BY <1>2, <2>1
    <3> QED
      BY <1>1, <3>1, NewsComeYet
  <2> QED
    BY <1>1, <1>3, <2>1 DEF CardThen, Fits
<1> QED
  BY <1>2, <1>3, <1>4, AnswerTaken

LEMMA TakePageKeeps ==
  ASSUME IInv, NEW answer \in answers, TakeAnswer(answer), TakePage(answer)
  PROVE  IInv'
<1> DEFINE tasks == answer.tasks
<1>1. /\ tasks \in Lists /\ DOMAIN tasks \subseteq Tasks
      /\ stale \in SUBSET Tasks /\ hidden \in SUBSET Tasks
      /\ \A u \in DOMAIN tasks : tasks[u] \in Shown /\ status[u] # "absent"
      /\ \A u \in Tasks : CardFits(u)
  BY AnswerIs
<1>2. /\ rootTasks' = AppendTasks(tasks) /\ UNCHANGED hidden /\ (ListTaken' => ListTaken)
      /\ stale' = stale \cup {t \in DOMAIN tasks : rootTasks[t] = <<>> /\ Overtaken(tasks, t)}
  BY AnswerIs, BoardSyncAssumption DEF TakePage
<1> HIDE DEF tasks
<1>3. /\ rootTasks' \in [Tasks -> {<<>>} \cup {<<s>> : s \in Shown}]
      /\ \A u \in Tasks : rootTasks'[u] =
           IF u \in DOMAIN tasks /\ rootTasks[u] = <<>> THEN <<tasks[u]>> ELSE rootTasks[u]
  BY <1>1, <1>2, AppendTasksIs
<1>4. ASSUME NEW u \in Tasks PROVE CardThen(u)
  <2>1. CASE u \in DOMAIN tasks /\ rootTasks[u] = <<>>
    <3>1. u \notin stale' => tasks[u] = status[u] \/ ~ Quiet(inbox, Showing(u))
      <4>1. u \notin stale' => ~ Overtaken(tasks, u)
        BY <1>2, <2>1
      <4> QED
        BY <1>1, <2>1, <4>1, NewsComeYet
    <3> QED
      BY <1>1, <1>3, <2>1, <3>1 DEF CardThen, Fits
  <2>2. CASE ~ (u \in DOMAIN tasks /\ rootTasks[u] = <<>>)
    <3>1. rootTasks'[u] = rootTasks[u] /\ CardFits(u)
      BY <1>1, <1>3, <2>2
    <3> QED
      BY <1>2, <3>1 DEF CardThen, CardFits
  <2> QED
    BY <2>1, <2>2
<1>5. stale' \in SUBSET Tasks
  BY <1>1, <1>2
<1> QED
  BY <1>1, <1>2, <1>3, <1>4, <1>5, AnswerTaken

\* A card that is added before its creation is handled is right, or hidden.
LEMMA TakeAddedKeeps ==
  ASSUME IInv, NEW answer \in answers, TakeAnswer(answer),
         TakeCreated(answer) \/ TakeRetried(answer)
  PROVE  IInv'
<1> DEFINE tasks == answer.tasks
<1>1. /\ tasks \in Lists /\ DOMAIN tasks \subseteq Tasks
      /\ stale \in SUBSET Tasks /\ hidden \in SUBSET Tasks
      /\ \A u \in DOMAIN tasks : /\ tasks[u] \in Shown /\ status[u] # "absent"
                                 /\ AnswerFits(answer, u)
      /\ \A u \in Tasks : CardFits(u)
  BY AnswerIs
<1>2. /\ rootTasks' = AppendTasks(tasks) /\ UNCHANGED stale /\ (ListTaken' => ListTaken)
      /\ hidden' \in SUBSET Tasks /\ hidden \subseteq hidden'
  BY <1>1, AnswerIs DEF TakeCreated, TakeRetried
<1>3. /\ rootTasks' \in [Tasks -> {<<>>} \cup {<<s>> : s \in Shown}]
      /\ \A u \in Tasks : rootTasks'[u] =
           IF u \in DOMAIN tasks /\ rootTasks[u] = <<>> THEN <<tasks[u]>> ELSE rootTasks[u]
  BY <1>1, <1>2, AppendTasksIs
<1>4. ASSUME NEW u \in Tasks PROVE CardThen(u)
  <2>1. CASE u \in DOMAIN tasks /\ rootTasks[u] = <<>>
    <3>1. CASE TakeRetried(answer)
      <4>1. u \in hidden'
        BY <2>1, <3>1 DEF TakeRetried
      <4> QED
        BY <1>1, <2>1, <4>1 DEF CardThen
    <3>2. CASE TakeCreated(answer)
      <4>1. /\ answer.kind = "created" /\ AnswerFits(answer, u) /\ CardFits(u) /\ status[u] # "absent"
            /\ rootTasks'[u] = <<tasks[u]>>
        BY <1>1, <1>3, <2>1, <3>2 DEF TakeCreated
      <4>2. ListTaken' /\ u \notin stale' \cup hidden' => ~ Quiet(inbox, Creating(u))
        BY <1>2, <2>1, <4>1 DEF CardFits
      <4>3. ~ Quiet(inbox, Creating(u)) /\ Quiet(inbox, Showing(u)) => Fits(tasks[u], u)
        BY <4>1 DEF AnswerFits, tasks
      <4> QED
        BY <4>1, <4>2, <4>3 DEF CardThen
    <3> QED
      BY <3>1, <3>2
  <2>2. CASE ~ (u \in DOMAIN tasks /\ rootTasks[u] = <<>>)
    <3>1. rootTasks'[u] = rootTasks[u] /\ CardFits(u)
      BY <1>1, <1>3, <2>2
    <3> QED
      BY <1>2, <3>1 DEF CardThen, CardFits
  <2> QED
    BY <2>1, <2>2
<1> QED
  BY <1>1, <1>2, <1>3, <1>4, AnswerTaken

LEMMA TakeAnswerKeeps ==
  ASSUME IInv, NEW answer \in answers, TakeAnswer(answer)
  PROVE  IInv'
<1>1. CASE TakeDeleted(answer)
  <2>1. /\ stale \in SUBSET Tasks /\ hidden \in SUBSET Tasks
        /\ \A u \in DOMAIN answer.tasks : u \in Tasks /\ answer.tasks[u] \in Shown /\ AnswerFits(answer, u)
        /\ \A u \in Tasks : CardFits(u)
        /\ ListTaken' => ListTaken
    BY <1>1, AnswerIs DEF TakeDeleted
  <2>2. PICK t \in DOMAIN answer.tasks : rootTasks' = UpdateTaskStatus(t, answer.tasks[t])
    BY <1>1 DEF TakeDeleted
  <2>3. answer.tasks[t] = "cancelled" /\ Fits("cancelled", t) /\ UNCHANGED <<hidden, stale>>
    BY <1>1, <2>1 DEF TakeDeleted, AnswerFits
  <2>4. /\ rootTasks' \in [Tasks -> {<<>>} \cup {<<s>> : s \in Shown}]
        /\ \A u \in Tasks : rootTasks'[u] =
             IF u = t /\ rootTasks[u] # <<>> THEN <<"cancelled">> ELSE rootTasks[u]
    BY <2>1, <2>2, <2>3, UpdateIs
  <2>5. ASSUME NEW u \in Tasks PROVE CardThen(u)
    BY <2>1, <2>3, <2>4 DEF CardThen, CardFits
  <2> QED
    BY <2>1, <2>3, <2>4, <2>5, AnswerTaken
<1> QED
  BY <1>1, TakeListKeeps, TakePageKeeps, TakeAddedKeeps DEF TakeAnswer

-----------------------------------------------------------------------------
(***************************************************************************)
(* The handlers of the browser's store.                                    *)
(***************************************************************************)
\* The browser follows a task, leaves it, or does neither.
Asks ==
  \/ \E t \in Tasks : Follow(t) \/ Unfollow(t)
  \/ UNCHANGED <<activeSubscriptions, outbox>>

RequestsKept ==
  /\ outbox' \in Seq(Request) /\ activeSubscriptions' \in SUBSET Tasks
  /\ link = "down" => outbox' = <<>>
  /\ Quiet(outbox', {SubscribeProject}) => Quiet(outbox, {SubscribeProject})
  /\ \A u \in Tasks : SubscriptionFits(u)'

LEMMA RequestsFit ==
  ASSUME IInv, UNCHANGED <<link, subscriptions>>, Asks
  PROVE  RequestsKept
<1>1. /\ outbox \in Seq(Request) /\ activeSubscriptions \in SUBSET Tasks
      /\ link \in {"up", "down"} /\ (link = "down" => outbox = <<>>)
      /\ \A u \in Tasks : SubscriptionFits(u)
  BY DEF IInv, TypeOK, MessagesOK, TaskOK
<1>2. ASSUME NEW request \in Request, Send(request), request # SubscribeProject,
             activeSubscriptions' \in SUBSET Tasks,
             \A u \in Tasks : IF request \in Asking(u)
                              THEN request.type = "subscribe" <=> u \in activeSubscriptions'
                              ELSE u \in activeSubscriptions' <=> u \in activeSubscriptions
      PROVE  RequestsKept
  <2>1. outbox' = IF link = "up" THEN Append(outbox, request) ELSE outbox
    BY <1>2 DEF Send
  <2>2. Append(outbox, request) = outbox \o <<request>> /\ Append(outbox, request) \in Seq(Request)
    BY <1>1, <1>2, AppendIsConcat
  <2>3. <<request>> \in Seq(Request)
    BY <1>2
  <2>4. Quiet(outbox \o <<request>>, {SubscribeProject}) => Quiet(outbox, {SubscribeProject})
    BY <1>1, <2>3, QuietConcat
  <2>5. \A u \in Tasks : SubscriptionFits(u)'
    BY <1>1, <1>2, <2>1, RequestSent
  <2> QED
    BY <1>1, <1>2, <2>1, <2>2, <2>4, <2>5 DEF RequestsKept
<1>3. ASSUME NEW t \in Tasks, Follow(t) PROVE RequestsKept
  <2>1. Subscribe({t}) \in Request /\ Subscribe({t}) # SubscribeProject
    BY DEF Request, Subscribe, SubscribeProject
  <2>2. \A u \in Tasks : Subscribe({t}) \in Asking(u) <=> u = t
    BY <2>1 DEF Asking, Subscribe
  <2>3. Send(Subscribe({t})) /\ activeSubscriptions' = activeSubscriptions \cup {t}
    BY <1>3 DEF Follow
  <2>4. Subscribe({t}).type = "subscribe"
    BY DEF Subscribe
  <2>5. \A u \in Tasks : IF Subscribe({t}) \in Asking(u)
                         THEN Subscribe({t}).type = "subscribe" <=> u \in activeSubscriptions'
                         ELSE u \in activeSubscriptions' <=> u \in activeSubscriptions
    BY <2>2, <2>3, <2>4
  <2>6. activeSubscriptions' \in SUBSET Tasks
    BY <1>1, <2>3
  <2> QED
    BY <1>2, <2>1, <2>3, <2>5, <2>6
<1>4. ASSUME NEW t \in Tasks, Unfollow(t) PROVE RequestsKept
  <2>1. Unsubscribe({t}) \in Request /\ Unsubscribe({t}) # SubscribeProject
    BY DEF Request, Unsubscribe, SubscribeProject
  <2>2. \A u \in Tasks : Unsubscribe({t}) \in Asking(u) <=> u = t
    BY <2>1 DEF Asking, Unsubscribe
  <2>3. Send(Unsubscribe({t})) /\ activeSubscriptions' = activeSubscriptions \ {t}
    BY <1>4 DEF Unfollow
  <2>4. Unsubscribe({t}).type # "subscribe"
    BY DEF Unsubscribe
  <2>5. \A u \in Tasks : IF Unsubscribe({t}) \in Asking(u)
                         THEN Unsubscribe({t}).type = "subscribe" <=> u \in activeSubscriptions'
                         ELSE u \in activeSubscriptions' <=> u \in activeSubscriptions
    BY <2>2, <2>3, <2>4
  <2>6. activeSubscriptions' \in SUBSET Tasks
    BY <1>1, <2>3
  <2> QED
    BY <1>2, <2>1, <2>3, <2>5, <2>6
<1>5. CASE UNCHANGED <<activeSubscriptions, outbox>>
  BY <1>1, <1>5 DEF RequestsKept, SubscriptionFits, Asking, Wanted, Request
<1> QED
  BY <1>3, <1>4, <1>5 DEF Asks

\* What the four handlers have in common.
LEMMA MessageKeeps ==
  ASSUME IInv, HandleWsMessage, Asks,
         rootTasks' \in [Tasks -> {<<>>} \cup {<<s>> : s \in Shown}],
         columnCounts' = Counted(columnCounts, Head(inbox)),
         seen' \in [Tasks -> Nat], stale' \in SUBSET Tasks,
         \A u \in Tasks :
           /\ rootTasks'[u] = Handled(Head(inbox), u, rootTasks[u])
           /\ u \notin stale' => u \notin stale \/ (Head(inbox) \in Showing(u) /\ rootTasks[u] # <<>>)
           /\ seen'[u] = IF Head(inbox) \in Telling(u) THEN Head(inbox).n ELSE seen[u]
  PROVE  IInv'
<1>1. /\ UNCHANGED <<storeVars, buffers, sent, subscriptions, link, breaks, selected, unbroken,
                     asked, answers, hidden>>
      /\ inbox # <<>> /\ inbox' = Tail(inbox)
  BY DEF HandleWsMessage, serverVars, httpVars
<1>2. inbox \in Seq(Message) /\ columnCounts \in Counts /\ sent \in [Tasks -> Nat]
      /\ \A u \in Tasks : TaskOK(u)
  BY DEF IInv, TypeOK, MessagesOK, Counts
<1>3. Head(inbox) \in Message /\ inbox' \in Seq(Message) /\ UNCHANGED <<status, shutdown>>
  BY <1>1, <1>2, TailIs DEF storeVars
<1>4. link = "up"
  BY <1>1 DEF IInv, TypeOK
<1>5. /\ outbox' \in Seq(Request) /\ activeSubscriptions' \in SUBSET Tasks
      /\ Quiet(outbox', {SubscribeProject}) => Quiet(outbox, {SubscribeProject})
      /\ \A u \in Tasks : SubscriptionFits(u)'
  BY <1>1, RequestsFit DEF RequestsKept
<1>6. TypeOK'
  <2>1. columnCounts' \in [Shown -> Nat]
    BY <1>2, <1>3, CountedIs DEF Counts
  <2>2. link' = "up"
    BY <1>1, <1>4
  <2> QED
    BY <1>1, <1>5, <2>1, <2>2, BackendStays DEF IInv, TypeOK
<1>7. MessagesOK'
  BY <1>1, <1>3, <1>5 DEF IInv, MessagesOK, Message, CreatedMessage, ChangedMessage,
     SnapshotMessage, EventMessage, Request, AnswerMessage, Lists
<1>8. ASSUME NEW u \in Tasks
      PROVE  InboxFits(u)' /\ CardFits(u)' /\ SeenFits(u)' /\ SubscriptionFits(u)'
  <2>1. InboxFits(u) /\ CardFits(u) /\ SeenFits(u)
    BY <1>2 DEF TaskOK
  <2>2. InboxFits(u)'
    BY <1>1, <1>2, <1>3, <2>1, InboxShrinks
  <2>3. CardFits(u)'
    BY <1>1, <1>2, <1>3, <2>1, CardHandled
  <2>4. SeenFits(u)'
    BY <1>1, <1>2, <2>1, SeenShrinks
  <2> QED
    BY <1>5, <2>2, <2>3, <2>4
<1>9. CountsFit'
  <2> SUFFICES ASSUME selected', Quiet(outbox', {SubscribeProject})
               PROVE  Leads(columnCounts', inbox', CountsOf(status'))
    BY <1>1 DEF CountsFit, SubscribeProject, Leads, CountsOf, Counted, Moved, Shown
  <2>1. Leads(columnCounts, inbox, CountsOf(status))
    BY <1>1, <1>4, <1>5 DEF IInv, CountsFit
  <2>2. Leads(Counted(columnCounts, Head(inbox)), Tail(inbox), CountsOf(status))
    BY <1>1, <1>2, <2>1, LeadsTail
  <2> QED
    BY <1>1, <1>3, <2>2
<1>10. unbroken' => link' = "up"
  BY <1>1, <1>4
<1> QED
  BY <1>1, <1>6, <1>7, <1>8, <1>9, <1>10, StepSuffices DEF StepKeeps

LEMMA CreatedKeeps ==
  ASSUME IInv, HandleWsMessage, Head(inbox) \in CreatedMessage
  PROVE  IInv'
<1> DEFINE m == Head(inbox)
<1>1. /\ HandleTaskCreated(m) /\ m.task \in Tasks /\ m.status \in Shown
      /\ m.type = "task_created"
  BY DEF HandleWsMessage, CreatedMessage, Shown, Store!Status
<1>2. /\ rootTasks \in [Tasks -> {<<>>} \cup {<<s>> : s \in Shown}]
      /\ seen \in [Tasks -> Nat] /\ stale \in SUBSET Tasks
  BY DEF IInv, TypeOK
<1>3. \A u \in Tasks : /\ m \in Creating(u) <=> u = m.task
                       /\ m \notin Listing(u) /\ m \notin Showing(u) /\ m \notin Telling(u)
  BY <1>1 DEF Creating, Listing, Showing, Telling, CreatedMessage, ChangedMessage, SnapshotMessage,
     EventMessage, EventType
<1> HIDE DEF m
<1>4. /\ rootTasks' = [rootTasks EXCEPT ![m.task] = IF @ = <<>> THEN <<m.status>> ELSE @]
      /\ columnCounts' = Counted(columnCounts, m)
      /\ UNCHANGED <<activeSubscriptions, outbox, seen, stale>>
  BY <1>1 DEF HandleTaskCreated, Counted
<1>5. \A u \in Tasks : rootTasks'[u] = Handled(m, u, rootTasks[u])
  BY <1>2, <1>3, <1>4 DEF Handled
<1>6. rootTasks' \in [Tasks -> {<<>>} \cup {<<s>> : s \in Shown}]
  BY <1>1, <1>2, <1>4
<1> QED
  BY <1>1, <1>2, <1>3, <1>4, <1>5, <1>6, MessageKeeps DEF m, Asks

LEMMA ChangedKeeps ==
  ASSUME IInv, HandleWsMessage, Head(inbox) \in ChangedMessage
  PROVE  IInv'
<1> DEFINE m == Head(inbox)
<1>1. /\ HandleTaskStatusChanged(m) /\ m.task \in Tasks /\ m.newStatus \in Shown
      /\ m.type = "task_status_changed"
  BY DEF HandleWsMessage, ChangedMessage
<1>2. /\ rootTasks \in [Tasks -> {<<>>} \cup {<<s>> : s \in Shown}]
      /\ seen \in [Tasks -> Nat] /\ stale \in SUBSET Tasks
  BY DEF IInv, TypeOK
<1>3. \A u \in Tasks : /\ m \in Showing(u) <=> u = m.task
                       /\ m \notin Listing(u) /\ m \notin Creating(u) /\ m \notin Telling(u)
  BY <1>1 DEF Creating, Listing, Showing, Telling, CreatedMessage, ChangedMessage, SnapshotMessage,
     EventMessage, EventType
<1>4. StatusShown(m) = m.newStatus
  BY <1>1 DEF StatusShown
<1> HIDE DEF m
<1>5. /\ rootTasks' = UpdateTaskStatus(m.task, m.newStatus)
      /\ columnCounts' = Counted(columnCounts, m)
      /\ stale' = IF rootTasks[m.task] = <<>> THEN stale ELSE stale \ {m.task}
      /\ UNCHANGED seen
      /\ Follow(m.task) \/ Unfollow(m.task) \/ UNCHANGED <<activeSubscriptions, outbox>>
  BY <1>1 DEF HandleTaskStatusChanged, Counted
<1>6. /\ rootTasks' \in [Tasks -> {<<>>} \cup {<<s>> : s \in Shown}]
      /\ \A u \in Tasks : rootTasks'[u] = IF u = m.task /\ rootTasks[u] # <<>>
                                          THEN <<m.newStatus>> ELSE rootTasks[u]
  BY <1>1, <1>5, UpdateIs
<1>7. \A u \in Tasks : rootTasks'[u] = Handled(m, u, rootTasks[u])
  BY <1>3, <1>4, <1>6 DEF Handled
<1>8. \A u \in Tasks : u \notin stale' => u \notin stale \/ (m \in Showing(u) /\ rootTasks[u] # <<>>)
  BY <1>3, <1>5
<1> QED
  BY <1>1, <1>2, <1>3, <1>5, <1>6, <1>7, <1>8, MessageKeeps DEF m, Asks

LEMMA SnapshotKeeps ==
  ASSUME IInv, HandleWsMessage, Head(inbox) \in SnapshotMessage
  PROVE  IInv'
<1> DEFINE m == Head(inbox)
<1>1. HandleProjectTasksSnapshot(m) /\ m.type = "project_tasks_snapshot" /\ m.tasks \in Lists
  BY DEF HandleWsMessage, SnapshotMessage
<1>2. /\ rootTasks \in [Tasks -> {<<>>} \cup {<<s>> : s \in Shown}]
      /\ seen \in [Tasks -> Nat] /\ stale \in SUBSET Tasks
  BY DEF IInv, TypeOK
<1>3. \A u \in Tasks : /\ m \in Listing(u) <=> u \in DOMAIN m.tasks
                       /\ m \notin Showing(u) /\ m \notin Creating(u) /\ m \notin Telling(u)
  BY <1>1 DEF Creating, Listing, Showing, Telling, CreatedMessage, ChangedMessage, SnapshotMessage,
     EventMessage, EventType
<1> HIDE DEF m
<1>4. /\ rootTasks' = AppendTasks(m.tasks) /\ columnCounts' = Counted(columnCounts, m)
      /\ UNCHANGED <<activeSubscriptions, outbox, seen, stale>>
  BY <1>1 DEF HandleProjectTasksSnapshot, Counted
<1>5. \A u \in DOMAIN m.tasks : m.tasks[u] \in Shown
  BY <1>1 DEF Lists
<1>6. /\ rootTasks' \in [Tasks -> {<<>>} \cup {<<s>> : s \in Shown}]
      /\ \A u \in Tasks : rootTasks'[u] = IF u \in DOMAIN m.tasks /\ rootTasks[u] = <<>>
                                          THEN <<m.tasks[u]>> ELSE rootTasks[u]
  BY <1>2, <1>4, <1>5 DEF AppendTasks
<1>7. \A u \in Tasks : rootTasks'[u] = Handled(m, u, rootTasks[u])
  BY <1>3, <1>6 DEF Handled
<1> QED
  BY <1>2, <1>3, <1>4, <1>6, <1>7, MessageKeeps DEF m, Asks

LEMMA EventKeeps ==
  ASSUME IInv, HandleWsMessage, Head(inbox) \in EventMessage
  PROVE  IInv'
<1> DEFINE m == Head(inbox)
<1>1. /\ HandleEvent(m) /\ m.task \in Tasks /\ m.type \in EventType /\ m.n \in Nat
      /\ m.type \notin {"task_created", "task_status_changed", "project_tasks_snapshot"}
  BY DEF HandleWsMessage, EventMessage, EventType
<1>2. /\ rootTasks \in [Tasks -> {<<>>} \cup {<<s>> : s \in Shown}]
      /\ seen \in [Tasks -> Nat] /\ stale \in SUBSET Tasks
  BY DEF IInv, TypeOK
<1>3. \A u \in Tasks : /\ m \in Showing(u) <=> u = m.task /\ m.type # "progress"
                       /\ m \in Telling(u) <=> u = m.task
                       /\ m \notin Listing(u) /\ m \notin Creating(u)
  BY <1>1 DEF Creating, Listing, Showing, Telling, CreatedMessage, ChangedMessage, SnapshotMessage,
     EventMessage, EventType
<1>4. StatusShown(m) = StatusOf(m.type)
  BY <1>1 DEF StatusShown
<1>5. m.type # "progress" => StatusOf(m.type) \in Shown
  BY <1>1 DEF StatusOf, EventType, Shown, Store!Status
<1> HIDE DEF m
<1>6. /\ seen' = [seen EXCEPT ![m.task] = m.n]
      /\ rootTasks' = IF m.type = "progress" THEN rootTasks
                      ELSE UpdateTaskStatus(m.task, StatusOf(m.type))
      /\ Unfollow(m.task) \/ UNCHANGED <<activeSubscriptions, outbox>>
      /\ UNCHANGED <<columnCounts, stale>>
  BY <1>1 DEF HandleEvent
<1>7. columnCounts' = Counted(columnCounts, m)
  BY <1>1, <1>6 DEF Counted
<1>8. /\ rootTasks' \in [Tasks -> {<<>>} \cup {<<s>> : s \in Shown}]
      /\ \A u \in Tasks :
           rootTasks'[u] = IF m.type # "progress" /\ u = m.task /\ rootTasks[u] # <<>>
                           THEN <<StatusOf(m.type)>> ELSE rootTasks[u]
  <2>1. CASE m.type = "progress"
    BY <1>2, <1>6, <2>1
  <2>2. CASE m.type # "progress"
    BY <1>1, <1>5, <1>6, <2>2, UpdateIs
  <2> QED
    BY <2>1, <2>2
<1>9. \A u \in Tasks : rootTasks'[u] = Handled(m, u, rootTasks[u])
  BY <1>3, <1>4, <1>8 DEF Handled
<1>10. /\ seen' \in [Tasks -> Nat]
       /\ \A u \in Tasks : seen'[u] = IF m \in Telling(u) THEN m.n ELSE seen[u]
  BY <1>1, <1>2, <1>3, <1>6
<1> QED
  BY <1>1, <1>2, <1>6, <1>7, <1>8, <1>9, <1>10, MessageKeeps DEF m, Asks

LEMMA HandleWsMessageKeeps ==
  ASSUME IInv, HandleWsMessage
  PROVE  IInv'
<1>1. Head(inbox) \in Message
  <2>1. inbox \in Seq(Message) /\ inbox # <<>>
    BY DEF IInv, MessagesOK, HandleWsMessage
  <2> QED
    BY <2>1, TailIs
<1> QED
  BY <1>1, CreatedKeeps, ChangedKeeps, SnapshotKeeps, EventKeeps DEF Message

-----------------------------------------------------------------------------
(***************************************************************************)
(* The inductive invariant holds.                                          *)
(***************************************************************************)
LEMMA InitIInv == Init => IInv
<1> SUFFICES ASSUME Init PROVE IInv
  OBVIOUS
<1>1. /\ Store!Init /\ buffers = [t \in Tasks |-> Empty] /\ sent = [t \in Tasks |-> 0]
      /\ subscriptions = {} /\ link = "down" /\ breaks = 0 /\ outbox = <<>> /\ inbox = <<>>
      /\ selected = FALSE /\ activeSubscriptions = {} /\ rootTasks = [t \in Tasks |-> <<>>]
      /\ hidden = {} /\ columnCounts = [s \in Shown |-> 0] /\ asked = {} /\ answers = {}
      /\ seen = [t \in Tasks |-> 0] /\ unbroken = FALSE /\ stale = {}
  BY DEF Init
<1>2. P!IInv
  <2>1. P!Init
    BY <1>1 DEF Store!Init, P!Init, Store!Live, P!Live
  <2> QED
    BY <2>1, SameTasks, P!InitIInv
<1>3. LatestInv
  BY LatestInit
<1>4. TypeOK
  <2>1. Store!TypeOK
    BY <1>2 DEF P!IInv, P!TypeOK, Store!TypeOK, P!Status, Store!Status, P!RunState, Store!RunState,
       P!Live, Store!Live
  <2>2. buffers \in [Tasks -> Ring] /\ sent \in [Tasks -> Nat]
    BY <1>3 DEF LatestInv, RingsOK, RingOf, Ring, Held
  <2>3. \A t \in Tasks : sent[t] <= MaxSent[t]
    BY <1>1, BoardSyncAssumption
  <2>4. breaks \in 0 .. MaxBreaks
    BY <1>1, BoardSyncAssumption
  <2> QED
    BY <1>1, <2>1, <2>2, <2>3, <2>4 DEF TypeOK
<1>5. inbox \in Seq(Message) /\ outbox \in Seq(Request) /\ DOMAIN inbox = {}
  BY <1>1, EmptyIs
<1>6. MessagesOK
  BY <1>1, <1>5 DEF MessagesOK
<1>7. ASSUME NEW t \in Tasks PROVE TaskOK(t)
  <2>1. NoEventsYet(t)
    BY <1>1 DEF NoEventsYet
  <2>2. RingFits(t)
    <3>1. buffers[t] = Empty /\ Empty \in RingOf(Held) /\ Empty.count = 0
      BY <1>1, EmptyRing DEF Held
    <3>2. DOMAIN GetAll(Empty) = 1 .. 0
      BY <3>1, GetAllOf
    <3> QED
      BY <3>1, <3>2 DEF RingFits, Ends
  <2>3. InboxFits(t) /\ SeenFits(t)
    BY <1>1, <1>5 DEF InboxFits, SeenFits, Quiet, Ends
  <2>4. CardFits(t)
    BY <1>1 DEF CardFits, ListTaken
  <2>5. SubscriptionFits(t)
    BY <1>1 DEF SubscriptionFits
  <2> QED
    BY <2>1, <2>2, <2>3, <2>4, <2>5 DEF TaskOK
<1>8. CountsFit
  BY <1>1 DEF CountsFit
<1> QED
  BY <1>1, <1>2, <1>3, <1>4, <1>6, <1>7, <1>8 DEF IInv

LEMMA StutterKeeps ==
  ASSUME IInv, UNCHANGED vars
  PROVE  IInv'
<1>1. UNCHANGED <<storeVars, buffers, sent, subscriptions, link, breaks, outbox, inbox, selected,
                  unbroken, asked, answers, activeSubscriptions, rootTasks, hidden, columnCounts, seen, stale>>
  BY DEF vars, serverVars, httpVars, viewVars
<1>2. TypeOK'
  BY <1>1, BackendStays DEF IInv, TypeOK
<1>3. MessagesOK'
  BY <1>1 DEF IInv, MessagesOK, Message, CreatedMessage, ChangedMessage, SnapshotMessage,
     EventMessage, Request, AnswerMessage, Lists
<1>4. ASSUME NEW u \in Tasks
      PROVE  InboxFits(u)' /\ CardFits(u)' /\ SeenFits(u)' /\ SubscriptionFits(u)'
  <2>0. ListTaken' => ListTaken
    BY <1>1 DEF ListTaken
  <2>1. InboxFits(u)' /\ CardFits(u)' /\ SeenFits(u)'
    BY <1>1, <2>0, InboxUnchanged, CardUnchanged, SeenUnchanged
  <2>2. SubscriptionFits(u)
    BY DEF IInv, TaskOK
  <2>3. SubscriptionFits(u)'
    BY <1>1, <2>2 DEF SubscriptionFits, Asking, Wanted, Request
  <2> QED
    BY <2>1, <2>3
<1>5. CountsFit'
  BY <1>1, CountsUnchanged
<1>6. unbroken' => link' = "up"
  BY <1>1 DEF IInv
<1> QED
  BY <1>1, <1>2, <1>3, <1>4, <1>5, <1>6, StepSuffices DEF StepKeeps

LEMMA NextIInv == IInv /\ [Next]_vars => IInv'
<1> SUFFICES ASSUME IInv, [Next]_vars PROVE IInv'
  OBVIOUS
<1>1. LatestInv'
  BY LatestNext DEF IInv
<1>2. ASSUME NEW t \in Tasks,
             \/ CreateTodoTask(t) \/ ApproveTask(t) \/ RejectTask(t) \/ AskApproval(t)
      PROVE  IInv'
  BY <1>1, <1>2, QuietOperationsKeep
<1>3. ASSUME NEW t \in Tasks, CreateTask(t) \/ RetryTask(t) \/ ExecuteTask(t) PROVE IInv'
  BY <1>1, <1>3, EnqueueKeeps
<1>4. ASSUME NEW t \in Tasks, CancelTask(t) PROVE IInv'
  BY <1>1, <1>4, CancelKeeps
<1>5. ASSUME NEW t \in Tasks,
             RunSucceeds(t) \/ RunUnsuccessful(t) \/ RunFails(t) \/ StartRejected(t)
      PROVE  IInv'
  BY <1>1, <1>5, EndsKeep
<1>6. ASSUME NEW t \in Tasks, Progress(t) PROVE IInv'
  BY <1>1, <1>6, ProgressKeeps
<1>7. CASE HandleRequest
  BY <1>7, HandleRequestKeeps
<1>8. CASE Connect \/ Disconnect
  BY <1>8, ConnectKeeps, DisconnectKeeps
<1>9. CASE SelectProject
  BY <1>9, SelectProjectKeeps
<1>10. ASSUME NEW kind \in ListKind, AnswerList(kind) PROVE IInv'
  BY <1>10, AnswerListKeeps
<1>11. ASSUME NEW answer \in answers, TakeAnswer(answer) PROVE IInv'
  BY <1>11, TakeAnswerKeeps
<1>12. CASE HandleWsMessage
  BY <1>12, HandleWsMessageKeeps
<1>13. CASE UNCHANGED vars
  BY <1>13, StutterKeeps
<1>14. ASSUME NEW column \in Column, LoadMore(column) PROVE IInv'
  BY <1>14, LoadMoreKeeps
<1> QED
  BY <1>2, <1>3, <1>4, <1>5, <1>6, <1>7, <1>8, <1>9, <1>10, <1>11, <1>12, <1>13, <1>14 DEF Next

LEMMA Invariance == Spec => []IInv
BY InitIInv, NextIInv, PTL DEF Spec

-----------------------------------------------------------------------------
(***************************************************************************)
(* The variables keep their types: with them, no count falls below zero    *)
(* and no request or message outlives the connection it was sent on.       *)
(***************************************************************************)
THEOREM TypeCorrect == Spec => []TypeOK
<1>1. IInv => TypeOK
  BY DEF IInv
<1> QED
  BY <1>1, Invariance, PTL

(***************************************************************************)
(* A client that subscribes late is told the latest messages about the     *)
(* task, all of them if they fit, in their order: messageBuffer.ts under   *)
(* any sequence of broadcasts (wsServer.ts), for every size of the ring.   *)
(***************************************************************************)
THEOREM RingsKeepTheLatest == Spec => []BuffersHoldTheLatest
<1>1. LatestInv => BuffersHoldTheLatest
  BY LatestIsHeld
<1> QED
  BY <1>1, LatestInit, LatestNext, PTL DEF Spec

(***************************************************************************)
(* Nothing is missed for good: when everything is delivered, the server's  *)
(* subscriptions (wsServer.ts) are the browser's (useWebSocket.ts), and    *)
(* the browser has handled the latest event of each of these tasks, after  *)
(* any race of subscriptions, cancellations and broken connections.        *)
(***************************************************************************)
THEOREM NothingIsMissed == Spec => []CaughtUp
<1>1. ASSUME IInv, Delivered PROVE subscriptions = activeSubscriptions
                                   /\ \A t \in activeSubscriptions : seen[t] = sent[t]
  <2>1. DOMAIN inbox = {} /\ DOMAIN outbox = {} /\ link = "up"
    BY <1>1 DEF Delivered
  <2>2. subscriptions \in SUBSET Tasks /\ activeSubscriptions \in SUBSET Tasks
    BY <1>1 DEF IInv, TypeOK
  <2>3. ASSUME NEW t \in Tasks
        PROVE  /\ t \in subscriptions <=> t \in activeSubscriptions
               /\ t \in subscriptions => seen[t] = sent[t]
    BY <1>1, <2>1 DEF IInv, TaskOK, SubscriptionFits, SeenFits, Quiet
  <2> QED
    BY <2>2, <2>3
<1>2. IInv => CaughtUp
  BY <1>1 DEF CaughtUp
<1> QED
  BY <1>2, Invariance, PTL

(***************************************************************************)
(* The board is right: when everything is delivered on a connection that   *)
(* held, each task has its one card with its status (orchestratorStore.ts  *)
(* under the messages of broadcastManager.ts and wsServer.ts, the replays  *)
(* of the rings, the lists of the HTTP routes and the answers to the user, *)
(* who creates, retries and cancels tasks from this browser), apart from   *)
(* the three exceptions that the property names.                           *)
(***************************************************************************)
THEOREM BoardShowsTheTasks == Spec => []BoardIsRight
<1>1. ASSUME IInv, Delivered, Loaded, NEW t \in Tasks \ (stale \cup hidden)
      PROVE  ShowsStatus(t)
  <2>1. DOMAIN inbox = {} /\ ListTaken /\ CardFits(t)
    BY <1>1 DEF Delivered, Loaded, ListTaken, IInv, TaskOK
  <2>2. /\ rootTasks[t] # <<>> <=> status[t] # "absent"
        /\ rootTasks[t] # <<>> => Fits(rootTasks[t][1], t)
    BY <1>1, <2>1 DEF CardFits, Quiet
  <2>3. rootTasks[t] = <<>> \/ \E s \in Shown : rootTasks[t] = <<s>>
    BY <1>1 DEF IInv, TypeOK
  <2>4. CASE rootTasks[t] = <<>>
    BY <2>2, <2>4 DEF ShowsStatus
  <2>5. CASE rootTasks[t] # <<>>
    <3>1. PICK s \in Shown : rootTasks[t] = <<s>>
      BY <2>3, <2>5
    <3>2. status[t] # "absent" /\ Fits(s, t) /\ Len(<<s>>) = 1
      BY <2>2, <2>5, <3>1
    <3>3. <<s>> \in {<<>>, <<status[t]>>} \/ status[t] = "cancelled" \/ t \in shutdown
      BY <3>2 DEF Fits
    <3> QED
      BY <3>1, <3>2, <3>3 DEF ShowsStatus
  <2> QED
    BY <2>4, <2>5
<1>2. IInv => BoardIsRight
  BY <1>1 DEF BoardIsRight
<1> QED
  BY <1>2, Invariance, PTL

(***************************************************************************)
(* The counts above the columns never drift: the increments and decrements *)
(* of orchestratorStore.ts and the snapshots of wsServer.ts leave them at  *)
(* the number of tasks with each status, whatever came between them.       *)
(***************************************************************************)
THEOREM CountsDoNotDrift == Spec => []CountsAreRight
<1>1. ASSUME IInv, Delivered, selected, NEW s \in Shown PROVE columnCounts[s] = Count(s)
  <2>1. DOMAIN outbox = {} /\ link = "up" /\ inbox = <<>> /\ Len(<<>>) = 0
    BY <1>1 DEF Delivered
  <2>2. Leads(columnCounts, <<>>, CountsOf(status))
    BY <1>1, <2>1 DEF IInv, CountsFit, Quiet
  <2>3. columnCounts = CountsOf(status)
    BY <2>1, <2>2 DEF Leads
  <2> QED
    BY <2>3 DEF CountsOf, Count
<1>2. IInv => CountsAreRight
  BY <1>1 DEF CountsAreRight
<1> QED
  BY <1>2, Invariance, PTL
=============================================================================
