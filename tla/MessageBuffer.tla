---------------------------- MODULE MessageBuffer ----------------------------
(***************************************************************************)
(* MessageBuffer: the ring of the latest messages about a task, which the  *)
(* WebSocket server replays to a client that subscribes late.              *)
(***************************************************************************)
EXTENDS Integers, Sequences

CONSTANTS
  MaxSize,    \* how many messages a ring keeps
  NoMessage   \* what an unused place of the array holds

ASSUME MaxSizeAssumption == MaxSize \in Nat \ {0}

Places == 0 .. MaxSize - 1

Empty == [buffer |-> [i \in Places |-> NoMessage], head |-> 0, count |-> 0]

\* Faulty variant: the oldest message is overwritten, and is still
\* taken for the oldest.
PushKeepingHead(ring, message) ==
  LET index == (ring.head + ring.count) % MaxSize
  IN  IF ring.count < MaxSize
      THEN [ring EXCEPT !.buffer[index] = message, !.count = @ + 1]
      ELSE [ring EXCEPT !.buffer[ring.head] = message]

Push(ring, message) ==
  LET index == (ring.head + ring.count) % MaxSize
  IN  IF ring.count < MaxSize
      THEN [ring EXCEPT !.buffer[index] = message, !.count = @ + 1]
      ELSE [ring EXCEPT !.buffer[ring.head] = message, !.head = (@ + 1) % MaxSize]

GetAll(ring) ==
  [i \in 1 .. ring.count |-> ring.buffer[(ring.head + i - 1) % MaxSize]]
=============================================================================
