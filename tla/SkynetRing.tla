----------------------------- MODULE SkynetRing -----------------------------
(***************************************************************************)
(* The ring buffer of a message_queue (skynet_mq.c) as a value.  Head and  *)
(* tail are equal when it is empty; a push that makes them equal doubles   *)
(* the buffer.  A cell that has been read is set to NoMessage here, where  *)
(* the code leaves the old message.                                        *)
(***************************************************************************)
EXTENDS Naturals, Sequences

CONSTANTS
    DEFAULT_QUEUE_SIZE,
    NoMessage

ASSUME RingAssumption == DEFAULT_QUEUE_SIZE \in Nat \ {0}

EmptyRing ==
    [cap |-> DEFAULT_QUEUE_SIZE, head |-> 0, tail |-> 0,
     queue |-> [i \in 0 .. DEFAULT_QUEUE_SIZE - 1 |-> NoMessage]]

RingLength(r) == IF r.head <= r.tail THEN r.tail - r.head ELSE r.tail + r.cap - r.head

\* Mutant of expand_queue: the cells are copied where they are.
expand_in_place(r) ==
    [cap |-> 2 * r.cap, head |-> 0, tail |-> r.cap,
     queue |-> [i \in 0 .. 2 * r.cap - 1 |-> IF i < r.cap THEN r.queue[i] ELSE NoMessage]]

expand_queue(r) ==
    [cap |-> 2 * r.cap, head |-> 0, tail |-> r.cap,
     queue |-> [i \in 0 .. 2 * r.cap - 1 |->
                  IF i < r.cap THEN r.queue[(r.head + i) % r.cap] ELSE NoMessage]]

RingPush(r, m) ==
    LET s == [r EXCEPT !.queue[r.tail] = m,
                       !.tail = IF r.tail + 1 >= r.cap THEN 0 ELSE r.tail + 1]
    IN  IF s.head = s.tail THEN expand_queue(s) ELSE s

RingHead(r) == r.queue[r.head]

RingPop(r) ==
    [r EXCEPT !.queue[r.head] = NoMessage,
              !.head = IF r.head + 1 >= r.cap THEN 0 ELSE r.head + 1]

\* The messages, oldest first.
Contents(r) == [i \in 1 .. RingLength(r) |-> r.queue[(r.head + i - 1) % r.cap]]
=============================================================================
