---------------------------- MODULE SkynetHandle ----------------------------
(***************************************************************************)
(* The handle storage of skynet_handle.c as a value: a table of slots that *)
(* a handle's low bits index, doubled when it is full, and the next handle *)
(* to try.  A context is named by the handle it is given; known is the set *)
(* of contexts whose field handle has been set, which the launching thread *)
(* does only after skynet_handle_register has returned.  The harbor's bits *)
(* of a handle are left out.                                               *)
(***************************************************************************)
EXTENDS Naturals

CONSTANTS
    DEFAULT_SLOT_SIZE,
    HANDLE_MASK         \* the largest handle

ASSUME HandleAssumption == DEFAULT_SLOT_SIZE \in Nat \ {0} /\ HANDLE_MASK \in Nat \ {0}

EmptyStorage ==
    [size |-> DEFAULT_SLOT_SIZE, index |-> 1,
     slot |-> [i \in 0 .. DEFAULT_SLOT_SIZE - 1 |-> 0], clash |-> FALSE]

skynet_context_handle(c, known) == IF c \in known THEN c ELSE 0

Contexts(s) == {s.slot[i] : i \in DOMAIN s.slot} \ {0}

\* What skynet_handle_grab and skynet_handle_retire look for.
Found(s, h, known) == h \in known /\ s.slot[h % s.size] = h

\* The i-th handle that is tried: after HANDLE_MASK comes 1.
Candidate(s, i) ==
    IF s.index + i > HANDLE_MASK THEN s.index + i - HANDLE_MASK ELSE s.index + i

IsFree(s, i) == s.slot[Candidate(s, i) % s.size] = 0
HasFree(s) == \E i \in 0 .. s.size - 1 : IsFree(s, i)

\* The table of twice the size.  assert(new_slot[hash] == NULL) ends the program
\* before the new table is in place: clash is set and the old one stays.
expand(s, known) ==
    LET hash(c) == skynet_context_handle(c, known) % (2 * s.size)
        at(i) == {c \in Contexts(s) : hash(c) = i}
    IN  IF \E c, d \in Contexts(s) : c # d /\ hash(c) = hash(d)
        THEN [s EXCEPT !.clash = TRUE]
        ELSE [s EXCEPT !.size = 2 * s.size,
                       !.slot = [i \in 0 .. 2 * s.size - 1 |->
                                   IF at(i) = {} THEN 0 ELSE CHOOSE c \in at(i) : TRUE]]

\* A full table is doubled first.
WithRoom(s, known) == IF HasFree(s) THEN s ELSE expand(s, known)

\* h is the first candidate whose slot is empty.
IsNextHandle(s, h) ==
    \E i \in 0 .. s.size - 1 :
        h = Candidate(s, i) /\ IsFree(s, i) /\ \A j \in 0 .. i - 1 : ~IsFree(s, j)

skynet_handle_register(s, h) == [s EXCEPT !.slot[h % s.size] = h, !.index = h + 1]

Retired(s, h) == [s EXCEPT !.slot[h % s.size] = 0]
=============================================================================
