---------------------------- MODULE SkynetAlarm ----------------------------
(***************************************************************************)
(* What skynet_timer.c promises the services that call skynet_timeout: an  *)
(* event asked for after d ticks is delivered once, after exactly d ticks, *)
(* and events that fall due on one tick are delivered in the order in      *)
(* which they were asked for.  SkynetTimer implements this with a timing   *)
(* wheel.                                                                  *)
(***************************************************************************)
EXTENDS Naturals, Sequences, SequencesExt, SkynetOrder

CONSTANTS
    Event,      \* the timeouts services ask for
    Delay       \* the numbers of ticks they ask for

VARIABLES
    asked,      \* the events not delivered yet, in the order they were asked for
    left        \* event -> ticks left, when it is among them

vars == <<asked, left>>

Init == asked = <<>> /\ left = [e \in Event |-> 0]

Ask(e, d) ==
    /\ e \notin ToSet(asked)
    /\ asked' = Append(asked, e)
    /\ left' = [left EXCEPT ![e] = d]

\* A tick passes only when nothing is due any more.
Tick ==
    /\ \A e \in ToSet(asked) : left[e] > 0
    /\ left' = [e \in Event |-> IF e \in ToSet(asked) THEN left[e] - 1 ELSE 0]
    /\ UNCHANGED asked

IsFirstDue(e) ==
    \E i \in 1 .. Len(asked) :
        /\ asked[i] = e
        /\ left[e] = 0
        /\ \A j \in 1 .. i - 1 : left[asked[j]] > 0

Deliver(e) ==
    /\ IsFirstDue(e)
    /\ asked' = Among(asked, Event \ {e})
    /\ UNCHANGED left

Next == Tick \/ \E e \in Event : Deliver(e) \/ \E d \in Delay : Ask(e, d)

Spec == Init /\ [][Next]_vars
=============================================================================
