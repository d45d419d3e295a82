---------------------------- MODULE SkynetTimer -----------------------------
(***************************************************************************)
(* The timing wheel of skynet_timer.c: TIME_NEAR lists for the ticks of    *)
(* the present block, and four levels of TIME_LEVEL lists for later ones,  *)
(* which are dealt out to the lists below when the time reaches them.  The *)
(* width of the time is that of the wheel, 8 + 4 * 6 = 32 bits in the      *)
(* code, so the time wraps around; the shifts are constants here.          *)
(*                                                                         *)
(* timer_update runs in the timer thread.  It holds the wheel's lock       *)
(* except while it delivers a list it has taken off the wheel, and any     *)
(* service may ask for a timeout meanwhile.                                *)
(***************************************************************************)
EXTENDS Integers, Sequences, SequencesExt, SkynetOrder

CONSTANTS
    NEAR_SHIFT, LEVEL_SHIFT,    \* TIME_NEAR_SHIFT and TIME_LEVEL_SHIFT
    Event,                      \* a handle and session that wait for a timeout
    MaxDiff                     \* bound: centiseconds between two looks at the clock

TIME_NEAR == 2 ^ NEAR_SHIFT
TIME_LEVEL == 2 ^ LEVEL_SHIFT

\* The shifts are positive, so both powers are above 1.
ASSUME TimerAssumption ==
    /\ NEAR_SHIFT \in Nat \ {0} /\ LEVEL_SHIFT \in Nat \ {0} /\ MaxDiff \in Nat \ {0}
    /\ {TIME_NEAR, TIME_LEVEL} \subseteq Nat \ {0, 1}

Level == 0 .. 3

\* Ticks a list of level i stands for: mask, shifted i times.
Span(i) ==
    LET mask == <<TIME_NEAR,
                  TIME_NEAR * TIME_LEVEL,
                  TIME_NEAR * TIME_LEVEL * TIME_LEVEL,
                  TIME_NEAR * TIME_LEVEL * TIME_LEVEL * TIME_LEVEL,
                  TIME_NEAR * TIME_LEVEL * TIME_LEVEL * TIME_LEVEL * TIME_LEVEL>>
    IN  mask[i + 1]

Word == Span(4)                             \* 2^32 in the code

\* time is a positive int, which ends at half of what an unsigned one holds.
Delay == 1 .. Word \div 2 - 1

VARIABLES
    near,       \* TI->near
    t,          \* TI->t
    time,       \* TI->time
    lock,       \* the timer thread holds TI->lock
    expire,     \* event -> node->expire
    diff,       \* timer_updates skynet_updatetime has still to make
    pc,         \* the timer_execute timer_update is in: before or after the shift
    list,       \* the list dispatch_list is delivering
    asked       \* history: undelivered events in the order they were asked for

vars == <<near, t, time, lock, expire, diff, pc, list, asked>>

Pending == ToSet(asked)

TypeOK ==
    /\ near \in [0 .. TIME_NEAR - 1 -> Seq(Event)]
    /\ t \in [Level -> [0 .. TIME_LEVEL - 1 -> Seq(Event)]]
    /\ time \in 0 .. Word - 1
    /\ lock \in BOOLEAN
    /\ expire \in [Event -> 0 .. Word - 1]
    /\ diff \in 0 .. MaxDiff
    /\ pc \in {"idle", "before", "after"}
    /\ list \in Seq(Event) /\ asked \in Seq(Event)

Init ==
    /\ near = [i \in 0 .. TIME_NEAR - 1 |-> <<>>]
    /\ t = [l \in Level |-> [i \in 0 .. TIME_LEVEL - 1 |-> <<>>]]
    /\ time = 0
    /\ lock = FALSE
    /\ expire = [e \in Event |-> 0]
    /\ diff = 0
    /\ pc = "idle" /\ list = <<>> /\ asked = <<>>

-----------------------------------------------------------------------------
(* The wheel as a value [near, t]; now is the time it is looked at. *)

\* The digit of x that level l looks at.
Idx(x, l) == (x \div Span(l)) % TIME_LEVEL

\* x and now agree in every digit at or above level l.
SameBlock(x, now, l) == x \div Span(l) = now \div Span(l)

\* Mutant of LevelOf: the last level is never chosen.
LevelOfShort(x, now) ==
    CHOOSE l \in 0 .. 2 :
        /\ l = 2 \/ SameBlock(x, now, l + 1)
        /\ \A k \in 0 .. l - 1 : ~SameBlock(x, now, k + 1)

\* The highest level in whose digit x and now differ.
LevelOf(x, now) ==
    CHOOSE l \in Level :
        /\ l = 3 \/ SameBlock(x, now, l + 1)
        /\ \A k \in 0 .. l - 1 : ~SameBlock(x, now, k + 1)

\* A node that expires at x goes to near[j], or to t[l][j].
InNear(x, now, j) == SameBlock(x, now, 0) /\ x % TIME_NEAR = j
InLevel(x, now, l, j) == ~SameBlock(x, now, 0) /\ LevelOf(x, now) = l /\ Idx(x, l) = j

add_node(w, e, x, now) ==
    [near |-> [j \in DOMAIN w.near |->
                 IF InNear(x, now, j) THEN Append(w.near[j], e) ELSE w.near[j]],
     t |-> [l \in Level |-> [j \in DOMAIN w.t[l] |->
                 IF InLevel(x, now, l, j) THEN Append(w.t[l][j], e) ELSE w.t[l][j]]]]

\* Every node of the list moved goes to the end of the list add_node chooses for
\* it, in the order of moved.
Deal(w, moved, now) ==
    [near |-> [j \in DOMAIN w.near |->
                 w.near[j] \o Among(moved, {e \in Event : InNear(expire[e], now, j)})],
     t |-> [l \in Level |-> [j \in DOMAIN w.t[l] |->
                 w.t[l][j] \o Among(moved, {e \in Event : InLevel(expire[e], now, l, j)})]]]

\* Mutant of move_list: the list is dealt out from its end.
move_list_reversed(w, l, i, now) == Deal([w EXCEPT !.t[l][i] = <<>>], Reverse(w.t[l][i]), now)

move_list(w, l, i, now) == Deal([w EXCEPT !.t[l][i] = <<>>], w.t[l][i], now)

\* Mutant of timer_shift: the wrap of the time is not a case of its own.
timer_shift_nowrap(w, ct) ==
    IF ct % TIME_NEAR # 0 \/ ct = 0 THEN w
    ELSE LET l == CHOOSE k \in Level : Idx(ct, k) # 0 /\ \A j \in 0 .. k - 1 : Idx(ct, j) = 0
         IN  move_list(w, l, Idx(ct, l), ct)

\* When the time ct starts a block, the list of the lowest level with a digit
\* other than 0 is dealt out: the lists 0 of the levels below are not used.
timer_shift(w, ct) ==
    IF ct = 0 THEN move_list(w, 3, 0, ct)
    ELSE IF ct % TIME_NEAR # 0 THEN w
    ELSE LET l == CHOOSE k \in Level : Idx(ct, k) # 0 /\ \A j \in 0 .. k - 1 : Idx(ct, j) = 0
         IN  move_list(w, l, Idx(ct, l), ct)

Wheel == [near |-> near, t |-> t]
SetWheel(w) == near' = w.near /\ t' = w.t

-----------------------------------------------------------------------------
(* A service asks for a timeout of d ticks; skynet_timeout answers one of 0 *)
(* or less at once, without the wheel.                                     *)

skynet_timeout(e, d) ==
    /\ ~lock /\ e \notin Pending
    /\ expire' = [expire EXCEPT ![e] = (time + d) % Word]
    /\ SetWheel(add_node(Wheel, e, expire'[e], time))
    /\ asked' = Append(asked, e)
    /\ UNCHANGED <<time, lock, diff, pc, list>>

(* The timer thread. *)

\* The clock has moved on by d, and timer_update is called that often.
skynet_updatetime ==
    /\ pc = "idle" /\ diff = 0
    /\ \E d \in 1 .. MaxDiff : diff' = d
    /\ UNCHANGED <<near, t, time, lock, expire, pc, list, asked>>

UpdateBegin ==
    /\ pc = "idle" /\ diff > 0
    /\ pc' = "before" /\ lock' = TRUE
    /\ UNCHANGED <<near, t, time, expire, diff, list, asked>>

Due == near[time % TIME_NEAR]

timer_execute ==
    /\ pc # "idle" /\ lock /\ Due # <<>>
    /\ list' = Due /\ near' = [near EXCEPT ![time % TIME_NEAR] = <<>>]
    /\ lock' = FALSE
    /\ UNCHANGED <<t, time, expire, diff, pc, asked>>

dispatch_list ==
    /\ list # <<>>
    /\ list' = Tail(list)
    /\ asked' = Among(asked, Event \ {Head(list)})
    /\ expire' = [expire EXCEPT ![Head(list)] = 0]      \* the node is freed
    /\ UNCHANGED <<near, t, time, lock, diff, pc>>

Relock ==
    /\ pc # "idle" /\ ~lock /\ list = <<>>
    /\ lock' = TRUE
    /\ UNCHANGED <<near, t, time, expire, diff, pc, list, asked>>

UpdateShift ==
    /\ pc = "before" /\ lock /\ Due = <<>>
    /\ time' = (time + 1) % Word
    /\ SetWheel(timer_shift(Wheel, time'))
    /\ pc' = "after"
    /\ UNCHANGED <<lock, expire, diff, list, asked>>

UpdateEnd ==
    /\ pc = "after" /\ lock /\ Due = <<>>
    /\ pc' = "idle" /\ lock' = FALSE /\ diff' = diff - 1
    /\ UNCHANGED <<near, t, time, expire, list, asked>>

TimerThread ==
    \/ skynet_updatetime \/ UpdateBegin \/ timer_execute
    \/ dispatch_list \/ Relock \/ UpdateShift \/ UpdateEnd

Next == TimerThread \/ \E e \in Event, d \in Delay : skynet_timeout(e, d)

\* The timer thread calls skynet_updatetime every 2.5 milliseconds until the
\* program stops, and the clock it reads moves on.
Spec == Init /\ [][Next]_vars /\ WF_vars(TimerThread)

-----------------------------------------------------------------------------
(* Where the nodes are *)

InWheel(e) ==
    [near |-> {i \in DOMAIN near : e \in ToSet(near[i])},
     t |-> {p \in Level \X (0 .. TIME_LEVEL - 1) : e \in ToSet(t[p[1]][p[2]])}]

Place(e) ==
    IF SameBlock(expire[e], time, 0)
    THEN [near |-> {expire[e] % TIME_NEAR}, t |-> {}]
    ELSE [near |-> {}, t |-> {<<LevelOf(expire[e], time), Idx(expire[e], LevelOf(expire[e], time))>>}]

\* Every event that waits is in the one list add_node would choose for it now,
\* whenever it was asked for: timer_shift deals out a list exactly when the
\* time reaches the block it stands for, also when the time wraps around.
NodesInPlace ==
    \A e \in Event :
        InWheel(e) = IF e \in Pending \ ToSet(list) THEN Place(e) ELSE [near |-> {}, t |-> {}]

\* Each service gets its timeout: timer_update reaches every list.
TimeoutFires == \A e \in Event : (e \in Pending) ~> (e \notin Pending)

Alarm == INSTANCE SkynetAlarm WITH
    left <- [e \in Event |->
               IF e \notin Pending \/ e \in ToSet(list) THEN 0 ELSE (expire[e] - time) % Word]

\* The wheel delivers every timeout on its tick and, for one tick, in the order
\* they were asked for, whatever levels they went through.
ImplementsAlarm == Alarm!Spec
=============================================================================
