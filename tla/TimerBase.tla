----------------------------- MODULE TimerBase ------------------------------
(***************************************************************************)
(* The data of ecos_timer.c (041_ecos_mib/apps/ecos): handles, the fields  *)
(* of ecos_timer_function_list_t that callers set and the pass reads, and  *)
(* what each operation does to them.  The description and p_args, which    *)
(* nothing tests, are left out.                                            *)
(***************************************************************************)
EXTENDS Integers

CONSTANTS
    Func,           \* timer functions (ecos_fn_timer_function)
    NULL,           \* the null pointer
    HANDLE_BEGIN,   \* ECOS_TIMER_FUNCTION_HANDLE_BEGIN
    MAX_TIMER_NUM,  \* ECOS_TIMER_FUNCTION_MAX_TIMER_NUM
    Interval,       \* the intervals callers ask for, in seconds
    Count,          \* the counts callers ask for
    MaxUptime,      \* bound: last second of the clock
    MaxAdd          \* bound: number of successful adds

COUNT_FOREVER == -1         \* ECOS_TIMER_FUNCTION_COUNT_FOREVER, ~0

ASSUME TimerConstants ==
    /\ NULL \notin Func
    /\ HANDLE_BEGIN \in Nat
    /\ MAX_TIMER_NUM \in Nat \ {0}
    /\ NULL \notin Int
    /\ Interval \subseteq Nat
    /\ Count \subseteq Nat \cup {COUNT_FOREVER}
    /\ MaxUptime \in Nat
    /\ MaxAdd \in Nat

Handle == HANDLE_BEGIN .. (HANDLE_BEGIN + MAX_TIMER_NUM - 1)

Body == [func      : Func \cup {NULL},
         interval  : Nat,
         count     : Nat \cup {COUNT_FOREVER},
         last_time : Nat,
         suspend   : BOOLEAN]

-----------------------------------------------------------------------------
Armed(f, i, c, t) ==
    [func |-> f, interval |-> i, count |-> c, last_time |-> t, suspend |-> FALSE]

\* The condition under which a pass that read the clock at t runs a timer.
Due(b, t) ==
    /\ ~b.suspend
    /\ b.func # NULL
    /\ b.interval > 0
    /\ b.count # 0
    /\ t >= b.last_time + b.interval

\* Mutant of Ran: the count is decremented without the test for COUNT_FOREVER.
RanCountsForever(b, t) == [b EXCEPT !.last_time = t, !.count = @ - 1]

\* What the pass writes to the timer before it calls the function.
Ran(b, t) ==
    [b EXCEPT !.last_time = t,
              !.count = IF @ = COUNT_FOREVER THEN @ ELSE @ - 1]

Rearmed(b, f, i, c, t) ==
    [b EXCEPT !.func = f, !.interval = i, !.count = c, !.last_time = t]

Suspended(b) == [b EXCEPT !.suspend = TRUE]

Resumed(b, t) == [b EXCEPT !.suspend = FALSE, !.last_time = t]

\* Mutant of IsLowestFree: the highest handle in use instead of the one after it.
IsHighestUsed(h, used) ==
    /\ \A k \in used : k <= h
    /\ \A j \in Handle : (\A k \in used : k <= j) => h <= j

\* The lowest handle not in use is what a new timer gets.
IsLowestFree(h, used) == h \notin used /\ \A k \in Handle \ used : h <= k
=============================================================================
