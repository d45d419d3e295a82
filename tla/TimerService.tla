---------------------------- MODULE TimerService ----------------------------
(***************************************************************************)
(* What ecos_timer.c (041_ecos_mib/apps/ecos) promises its callers, with   *)
(* no list and no pointers: a finite map from timer handles to timer       *)
(* records, and a pass (ecos_timer_function_loop) that goes through the    *)
(* timers in the order in which they were added.                           *)
(*                                                                         *)
(* The program is single threaded ("for apps what do not use               *)
(* multi-threading", ecos_timer.h), so API calls happen either between two *)
(* passes (pc = "idle") or inside the callback a pass is running           *)
(* (pc = "callback"); only the clock runs on its own.                      *)
(***************************************************************************)
EXTENDS TimerBase

VARIABLES
    timers,             \* registered timers: handle -> [body, ord]
    uptime,             \* the clock, sysinfo().uptime
    s_current_uptime,   \* the clock as read when the pass began
    cursor,             \* handle of the timer the pass is at, or NULL
    pc,                 \* "idle", "scan" or "callback"
    added               \* successful adds so far: the ord of the newest timer

vars == <<timers, uptime, s_current_uptime, cursor, pc, added>>

TypeOK ==
    /\ \E H \in SUBSET Handle : timers \in [H -> [body : Body, ord : Nat]]
    /\ uptime \in Nat
    /\ s_current_uptime \in Nat
    /\ cursor \in Handle \cup {NULL}
    /\ pc \in {"idle", "scan", "callback"}
    /\ added \in Nat

-----------------------------------------------------------------------------
\* h is the first timer of m added after number n; NULL when there is none.
IsNextAfter(h, n, m) ==
    \/ /\ h \in DOMAIN m
       /\ m[h].ord > n
       /\ \A k \in DOMAIN m : m[k].ord > n => m[h].ord <= m[k].ord
    \/ /\ h = NULL
       /\ \A k \in DOMAIN m : m[k].ord <= n

ApiMayRun == pc \in {"idle", "callback"}

WithBody(h, b) == [timers EXCEPT ![h].body = b]

-----------------------------------------------------------------------------
Init ==
    /\ timers = [h \in {} |-> NULL]
    /\ uptime = 0
    /\ s_current_uptime = 0
    /\ cursor = NULL
    /\ pc = "idle"
    /\ added = 0

Tick ==
    /\ uptime < MaxUptime
    /\ uptime' = uptime + 1
    /\ UNCHANGED <<timers, s_current_uptime, cursor, pc, added>>

Add(f, i, c) ==
    /\ ApiMayRun
    /\ added < MaxAdd
    /\ \E h \in Handle :
        /\ IsLowestFree(h, DOMAIN timers)
        /\ timers' = [k \in DOMAIN timers \cup {h} |->
                        IF k = h
                        THEN [body |-> Armed(f, i, c, uptime), ord |-> added + 1]
                        ELSE timers[k]]
    /\ added' = added + 1
    /\ UNCHANGED <<uptime, s_current_uptime, cursor, pc>>

\* A callback may delete any timer but the one it is the callback of.
Del(h) ==
    /\ ApiMayRun
    /\ h \in DOMAIN timers
    /\ pc = "callback" => h # cursor
    /\ timers' = [k \in DOMAIN timers \ {h} |-> timers[k]]
    /\ UNCHANGED <<uptime, s_current_uptime, cursor, pc, added>>

Set(h, f, i, c) ==
    /\ ApiMayRun
    /\ h \in DOMAIN timers
    /\ timers' = WithBody(h, Rearmed(timers[h].body, f, i, c, uptime))
    /\ UNCHANGED <<uptime, s_current_uptime, cursor, pc, added>>

Suspend(h) ==
    /\ ApiMayRun
    /\ h \in DOMAIN timers
    /\ timers' = WithBody(h, Suspended(timers[h].body))
    /\ UNCHANGED <<uptime, s_current_uptime, cursor, pc, added>>

Resume(h) ==
    /\ ApiMayRun
    /\ h \in DOMAIN timers
    /\ timers' = WithBody(h, Resumed(timers[h].body, uptime))
    /\ UNCHANGED <<uptime, s_current_uptime, cursor, pc, added>>

Free ==
    /\ pc = "idle"
    /\ timers' = [h \in {} |-> NULL]
    /\ UNCHANGED <<uptime, s_current_uptime, cursor, pc, added>>

-----------------------------------------------------------------------------
\* ecos_timer_function_loop: one pass.
LoopBegin ==
    /\ pc = "idle"
    /\ pc' = "scan"
    /\ s_current_uptime' = uptime
    /\ \E h \in Handle \cup {NULL} : IsNextAfter(h, 0, timers) /\ cursor' = h
    /\ UNCHANGED <<timers, uptime, added>>

LoopCall ==
    /\ pc = "scan"
    /\ cursor # NULL
    /\ Due(timers[cursor].body, s_current_uptime)
    /\ timers' = WithBody(cursor, Ran(timers[cursor].body, s_current_uptime))
    /\ pc' = "callback"
    /\ UNCHANGED <<uptime, s_current_uptime, cursor, added>>

LoopNext ==
    /\ \/ /\ pc = "scan"
          /\ cursor # NULL
          /\ ~Due(timers[cursor].body, s_current_uptime)
       \/ pc = "callback"           \* the callback returned
    /\ pc' = "scan"
    /\ \E h \in Handle \cup {NULL} :
        IsNextAfter(h, timers[cursor].ord, timers) /\ cursor' = h
    /\ UNCHANGED <<timers, uptime, s_current_uptime, added>>

LoopEnd ==
    /\ pc = "scan"
    /\ cursor = NULL
    /\ pc' = "idle"
    /\ UNCHANGED <<timers, uptime, s_current_uptime, cursor, added>>

Loop == LoopBegin \/ LoopCall \/ LoopNext \/ LoopEnd

Api ==
    \/ \E f \in Func \cup {NULL}, i \in Interval, c \in Count :
        Add(f, i, c) \/ \E h \in Handle : Set(h, f, i, c)
    \/ \E h \in Handle : Del(h) \/ Suspend(h) \/ Resume(h)
    \/ Free

Next == Tick \/ Api \/ Loop

Safety == Init /\ [][Next]_vars

Spec == Safety /\ WF_vars(Loop)

-----------------------------------------------------------------------------
\* A timer that is due is, sooner or later, called or made not due by its owner
\* (set, suspended or deleted), whatever callbacks do in the meantime: the while
\* loop of ecos_timer_function_loop reaches every timer in every pass.
DueIsCalled ==
    \A h \in Handle :
        (h \in DOMAIN timers /\ Due(timers[h].body, uptime))
            ~> \/ pc = "callback" /\ cursor = h
               \/ h \notin DOMAIN timers
               \/ ~Due(timers[h].body, uptime)
=============================================================================
