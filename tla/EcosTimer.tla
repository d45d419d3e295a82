----------------------------- MODULE EcosTimer ------------------------------
(***************************************************************************)
(* 041_ecos_mib/apps/ecos/ecos_timer.c as it is written: a doubly linked   *)
(* list of malloc'ed nodes between a head and a tail pointer, handles      *)
(* chosen by searching the list, and a pass that keeps a pointer into the  *)
(* list across the callbacks it makes, which may themselves add, delete,   *)
(* set, suspend and resume timers.                                         *)
(*                                                                         *)
(* A node is an address of Addr; live is the set of allocated ones.  The   *)
(* fields of a node that is not live keep their last value and mean        *)
(* nothing: malloc may hand any address out again.  ord and added are      *)
(* history: ord[a] numbers the adds and no operation reads it.             *)
(***************************************************************************)
EXTENDS TimerBase, FiniteSets, Sequences, SequencesExt

CONSTANT Addr               \* addresses malloc can return

ASSUME AddrAssumption == NULL \notin Addr /\ IsFiniteSet(Addr)

VARIABLES
    live,               \* allocated nodes
    hnd, body,          \* the fields of a node ...
    prev, next,         \* ... and its links
    head, tail,         \* s_p_ecos_timer_function_list_head and _tail
    uptime,             \* the clock, sysinfo().uptime
    s_current_uptime,   \* the clock as read when the pass began
    s_p_timer,          \* the node the pass is at
    pc,                 \* "idle", "scan" or "callback"
    ord, added          \* history: the number of each add

nodes == <<live, hnd, body, ord, added>>
links == <<prev, next, head, tail>>
pass == <<s_current_uptime, s_p_timer, pc>>
vars == <<nodes, links, uptime, pass>>

TypeOK ==
    /\ live \subseteq Addr
    /\ hnd \in [Addr -> Handle]
    /\ body \in [Addr -> Body]
    /\ prev \in [Addr -> Addr \cup {NULL}]
    /\ next \in [Addr -> Addr \cup {NULL}]
    /\ head \in Addr \cup {NULL}
    /\ tail \in Addr \cup {NULL}
    /\ uptime \in Nat
    /\ s_current_uptime \in Nat
    /\ s_p_timer \in Addr \cup {NULL}
    /\ pc \in {"idle", "scan", "callback"}
    /\ ord \in [Addr -> Nat]
    /\ added \in Nat

-----------------------------------------------------------------------------
\* The walk of get_timerlist_ptr_by_handle along next, abstracted to the set of
\* nodes it passes (that these are the live ones is WalkIsList).
Find(h) == {a \in live : hnd[a] = h}

UsedHandles == {hnd[a] : a \in live}

ApiMayRun == pc \in {"idle", "callback"}

Init ==
    /\ live = {}
    /\ hnd = [a \in Addr |-> HANDLE_BEGIN]
    /\ body = [a \in Addr |-> Armed(NULL, 0, 0, 0)]
    /\ prev = [a \in Addr |-> NULL]
    /\ next = [a \in Addr |-> NULL]
    /\ head = NULL
    /\ tail = NULL
    /\ uptime = 0
    /\ s_current_uptime = 0
    /\ s_p_timer = NULL
    /\ pc = "idle"
    /\ ord = [a \in Addr |-> 0]
    /\ added = 0

Tick ==
    /\ uptime < MaxUptime
    /\ uptime' = uptime + 1
    /\ UNCHANGED <<nodes, links, pass>>

\* Mutant of LinkAtTail: the new node goes to the front of the list.
LinkAtHead(a) ==
    /\ next' = [next EXCEPT ![a] = head]
    /\ prev' = IF head = NULL
               THEN [prev EXCEPT ![a] = NULL]
               ELSE [prev EXCEPT ![a] = NULL, ![head] = a]
    /\ tail' = IF head = NULL THEN a ELSE tail
    /\ head' = a

\* Append node a: the new tail, and the new head of an empty list.
LinkAtTail(a) ==
    /\ prev' = [prev EXCEPT ![a] = tail]
    /\ next' = IF tail = NULL
               THEN [next EXCEPT ![a] = NULL]
               ELSE [next EXCEPT ![a] = NULL, ![tail] = a]
    /\ head' = IF tail = NULL THEN a ELSE head
    /\ tail' = a

\* ecos_timer_function_add.  When every handle is taken it fails and changes
\* nothing.
Add(f, i, c) ==
    /\ ApiMayRun
    /\ added < MaxAdd
    /\ \E a \in Addr \ live, h \in Handle :
        /\ IsLowestFree(h, UsedHandles)
        /\ live' = live \cup {a}
        /\ hnd' = [hnd EXCEPT ![a] = h]
        /\ body' = [body EXCEPT ![a] = Armed(f, i, c, uptime)]
        /\ ord' = [ord EXCEPT ![a] = added + 1]
        /\ LinkAtTail(a)
    /\ added' = added + 1
    /\ UNCHANGED <<uptime, pass>>

\* The four cases of ecos_timer_function_del, in the order it tests them.
UnlinkOnly ==
    /\ head' = NULL
    /\ tail' = NULL
    /\ UNCHANGED <<prev, next>>

UnlinkHead(a) ==
    /\ head' = next[a]
    /\ prev' = [prev EXCEPT ![next[a]] = NULL]
    /\ UNCHANGED <<next, tail>>

\* Mutant of UnlinkTail: the new tail keeps its link to the freed node.
UnlinkTailKeepsNext(a) ==
    /\ tail' = prev[a]
    /\ UNCHANGED <<prev, next, head>>

UnlinkTail(a) ==
    /\ tail' = prev[a]
    /\ next' = [next EXCEPT ![prev[a]] = NULL]
    /\ UNCHANGED <<prev, head>>

UnlinkMiddle(a) ==
    /\ next' = [next EXCEPT ![prev[a]] = next[a]]
    /\ prev' = [prev EXCEPT ![next[a]] = prev[a]]
    /\ UNCHANGED <<head, tail>>

Unlink(a) ==
    \/ /\ head = tail
       /\ UnlinkOnly
    \/ /\ head # tail
       /\ a = head
       /\ UnlinkHead(a)
    \/ /\ head # tail
       /\ a # head
       /\ a = tail
       /\ UnlinkTail(a)
    \/ /\ head # tail
       /\ a # head
       /\ a # tail
       /\ UnlinkMiddle(a)

\* Mutant of CallerKeeps: a callback may delete its own timer.
CallerMayDelete(a) == FALSE

\* The pass reads the next field of the timer it called after the call, so a
\* callback must not delete its own timer (no callback of the repository does).
\* That is an assumption on callers, and the only one.
CallerKeeps(a) == pc = "callback" /\ a = s_p_timer

Del(h) ==
    /\ ApiMayRun
    /\ \E a \in Find(h) :
        /\ ~CallerKeeps(a)
        /\ Unlink(a)
        /\ live' = live \ {a}
    /\ UNCHANGED <<hnd, body, ord, added, uptime, pass>>

\* Mutant of Set: setting a timer also ends its suspension.
SetResumes(h, f, i, c) ==
    /\ ApiMayRun
    /\ \E a \in Find(h) : body' = [body EXCEPT ![a] = Armed(f, i, c, uptime)]
    /\ UNCHANGED <<live, hnd, ord, added, links, uptime, pass>>

Set(h, f, i, c) ==
    /\ ApiMayRun
    /\ \E a \in Find(h) :
        body' = [body EXCEPT ![a] = Rearmed(@, f, i, c, uptime)]
    /\ UNCHANGED <<live, hnd, ord, added, links, uptime, pass>>

Suspend(h) ==
    /\ ApiMayRun
    /\ \E a \in Find(h) : body' = [body EXCEPT ![a] = Suspended(@)]
    /\ UNCHANGED <<live, hnd, ord, added, links, uptime, pass>>

Resume(h) ==
    /\ ApiMayRun
    /\ \E a \in Find(h) : body' = [body EXCEPT ![a] = Resumed(@, uptime)]
    /\ UNCHANGED <<live, hnd, ord, added, links, uptime, pass>>

\* ecos_timer_function_free deletes the tail until there is none.
Free ==
    /\ pc = "idle"
    /\ live' = {}
    /\ next' = [a \in Addr |-> IF a \in live THEN NULL ELSE next[a]]
    /\ head' = NULL
    /\ tail' = NULL
    /\ UNCHANGED <<hnd, body, ord, added, prev, uptime, pass>>

-----------------------------------------------------------------------------
\* Mutant of LoopBegin: the pass does not read the clock again.
LoopBeginStale ==
    /\ pc = "idle"
    /\ s_p_timer' = head
    /\ pc' = "scan"
    /\ UNCHANGED <<nodes, links, uptime, s_current_uptime>>

\* ecos_timer_function_loop.
LoopBegin ==
    /\ pc = "idle"
    /\ s_current_uptime' = uptime
    /\ s_p_timer' = head
    /\ pc' = "scan"
    /\ UNCHANGED <<nodes, links, uptime>>

LoopCall ==
    /\ pc = "scan"
    /\ s_p_timer # NULL
    /\ Due(body[s_p_timer], s_current_uptime)
    /\ body' = [body EXCEPT ![s_p_timer] = Ran(@, s_current_uptime)]
    /\ pc' = "callback"
    /\ UNCHANGED <<live, hnd, ord, added, links, uptime, s_current_uptime, s_p_timer>>

\* Mutant of LoopNext: after a callback the pass starts again from the head.
LoopNextFromHead ==
    /\ \/ /\ pc = "scan"
          /\ s_p_timer # NULL
          /\ ~Due(body[s_p_timer], s_current_uptime)
          /\ s_p_timer' = next[s_p_timer]
       \/ pc = "callback" /\ s_p_timer' = head
    /\ pc' = "scan"
    /\ UNCHANGED <<nodes, links, uptime, s_current_uptime>>

LoopNext ==
    /\ \/ /\ pc = "scan"
          /\ s_p_timer # NULL
          /\ ~Due(body[s_p_timer], s_current_uptime)
       \/ pc = "callback"           \* the callback returned
    /\ s_p_timer' = next[s_p_timer]
    /\ pc' = "scan"
    /\ UNCHANGED <<nodes, links, uptime, s_current_uptime>>

LoopEnd ==
    /\ pc = "scan"
    /\ s_p_timer = NULL
    /\ pc' = "idle"
    /\ UNCHANGED <<nodes, links, uptime, s_current_uptime, s_p_timer>>

Loop == LoopBegin \/ LoopCall \/ LoopNext \/ LoopEnd

Api ==
    \/ \E f \in Func \cup {NULL}, i \in Interval, c \in Count :
        Add(f, i, c) \/ \E h \in Handle : Set(h, f, i, c)
    \/ \E h \in Handle : Del(h) \/ Suspend(h) \/ Resume(h)
    \/ Free

Next == Tick \/ Api \/ Loop

\* The main loop of ecos_main.c calls the pass forever and callbacks return.
Spec == Init /\ [][Next]_vars /\ WF_vars(Loop)
-----------------------------------------------------------------------------
\* Two timers never share a handle, through any sequence of adds and deletes, so
\* the first match get_timerlist_ptr_by_handle returns is the only one.
HandlesDistinct == \A a, b \in live : hnd[a] = hnd[b] => a = b

\* The list is exactly the live nodes in the order they were added: head is the
\* oldest, tail the newest, next[a] the first one added after a and prev[a] the
\* last one added before it.  Every unlinking case of ecos_timer_function_del
\* and the linking of ecos_timer_function_add keep it so.
ListInOrder ==
    /\ head = NULL <=> live = {}
    /\ tail = NULL <=> live = {}
    /\ head # NULL => head \in live /\ \A a \in live : ord[head] <= ord[a]
    /\ tail # NULL => tail \in live /\ \A a \in live : ord[a] <= ord[tail]
    /\ \A a \in live :
        /\ next[a] = NULL <=> a = tail
        /\ prev[a] = NULL <=> a = head
        /\ next[a] # NULL =>
            /\ next[a] \in live
            /\ prev[next[a]] = a
            /\ ord[a] < ord[next[a]]
            /\ \A b \in live : ord[b] <= ord[a] \/ ord[next[a]] <= ord[b]
        /\ prev[a] # NULL => prev[a] \in live /\ next[prev[a]] = a

\* Walk(link, a) is the sequence of nodes met from a along link; it is cut off
\* at one more than the number of addresses, which only a cycle can reach.
Walk(link, a) ==
    LET path[n \in 0 .. Cardinality(Addr) + 1] ==
            IF n = 0 THEN <<>>
            ELSE LET p == path[n - 1]
                     q == IF p = <<>> THEN a ELSE link[Last(p)]
                 IN  IF q = NULL \/ Len(p) < n - 1 THEN p ELSE Append(p, q)
    IN  path[Cardinality(Addr) + 1]

\* From head along next, get_timerlist_ptr_by_handle, ecos_timer_function_loop
\* and ecos_timer_function_show meet every allocated timer once, and from tail
\* along prev they would meet the same timers in reverse: no timer is leaked.
WalkIsList ==
    LET fwd == Walk(next, head)
    IN  /\ ToSet(fwd) = live
        /\ Len(fwd) = Cardinality(live)
        /\ Walk(prev, tail) = Reverse(fwd)

\* The pointer the pass keeps across a callback is never left dangling, whatever
\* other timers the callback adds or deletes.
PassOnList ==
    /\ pc = "idle" => s_p_timer = NULL
    /\ pc = "scan" => s_p_timer \in live \cup {NULL}
    /\ pc = "callback" => s_p_timer \in live

\* A pass only moves to timers added later than the one it leaves, so it calls
\* no timer twice, even when callbacks delete timers and malloc hands their
\* nodes out again.
PassMovesForward ==
    [][(pc # "idle" /\ s_p_timer' # s_p_timer /\ s_p_timer' # NULL)
            => ord[s_p_timer] < ord'[s_p_timer']]_vars

-----------------------------------------------------------------------------
\* The map the list stands for.
AbsTimers ==
    [h \in UsedHandles |->
        LET a == CHOOSE b \in Find(h) : TRUE
        IN  [body |-> body[a], ord |-> ord[a]]]

AbsCursor == IF s_p_timer = NULL THEN NULL ELSE hnd[s_p_timer]

TS == INSTANCE TimerService WITH timers <- AbsTimers, cursor <- AbsCursor

\* The linked list implements the map of TimerService: every operation and every
\* step of the pass does to the list what TimerService does to the map.
ImplementsTimerService == TS!Spec

\* The service keeps its promise: a timer that falls due is called in the end, or
\* its owner sets, suspends or deletes it, whatever callbacks do to the list while
\* ecos_timer_function_loop walks it.
DueIsCalled == TS!DueIsCalled
=============================================================================
