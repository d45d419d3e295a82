---------------------------- MODULE SkynetServer ----------------------------
(***************************************************************************)
(* How skynet runs services: skynet_context_message_dispatch and the       *)
(* launching, killing and sending that callbacks do (skynet_server.c), the *)
(* two levels of queues (skynet_mq.c), the handle storage                  *)
(* (skynet_handle.c), and the worker and timer threads (skynet_start.c).   *)
(*                                                                         *)
(* A step of a thread is one section under a lock or one atomic operation. *)
(* A thread has a program counter, the return points of the calls it is in *)
(* and its local variables.  A service is named by its handle; its queue   *)
(* and its context have lives of their own.  What a callback does is any   *)
(* sequence of sends, kills and launches.  Logging (skynet_error), names,  *)
(* other harbors and the overload warning are left out.                    *)
(***************************************************************************)
EXTENDS Integers, FiniteSets, SequencesExt, SkynetRing, SkynetHandle

CONSTANTS
    Worker, Timer,      \* the threads
    Weight,             \* worker -> the weight start gives it
    First,              \* the services running at the start, none other alive
    MaxHandle,          \* bound: the last handle that is given
    MaxMessage          \* bound: the messages sent, errors aside

ASSUME ServerAssumption ==
    /\ IsFiniteSet(Worker) /\ Timer \notin Worker
    /\ Weight \in [Worker -> -1 .. 3]
    /\ MaxHandle \in Nat /\ MaxMessage \in Nat
    /\ First \subseteq 1 .. MaxHandle /\ \E h \in First : \A g \in First : g <= h
    /\ \A g, h \in First : g % DEFAULT_SLOT_SIZE = h % DEFAULT_SLOT_SIZE => g = h

Thread == Worker \cup {Timer}
Handle == 1 .. MaxHandle

VARIABLES
    H,          \* the handle storage
    known,      \* contexts whose handle is set
    ref,        \* context -> ctx->ref, 0 when it is freed or not yet made
    mq,         \* handle -> its message_queue
    gq,         \* the global queue
    total,      \* G_NODE.total
    sleep,      \* m->sleep
    quit,       \* m->quit
    sent,       \* messages sent so far; the last one's session
    th          \* thread -> program counter, return points and locals

vars == <<H, known, ref, mq, gq, total, sleep, quit, sent, th>>

Message == [src : {0} \cup Handle, session : 1 .. MaxMessage, err : BOOLEAN]
None == [src |-> 0, session |-> 0, err |-> FALSE]

NewQueue == [ring |-> EmptyRing, in_global |-> TRUE, release |-> FALSE, freed |-> FALSE]
NoQueue == [NewQueue EXCEPT !.freed = TRUE]
\* The queue of a service that has handled a message and waits for the next.
UsedQueue == [NewQueue EXCEPT !.ring = RingPop(RingPush(@, None)), !.in_global = FALSE]

\* q: the queue a worker has; ctx: the context it dispatches; left: how many
\* messages more, this one included; obj, msg: the context and message of the
\* call it is in; new: the service it launches; dq: the queue it releases.
Idle(at) == [pc |-> at, stk |-> <<>>, q |-> 0, ctx |-> 0, left |-> 0,
             obj |-> 0, msg |-> None, new |-> 0, dq |-> 0]

Init ==
    /\ H = [EmptyStorage EXCEPT
              !.slot = [i \in DOMAIN @ |->
                          IF \E h \in First : h % DEFAULT_SLOT_SIZE = i
                          THEN CHOOSE h \in First : h % DEFAULT_SLOT_SIZE = i ELSE 0],
              !.index = 1 + CHOOSE h \in First : \A g \in First : g <= h]
    /\ known = First
    /\ ref = [h \in Handle |-> IF h \in First THEN 1 ELSE 0]
    /\ mq = [h \in Handle |-> IF h \in First THEN UsedQueue ELSE NoQueue]
    /\ gq = <<>>
    /\ total = Cardinality(First)
    /\ sleep = 0 /\ quit = FALSE /\ sent = 0
    /\ th = [t \in Thread |-> Idle(IF t = Timer THEN "update" ELSE "top")]

-----------------------------------------------------------------------------
(* Thread control *)

At(t, pc) == th[t].pc = pc
Set(t, r) == th' = [th EXCEPT ![t] = r]
Goto(t, pc) == th' = [th EXCEPT ![t].pc = pc]
Call(r, pc, back) == [r EXCEPT !.pc = pc, !.stk = <<back>> \o @]
Return(r) == [r EXCEPT !.pc = Head(r.stk), !.stk = Tail(r.stk), !.obj = 0, !.msg = None]

\* skynet_send to dest, which comes back to back; skynet_context_release of c.
SendCall(r, dest, m, back) == [Call(r, "grab_dest", back) EXCEPT !.obj = dest, !.msg = m]
ReleaseCall(r, c, back) == [Call(r, "release", back) EXCEPT !.obj = c]

ServerState == <<H, known, ref, mq, gq, total, sleep, quit, sent>>

-----------------------------------------------------------------------------
(* skynet_send and skynet_context_push: grab, push, release *)

\* Mutant of GrabDest: the context is used without a reference.
GrabDestUncounted(t) ==
    /\ At(t, "grab_dest")
    /\ IF Found(H, th[t].obj, known) THEN Goto(t, "push") ELSE Set(t, Return(th[t]))
    /\ UNCHANGED ServerState

GrabDest(t) ==
    /\ At(t, "grab_dest")
    /\ IF Found(H, th[t].obj, known)
       THEN /\ ref' = [ref EXCEPT ![th[t].obj] = @ + 1]
            /\ Goto(t, "push")
       ELSE /\ Set(t, Return(th[t]))
            /\ UNCHANGED ref
    /\ UNCHANGED <<H, known, mq, gq, total, sleep, quit, sent>>

skynet_mq_push(t) ==
    /\ At(t, "push")
    /\ LET h == th[t].obj IN
       /\ mq' = [mq EXCEPT ![h].ring = RingPush(@, th[t].msg), ![h].in_global = TRUE]
       /\ gq' = IF mq[h].in_global THEN gq ELSE Append(gq, h)
    /\ Goto(t, "release")
    /\ UNCHANGED <<H, known, ref, total, sleep, quit, sent>>

skynet_context_release(t) ==
    /\ At(t, "release")
    /\ LET c == th[t].obj IN
       /\ ref' = [ref EXCEPT ![c] = @ - 1]
       /\ IF ref[c] = 1 THEN Goto(t, "mark") ELSE Set(t, Return(th[t]))
    /\ UNCHANGED <<H, known, mq, gq, total, sleep, quit, sent>>

\* delete_context, up to the end of skynet_mq_mark_release.
skynet_mq_mark_release(t) ==
    /\ At(t, "mark")
    /\ LET h == th[t].obj IN
       /\ mq' = [mq EXCEPT ![h].release = TRUE]
       /\ gq' = IF mq[h].in_global THEN gq ELSE Append(gq, h)
    /\ Goto(t, "dec")
    /\ UNCHANGED <<H, known, ref, total, sleep, quit, sent>>

context_dec(t) ==
    /\ At(t, "dec")
    /\ total' = total - 1
    /\ Set(t, Return(th[t]))
    /\ UNCHANGED <<H, known, ref, mq, gq, sleep, quit, sent>>

-----------------------------------------------------------------------------
(* skynet_mq_release: drop the messages of a service that is gone *)

\* Mutant of skynet_mq_release: a queue not marked yet is not put back.
mq_release_lost(t) ==
    /\ At(t, "mq_release")
    /\ IF mq[th[t].dq].release THEN Goto(t, "drop") ELSE Set(t, [Return(th[t]) EXCEPT !.dq = 0])
    /\ UNCHANGED ServerState

skynet_mq_release(t) ==
    /\ At(t, "mq_release")
    /\ LET h == th[t].dq IN
       IF mq[h].release
       THEN Goto(t, "drop") /\ UNCHANGED gq
       ELSE gq' = Append(gq, h) /\ Set(t, [Return(th[t]) EXCEPT !.dq = 0])
    /\ UNCHANGED <<H, known, ref, mq, total, sleep, quit, sent>>

\* Its source is told; a message of the timer thread has none.
drop_message(t) ==
    /\ At(t, "drop")
    /\ LET h == th[t].dq
           m == RingHead(mq[h].ring)
       IN  /\ RingLength(mq[h].ring) > 0
           /\ mq' = [mq EXCEPT ![h].ring = RingPop(@)]
           /\ IF m.src = 0 THEN UNCHANGED th
              ELSE Set(t, SendCall(th[t], m.src, [m EXCEPT !.src = h, !.err = TRUE], "drop"))
    /\ UNCHANGED <<H, known, ref, gq, total, sleep, quit, sent>>

DropEnd(t) ==
    /\ At(t, "drop")
    /\ RingLength(mq[th[t].dq].ring) = 0
    /\ mq' = [mq EXCEPT ![th[t].dq] = NoQueue]
    /\ Set(t, [Return(th[t]) EXCEPT !.dq = 0])
    /\ UNCHANGED <<H, known, ref, gq, total, sleep, quit, sent>>

-----------------------------------------------------------------------------
(* thread_worker and skynet_context_message_dispatch *)

\* while (!m->quit), and where a dispatch begins.
Loop(w) ==
    /\ At(w, "top")
    /\ Goto(w, IF quit THEN "done" ELSE IF th[w].q = 0 THEN "pop" ELSE "grab")
    /\ UNCHANGED ServerState

\* skynet_globalmq_pop when the worker has no queue.
PopFirst(w) ==
    /\ At(w, "pop")
    /\ IF gq = <<>>
       THEN Goto(w, "sleep") /\ UNCHANGED gq
       ELSE gq' = Tail(gq) /\ Set(w, [th[w] EXCEPT !.pc = "grab", !.q = Head(gq)])
    /\ UNCHANGED <<H, known, ref, mq, total, sleep, quit, sent>>

\* return skynet_globalmq_pop(), after a queue has been emptied or released.
PopNext(w) ==
    /\ At(w, "repop")
    /\ IF gq = <<>>
       THEN Goto(w, "sleep") /\ UNCHANGED gq
       ELSE gq' = Tail(gq) /\ Set(w, [th[w] EXCEPT !.pc = "top", !.q = Head(gq)])
    /\ UNCHANGED <<H, known, ref, mq, total, sleep, quit, sent>>

skynet_handle_grab(w) ==
    /\ At(w, "grab")
    /\ LET h == th[w].q IN
       IF Found(H, h, known)
       THEN /\ ref' = [ref EXCEPT ![h] = @ + 1]
            /\ Set(w, [th[w] EXCEPT !.pc = "first", !.ctx = h, !.left = 1])
       ELSE /\ Set(w, [Call(th[w], "mq_release", "repop") EXCEPT !.q = 0, !.dq = h])
            /\ UNCHANGED ref
    /\ UNCHANGED <<H, known, mq, gq, total, sleep, quit, sent>>

\* Mutant of PopEmpty: in_global is left set.
PopEmptyStays(w) ==
    /\ th[w].pc \in {"first", "next"}
    /\ RingLength(mq[th[w].q].ring) = 0
    /\ Set(w, [ReleaseCall(th[w], th[w].ctx, "repop") EXCEPT !.q = 0, !.ctx = 0, !.left = 0])
    /\ UNCHANGED ServerState

\* skynet_mq_pop finds no message: the queue leaves the worker.
PopEmpty(w) ==
    /\ th[w].pc \in {"first", "next"}
    /\ RingLength(mq[th[w].q].ring) = 0
    /\ mq' = [mq EXCEPT ![th[w].q].in_global = FALSE]
    /\ Set(w, [ReleaseCall(th[w], th[w].ctx, "repop") EXCEPT !.q = 0, !.ctx = 0, !.left = 0])
    /\ UNCHANGED <<H, known, ref, gq, total, sleep, quit, sent>>

\* Otherwise the message is dispatched; the first one may be followed by more.
skynet_mq_pop(w) ==
    /\ th[w].pc \in {"first", "next"}
    /\ RingLength(mq[th[w].q].ring) > 0
    /\ mq' = [mq EXCEPT ![th[w].q].ring = RingPop(@)]
    /\ Goto(w, IF At(w, "first") /\ Weight[w] >= 0 THEN "length" ELSE "callback")
    /\ UNCHANGED <<H, known, ref, gq, total, sleep, quit, sent>>

skynet_mq_length(w) ==
    /\ At(w, "length")
    /\ Set(w, [th[w] EXCEPT !.pc = "callback",
                            !.left = RingLength(mq[th[w].q].ring) \div (2 ^ Weight[w])])
    /\ UNCHANGED ServerState

CallbackReturns(w) ==
    /\ At(w, "callback")
    /\ Set(w, IF th[w].left > 1 THEN [th[w] EXCEPT !.pc = "next", !.left = @ - 1]
              ELSE [th[w] EXCEPT !.pc = "last", !.left = 0])
    /\ UNCHANGED ServerState

\* The worker keeps its queue if no other waits, else puts it back.
PopOther(w) ==
    /\ At(w, "last")
    /\ IF gq = <<>>
       THEN /\ Set(w, [ReleaseCall(th[w], th[w].ctx, "top") EXCEPT !.ctx = 0])
            /\ UNCHANGED gq
       ELSE /\ gq' = Tail(gq)
            /\ Set(w, [th[w] EXCEPT !.pc = "put_back", !.obj = Head(gq)])
    /\ UNCHANGED <<H, known, ref, mq, total, sleep, quit, sent>>

PutBack(w) ==
    /\ At(w, "put_back")
    /\ gq' = Append(gq, th[w].q)
    /\ Set(w, [ReleaseCall(th[w], th[w].ctx, "top") EXCEPT !.q = th[w].obj, !.ctx = 0])
    /\ UNCHANGED <<H, known, ref, mq, total, sleep, quit, sent>>

\* Mutant of Sleep: m->quit is not looked at again.
SleepUnchecked(w) ==
    /\ At(w, "sleep")
    /\ sleep' = sleep + 1 /\ Goto(w, "wait")
    /\ UNCHANGED <<H, known, ref, mq, gq, total, quit, sent>>

\* The worker goes to sleep, unless the program is ending, and wakes up.
Sleep(w) ==
    /\ At(w, "sleep")
    /\ IF quit THEN Goto(w, "top") /\ UNCHANGED sleep
       ELSE sleep' = sleep + 1 /\ Goto(w, "wait")
    /\ UNCHANGED <<H, known, ref, mq, gq, total, quit, sent>>

Awake(w) ==
    /\ At(w, "woken")
    /\ sleep' = sleep - 1
    /\ Goto(w, "top")
    /\ UNCHANGED <<H, known, ref, mq, gq, total, quit, sent>>

SpuriousWakeup(w) == At(w, "wait") /\ Goto(w, "woken") /\ UNCHANGED ServerState

-----------------------------------------------------------------------------
(* What a callback, or the init function of a service, does *)

Calling(w) == th[w].pc \in {"callback", "init"}
Self(w) == IF At(w, "init") THEN th[w].new ELSE th[w].ctx

skynet_send(w, dest) ==
    /\ Calling(w) /\ sent < MaxMessage
    /\ sent' = sent + 1
    /\ Set(w, SendCall(th[w], dest, [src |-> Self(w), session |-> sent', err |-> FALSE], th[w].pc))
    /\ UNCHANGED <<H, known, ref, mq, gq, total, sleep, quit>>

\* handle_exit: skynet_handle_retire does nothing for a handle not found.
skynet_handle_retire(w, h) ==
    /\ At(w, "callback") /\ Found(H, h, known)
    /\ H' = Retired(H, h)
    /\ Set(w, ReleaseCall(th[w], h, "callback"))
    /\ UNCHANGED <<known, ref, mq, gq, total, sleep, quit, sent>>

(* skynet_context_new *)

\* Handles that start again at 1 are beyond the bound: a handle names one context.
Register(w) ==
    /\ At(w, "callback")
    /\ LET s == WithRoom(H, known) IN
       IF s.clash
       THEN H' = s /\ UNCHANGED <<ref, th>>
       ELSE \E h \in s.index .. MaxHandle :
              /\ IsNextHandle(s, h)
              /\ H' = skynet_handle_register(s, h)
              /\ ref' = [ref EXCEPT ![h] = 2]
              /\ Set(w, [th[w] EXCEPT !.pc = "registered", !.new = h])
    /\ UNCHANGED <<known, mq, gq, total, sleep, quit, sent>>

\* Mutant of Create: the service is not counted.
CreateUncounted(w) ==
    /\ At(w, "registered")
    /\ known' = known \cup {th[w].new}
    /\ mq' = [mq EXCEPT ![th[w].new] = NewQueue]
    /\ Goto(w, "init")
    /\ UNCHANGED <<H, ref, gq, total, sleep, quit, sent>>

\* ctx->handle is set, the queue is made and the service is counted.
Create(w) ==
    /\ At(w, "registered")
    /\ known' = known \cup {th[w].new}
    /\ mq' = [mq EXCEPT ![th[w].new] = NewQueue]
    /\ total' = total + 1
    /\ Goto(w, "init")
    /\ UNCHANGED <<H, ref, gq, sleep, quit, sent>>

InitOk(w) ==
    /\ At(w, "init")
    /\ Set(w, ReleaseCall(th[w], th[w].new, "launched"))
    /\ UNCHANGED ServerState

\* The queue is the workers' from here on.
Launched(w) ==
    /\ At(w, "launched")
    /\ gq' = Append(gq, th[w].new)
    /\ Set(w, [th[w] EXCEPT !.pc = "callback", !.new = 0])
    /\ UNCHANGED <<H, known, ref, mq, total, sleep, quit, sent>>

InitFails(w) ==
    /\ At(w, "init")
    /\ Set(w, ReleaseCall(th[w], th[w].new, "failed"))
    /\ UNCHANGED ServerState

FailRetire(w) ==
    /\ At(w, "failed")
    /\ LET h == th[w].new
           r == [th[w] EXCEPT !.pc = "mq_release", !.stk = <<"callback">>, !.new = 0, !.dq = h]
       IN  IF Found(H, h, known)
           THEN H' = Retired(H, h) /\ Set(w, ReleaseCall(r, h, "mq_release"))
           ELSE Set(w, r) /\ UNCHANGED H
    /\ UNCHANGED <<known, ref, mq, gq, total, sleep, quit, sent>>

-----------------------------------------------------------------------------
(* thread_timer *)

\* A timeout is delivered: skynet_context_push with source 0.
TimeoutPush(h) ==
    /\ At(Timer, "update") /\ sent < MaxMessage
    /\ sent' = sent + 1
    /\ Set(Timer, SendCall(th[Timer], h, [src |-> 0, session |-> sent', err |-> FALSE], "update"))
    /\ UNCHANGED <<H, known, ref, mq, gq, total, sleep, quit>>

\* CHECK_ABORT, or wakeup(m, m->count - 1): one sleeping worker is signalled.
TimerLoop ==
    /\ At(Timer, "update")
    /\ \/ total = 0 /\ Goto(Timer, "exit")
       \/ total # 0 /\ sleep >= 1 /\ \E w \in Worker : At(w, "wait") /\ Goto(w, "woken")
    /\ UNCHANGED ServerState

TimerExit ==
    /\ At(Timer, "exit")
    /\ quit' = TRUE
    /\ th' = [t \in Thread |->
                IF t = Timer THEN [th[t] EXCEPT !.pc = "done"]
                ELSE IF At(t, "wait") THEN [th[t] EXCEPT !.pc = "woken"] ELSE th[t]]
    /\ UNCHANGED <<H, known, ref, mq, gq, total, sleep, sent>>

-----------------------------------------------------------------------------
CallStep(t) ==
    \/ GrabDest(t) \/ skynet_mq_push(t) \/ skynet_context_release(t)
    \/ skynet_mq_mark_release(t) \/ context_dec(t)
    \/ skynet_mq_release(t) \/ drop_message(t) \/ DropEnd(t)

DispatchStep(w) ==
    \/ Loop(w) \/ PopFirst(w) \/ PopNext(w) \/ skynet_handle_grab(w) \/ PopEmpty(w)
    \/ skynet_mq_pop(w) \/ skynet_mq_length(w) \/ CallbackReturns(w) \/ PopOther(w)
    \/ PutBack(w) \/ Sleep(w) \/ Awake(w)

ServiceStep(w) ==
    \/ \E h \in Handle : skynet_send(w, h) \/ skynet_handle_retire(w, h)
    \/ Register(w) \/ Create(w) \/ InitOk(w) \/ Launched(w) \/ InitFails(w) \/ FailRetire(w)

\* No thread takes a step after an assert has failed.
WorkerStep(w) == ~H.clash /\ (CallStep(w) \/ DispatchStep(w) \/ ServiceStep(w))

TimerStep ==
    /\ ~H.clash
    /\ CallStep(Timer) \/ TimerLoop \/ TimerExit \/ \E h \in Handle : TimeoutPush(h)

Ended == (H.clash \/ \A t \in Thread : At(t, "done")) /\ UNCHANGED vars

Next == TimerStep \/ Ended \/ \E w \in Worker : WorkerStep(w) \/ (~H.clash /\ SpuriousWakeup(w))

\* Threads are scheduled, callbacks return, and the timer thread goes round
\* every 2.5 milliseconds.
Spec == Init /\ [][Next]_vars /\ WF_vars(TimerStep) /\ \A w \in Worker : WF_vars(WorkerStep(w))

-----------------------------------------------------------------------------
TypeOK ==
    /\ known \subseteq Handle
    /\ ref \in [Handle -> Nat]
    /\ \A h \in Handle : /\ \A i \in DOMAIN Contents(mq[h].ring) : Contents(mq[h].ring)[i] \in Message
                        /\ mq[h].in_global \in BOOLEAN /\ mq[h].release \in BOOLEAN
                        /\ mq[h].freed \in BOOLEAN
    /\ gq \in Seq(Handle)
    /\ total \in Nat /\ sleep \in 0 .. Cardinality(Worker) /\ quit \in BOOLEAN
    /\ sent \in 0 .. MaxMessage
    /\ \A t \in Thread : /\ {th[t].q, th[t].ctx, th[t].obj, th[t].new, th[t].dq} \subseteq {0} \cup Handle
                        /\ th[t].msg \in Message \cup {None} /\ th[t].left \in Nat

\* The places in which the queue of h is, the global queue once per position.
Places(h) ==
    {"global"} \X {i \in 1 .. Len(gq) : gq[i] = h}
    \cup {"worker"} \X {t \in Thread : th[t].q = h}
    \cup {"next"} \X {t \in Thread : At(t, "put_back") /\ th[t].obj = h}
    \cup {"drop"} \X {t \in Thread : th[t].dq = h}
    \cup {"launch"} \X {t \in Thread : th[t].new = h /\ ~At(t, "registered")}

\* "0 means mq is not in global mq. 1 means mq is in global mq, or the message
\* is dispatching": a queue that is in use is in exactly one place then, so no
\* two workers have it, and nobody has one that is freed.
QueueInOnePlace ==
    \A h \in Handle :
        Cardinality(Places(h)) =
            IF mq[h].freed \/ (~mq[h].in_global /\ ~mq[h].release) THEN 0 ELSE 1

\* Where a thread is, or will be when the calls it is in have returned.
Base(r) == IF r.stk = <<>> THEN r.pc ELSE Last(r.stk)

\* The references to h that threads and the handle storage hold.
Holders(h) ==
    {"dispatch"} \X {t \in Thread : th[t].ctx = h}
    \cup {"call"} \X {t \in Thread : th[t].obj = h /\ th[t].pc \in {"push", "release"}}
    \cup {"launch"} \X {t \in Thread : th[t].new = h /\ Base(th[t]) \in {"registered", "init"}}
    \cup {"slot"} \X {c \in Contexts(H) : c = h}

\* ctx->ref counts exactly the references there are, so nobody uses a context
\* that delete_context has freed, and each is freed in the end.
RefCounts == \A h \in Handle : ref[h] = Cardinality(Holders(h))

\* assert(new_slot[hash] == NULL) in skynet_handle_register: when the table is
\* doubled, no two contexts come to one slot.
NoSlotClash == ~H.clash

\* The workers stop only when no context is left to run.
QuitIsLast == quit => \A h \in Handle : ref[h] = 0

\* No message stays in a queue: the queues are empty again and again, messages
\* being finitely many, or the program ends.
MessagesHandled == []<>(quit \/ \A h \in Handle : RingLength(mq[h].ring) = 0)

\* When the last service is gone every thread ends; no wakeup is missed.
AllThreadsEnd == (total = 0) ~> (\A t \in Thread : At(t, "done"))

Mailbox == INSTANCE SkynetMailbox WITH
    Mail <- Message,
    box <- [h \in Handle |-> Contents(mq[h].ring)],
    status <- [h \in Handle |-> IF mq[h].freed THEN "none" ELSE IF mq[h].release THEN "dead" ELSE "up"],
    busy <- {h \in Handle : \E w \in Worker :
                th[w].ctx = h /\ th[w].pc \notin {"first", "next", "last", "put_back"}}

\* Workers, rings and the global queue give every service its messages once, in
\* order and one at a time, and a service is deleted between two of them.
ImplementsMailbox == Mailbox!Spec
=============================================================================
