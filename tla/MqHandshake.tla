---------------------------- MODULE MqHandshake -----------------------------
(***************************************************************************)
(* 014_ipc_message_queue: program_1 sends a message over a POSIX message   *)
(* queue, waits to be notified of an answer and reads it; program_2 reads  *)
(* a message, turns it to upper case and sends it back over the same       *)
(* queue.  Both create the queue if it is not there and both unlink it.    *)
(*                                                                         *)
(* program_1 (P1) may be run several times, one after the other; each Peer *)
(* is one run of program_2.  Every call into the kernel is one step.  What *)
(* the kernel does (queues, mq_notify, signals) is modelled as Linux does  *)
(* it.  Failing calls other than mq_unlink, whose result both programs     *)
(* ignore, are left out: they end the program.                             *)
(***************************************************************************)
EXTENDS Integers, Sequences

CONSTANTS
    P1,             \* program_1
    Peer,           \* runs of program_2
    NULL,
    MaxRun          \* bound: runs of program_1

Message == [run : Nat, upper : BOOLEAN]

ASSUME MqConstants ==
    /\ P1 \notin Peer
    /\ NULL \notin Int \cup Message
    /\ MaxRun \in Nat \ {0}

VARIABLES
    name,       \* the queue MQUEUE names, or NULL
    created,    \* queues created so far: their numbers are 1 .. created
    msgs,       \* queue -> the messages in it
    notify,     \* the queues P1 is registered with for notification
    pc,         \* process -> the call it makes next, or is inside
    qd,         \* process -> the queue it has open, or NULL
    buffer,     \* process -> the message in its buffer, or NULL
    run         \* runs of program_1 so far

vars == <<name, created, msgs, notify, pc, qd, buffer, run>>

Proc == Peer \cup {P1}

P1Pc == {"off", "send", "notify", "sigaction", "sigcall", "sigwait", "receive", "blocked",
         "close", "unlink", "done", "killed"}
PeerPc == {"off", "receive", "blocked", "reply", "close", "unlink", "done"}

TypeOK ==
    /\ created \in Nat
    /\ name \in (1 .. created) \cup {NULL}
    /\ msgs \in Seq(Seq(Message)) /\ Len(msgs) = created
    /\ notify \subseteq 1 .. created
    /\ pc \in [Proc -> P1Pc \cup PeerPc]
    /\ pc[P1] \in P1Pc /\ \A p \in Peer : pc[p] \in PeerPc
    /\ qd \in [Proc -> (1 .. created) \cup {NULL}]
    /\ buffer \in [Proc -> Message \cup {NULL}]
    /\ run \in Nat

Init ==
    /\ name = NULL
    /\ created = 0
    /\ msgs = <<>>
    /\ notify = {}
    /\ pc = [x \in Proc |-> "off"]
    /\ qd = [x \in Proc |-> NULL]
    /\ buffer = [x \in Proc |-> NULL]
    /\ run = 0

-----------------------------------------------------------------------------
(* The kernel. *)

\* mq_open with O_CREAT: the queue of that name, or a new one.
mq_open(x, to) ==
    /\ pc' = [pc EXCEPT ![x] = to]
    /\ \/ /\ name # NULL
          /\ qd' = [qd EXCEPT ![x] = name]
          /\ UNCHANGED <<name, created, msgs, notify>>
       \/ /\ name = NULL
          /\ created' = created + 1
          /\ name' = created + 1
          /\ msgs' = Append(msgs, <<>>)
          /\ qd' = [qd EXCEPT ![x] = created + 1]
          /\ UNCHANGED notify

\* Where a process goes on when mq_receive returns.
Received(x) == IF x = P1 THEN "close" ELSE "reply"

\* SIGUSR1 to P1.  Before sigaction it ends the process; after it, and before
\* sigwait, the handler consumes it; inside sigwait it makes sigwait return.
Signalled ==
    CASE pc[P1] = "sigaction" -> "killed"
      [] pc[P1] = "sigwait" -> "receive"
      [] OTHER -> pc[P1]

\* mq_send of m by x, which goes on at to.  A process blocked in mq_receive gets
\* the message and nobody is notified.  Otherwise it is queued, and if the queue
\* was empty the process registered is signalled and its registration ends.
mq_send(x, m, to) ==
    LET q == qd[x]
        waiting == {y \in Proc : pc[y] = "blocked" /\ qd[y] = q}
    IN  \/ \E y \in waiting :
            /\ buffer' = [buffer EXCEPT ![y] = m]
            /\ pc' = [pc EXCEPT ![x] = to, ![y] = Received(y)]
            /\ UNCHANGED <<msgs, notify>>
        \/ /\ waiting = {}
           /\ msgs' = [msgs EXCEPT ![q] = Append(@, m)]
           /\ \/ /\ msgs[q] = <<>> /\ q \in notify
                 /\ notify' = notify \ {q}
                 /\ pc' = [pc EXCEPT ![x] = to, ![P1] = Signalled]
              \/ /\ msgs[q] # <<>> \/ q \notin notify
                 /\ pc' = [pc EXCEPT ![x] = to]
                 /\ UNCHANGED notify
           /\ UNCHANGED buffer

\* mq_receive: the oldest message (all have priority 0), or wait for one.
mq_receive(x) ==
    LET q == qd[x]
    IN  /\ pc[x] = "receive"
        /\ \/ /\ msgs[q] # <<>>
              /\ buffer' = [buffer EXCEPT ![x] = Head(msgs[q])]
              /\ msgs' = [msgs EXCEPT ![q] = Tail(@)]
              /\ pc' = [pc EXCEPT ![x] = Received(x)]
           \/ /\ msgs[q] = <<>>
              /\ pc' = [pc EXCEPT ![x] = "blocked"]
              /\ UNCHANGED <<buffer, msgs>>
        /\ UNCHANGED <<name, created, notify, qd, run>>

\* mq_close, which would also end a registration: program_1's has been used by then.
mq_close(x) ==
    /\ pc[x] = "close"
    /\ pc' = [pc EXCEPT ![x] = "unlink"]
    /\ qd' = [qd EXCEPT ![x] = NULL]
    /\ UNCHANGED <<name, created, msgs, notify, buffer, run>>

\* Mutant of mq_unlink: the program ends without unlinking the queue.
mq_unlink_dropped(x) ==
    /\ pc[x] = "unlink"
    /\ pc' = [pc EXCEPT ![x] = "done"]
    /\ UNCHANGED <<name, created, msgs, notify, qd, buffer, run>>

\* mq_unlink fails, and nothing changes, when the name is already gone.
mq_unlink(x) ==
    /\ pc[x] = "unlink"
    /\ pc' = [pc EXCEPT ![x] = "done"]
    /\ name' = NULL
    /\ UNCHANGED <<created, msgs, notify, qd, buffer, run>>

-----------------------------------------------------------------------------
(* program_1 up to the wait, and program_2's answer. *)

P1Open ==
    /\ pc[P1] \in {"off", "done", "killed"}
    /\ run < MaxRun
    /\ run' = run + 1
    /\ mq_open(P1, "send")
    /\ buffer' = [buffer EXCEPT ![P1] = NULL]

P1Send ==
    /\ pc[P1] = "send"
    /\ mq_send(P1, [run |-> run, upper |-> FALSE], "notify")
    /\ UNCHANGED <<name, created, qd, run>>

P1Notify ==
    /\ pc[P1] = "notify"
    /\ notify' = notify \cup {qd[P1]}
    /\ pc' = [pc EXCEPT ![P1] = "sigaction"]
    /\ UNCHANGED <<name, created, msgs, qd, buffer, run>>

P1Sigaction ==
    /\ pc[P1] = "sigaction"
    /\ pc' = [pc EXCEPT ![P1] = "sigcall"]
    /\ UNCHANGED <<name, created, msgs, notify, qd, buffer, run>>

\* Mutant of P1Sigwait: the program does not wait.
P1SkipsWait ==
    /\ pc[P1] = "sigcall"
    /\ pc' = [pc EXCEPT ![P1] = "receive"]
    /\ UNCHANGED <<name, created, msgs, notify, qd, buffer, run>>

P1Sigwait ==
    /\ pc[P1] = "sigcall"
    /\ pc' = [pc EXCEPT ![P1] = "sigwait"]
    /\ UNCHANGED <<name, created, msgs, notify, qd, buffer, run>>

PeerOpen(p) ==
    /\ pc[p] = "off"
    /\ mq_open(p, "receive")
    /\ UNCHANGED <<buffer, run>>

\* Mutant of PeerReply: the answer is dropped.
PeerDropsReply(p) ==
    /\ pc[p] = "reply"
    /\ pc' = [pc EXCEPT ![p] = "close"]
    /\ UNCHANGED <<name, created, msgs, notify, qd, buffer, run>>

\* The message in upper case goes back into the queue.
PeerReply(p) ==
    /\ pc[p] = "reply"
    /\ mq_send(p, [buffer[p] EXCEPT !.upper = TRUE], "close")
    /\ UNCHANGED <<name, created, qd, run>>

Step(x) ==
    \/ mq_receive(x) \/ mq_close(x) \/ mq_unlink(x)
    \/ x = P1 /\ (P1Send \/ P1Notify \/ P1Sigaction \/ P1Sigwait)
    \/ x \in Peer /\ PeerReply(x)

Next == P1Open \/ (\E p \in Peer : PeerOpen(p)) \/ \E x \in Proc : Step(x)

\* A program that was started keeps running; nothing makes anyone start one.
Spec == Init /\ [][Next]_vars /\ \A x \in Proc : WF_vars(Step(x))

-----------------------------------------------------------------------------
\* program_1 never reads its own message back from the queue it shares with
\* program_2, which is what it waits for the notification for (program_1.c,
\* 53-56), whatever runs of program_2 answer and whatever earlier runs left.
NeverOwnMessage ==
    pc[P1] \in {"close", "unlink", "done"} => buffer[P1] # NULL /\ buffer[P1].upper

\* The queue's name is left behind by nobody: while it exists, some program that
\* opened a queue has still to unlink it, or program_1 was killed.
NameIsCleanedUp ==
    name # NULL => \E x \in Proc : pc[x] \notin {"off", "done"}

\* If program_1 is inside sigwait and registered, a program_2 has still to read from
\* the same queue, and the only message about is in it, program_1 is woken.  With a
\* second message about, left by an earlier run of program_1, the
\* queue need not be empty when the answer comes, and then nobody is notified.
TimelyReplyWakes ==
    \A p \in Peer :
        (/\ pc[P1] = "sigwait" /\ qd[P1] \in notify
         /\ qd[p] = qd[P1] /\ pc[p] = "receive"
         /\ Len(msgs[qd[P1]]) = 1
         /\ \A r \in Peer : qd[r] = qd[P1] => pc[r] # "reply")
            ~> pc[P1] = "receive"

\* "wait for the other process to receive our message" (program_1.c, 53): once
\* another process has received the message of this run, program_1's wait ends,
\* and it goes on to read the answer.
WaitEndsWhenReceived ==
    (\E p \in Peer : buffer[p] # NULL /\ buffer[p].run = run /\ run > 0)
        ~> pc[P1] \in {"receive", "blocked", "close", "unlink", "done"}
=============================================================================
