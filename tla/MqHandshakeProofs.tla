------------------------- MODULE MqHandshakeProofs --------------------------
(***************************************************************************)
(* MqHandshake proved for any number of runs of both programs: program_1   *)
(* never reads its own message back.                                       *)
(***************************************************************************)
EXTENDS MqHandshake, TLAPS

Registered == {"sigaction", "sigcall", "sigwait"}

\* Every process inside a call on the queue has it open, and one that is to
\* answer has a message to answer.
Connected ==
    /\ \A x \in Proc : pc[x] \notin {"off", "unlink", "done", "killed"} => qd[x] # NULL
    /\ \A p \in Peer : pc[p] = "reply" => buffer[p] # NULL

\* Only the queue program_1 has open notifies, and only between mq_notify and the
\* end of sigwait.
NotifiesP1 ==
    \A q \in notify : q = qd[P1] /\ pc[P1] \in Registered

\* Why it is woken only for somebody else's message: from the moment sigwait
\* returns, its own message is no longer in the queue.
OwnMessageGone ==
    pc[P1] \in {"receive", "blocked"} =>
        \A i \in DOMAIN msgs[qd[P1]] : msgs[qd[P1]][i].upper

IInv == TypeOK /\ Connected /\ NotifiesP1 /\ OwnMessageGone /\ NeverOwnMessage

-----------------------------------------------------------------------------
\* Before any program runs the invariant holds.
LEMMA InitIInv == Init => IInv
<1> SUFFICES ASSUME Init PROVE IInv
  OBVIOUS
<1> USE MqConstants DEF Init
<1>1. TypeOK
  BY DEF TypeOK, P1Pc, PeerPc, Proc
<1> QED
  BY <1>1 DEF IInv, Connected, NotifiesP1, OwnMessageGone, NeverOwnMessage, Proc

\* mq_open changes no queue, and a new one is empty.
LEMMA OpenIInv ==
    ASSUME IInv, NEW x \in Proc, NEW to,
           x = P1 => /\ to = "send" /\ pc[P1] \in {"off", "done", "killed"}
                     /\ run' = run + 1 /\ buffer' = [buffer EXCEPT ![P1] = NULL],
           x # P1 => to = "receive" /\ pc[x] = "off" /\ UNCHANGED <<buffer, run>>,
           mq_open(x, to)
    PROVE  IInv'
<1> USE MqConstants
<1>0. TypeOK
  BY DEF IInv
<1>a. /\ pc' = [pc EXCEPT ![x] = to]
      /\ to \in P1Pc \cup PeerPc /\ (x = P1 => to \in P1Pc) /\ (x # P1 => to \in PeerPc)
      /\ run' \in Nat /\ buffer' \in [Proc -> Message \cup {NULL}]
      /\ \A y \in Proc : y # x => buffer'[y] = buffer[y]
  BY <1>0 DEF mq_open, TypeOK, Proc, P1Pc, PeerPc
<1>b. PICK q \in 1 .. created' : qd' = [qd EXCEPT ![x] = q]
  <2>1. CASE name # NULL /\ UNCHANGED created /\ qd' = [qd EXCEPT ![x] = name]
    <3>1. name \in 1 .. created'
      BY <1>0, <2>1 DEF TypeOK
    <3> QED
      BY <2>1, <3>1, Zenon
  <2>2. CASE created' = created + 1 /\ qd' = [qd EXCEPT ![x] = created + 1]
    <3>1. created + 1 \in 1 .. created'
      BY <1>0, <2>2 DEF TypeOK
    <3> QED
      BY <2>2, <3>1, Zenon
  <2> QED
    BY <2>1, <2>2, Zenon DEF mq_open
<1>2. /\ created' \in Nat /\ created <= created'
      /\ name' \in (1 .. created') \cup {NULL}
      /\ msgs' \in Seq(Seq(Message)) /\ Len(msgs') = created'
      /\ notify' = notify /\ notify' \subseteq 1 .. created'
      /\ \A k \in 1 .. created : msgs'[k] = msgs[k]
  <2>1. CASE UNCHANGED <<name, created, msgs, notify>>
    BY <1>0, <2>1 DEF TypeOK
  <2>2. CASE /\ created' = created + 1 /\ name' = created + 1
             /\ msgs' = Append(msgs, <<>>) /\ UNCHANGED notify
    <3>2. /\ msgs' \in Seq(Seq(Message)) /\ Len(msgs') = created + 1
          /\ \A k \in 1 .. created : msgs'[k] = msgs[k]
      <4> DEFINE S == Seq(Message)
      <4>1. msgs \in Seq(S) /\ Len(msgs) = created /\ <<>> \in S /\ created \in Nat
        BY <1>0 DEF TypeOK
      <4> HIDE DEF S
      <4>2. Append(msgs, <<>>) \in Seq(S) /\ Len(Append(msgs, <<>>)) = created + 1
        BY <4>1
      <4>3. \A k \in 1 .. created : Append(msgs, <<>>)[k] = msgs[k]
        BY <4>1
      <4> QED
        BY <2>2, <4>2, <4>3 DEF S
    <3> QED
      BY <1>0, <2>2, <3>2 DEF TypeOK
  <2> QED
    BY <2>1, <2>2 DEF mq_open
<1>3. \A y \in Proc : y # x => pc'[y] = pc[y] /\ qd'[y] = qd[y] /\ buffer'[y] = buffer[y]
  BY <1>0, <1>a, <1>b DEF TypeOK
<1>4. pc'[x] = to /\ qd'[x] # NULL
  BY <1>0, <1>a, <1>b DEF TypeOK
<1>c. TypeOK'
  <2>1. pc' \in [Proc -> P1Pc \cup PeerPc] /\ pc'[P1] \in P1Pc /\ \A p \in Peer : pc'[p] \in PeerPc
    BY <1>0, <1>a DEF TypeOK, Proc
  <2>2. qd' \in [Proc -> (1 .. created') \cup {NULL}]
    BY <1>0, <1>b, <1>2 DEF TypeOK
  <2> QED
    BY <1>a, <1>2, <2>1, <2>2 DEF TypeOK
<1>1. TypeOK /\ TypeOK'
  BY <1>0, <1>c
<1>5. P1 \in Proc /\ \A p \in Peer : p \in Proc /\ p # P1
  BY DEF Proc
<1>6. Connected'
  BY <1>3, <1>4, <1>5, <1>1 DEF IInv, Connected, TypeOK
<1>7. NotifiesP1'
  BY <1>2, <1>3, <1>4, <1>5 DEF IInv, NotifiesP1, Registered
<1>8. OwnMessageGone' /\ NeverOwnMessage'
  <2>1. CASE x = P1
    BY <2>1, <1>4 DEF OwnMessageGone, NeverOwnMessage
  <2>2. CASE x # P1
    <3>1. pc'[P1] = pc[P1] /\ qd'[P1] = qd[P1] /\ buffer'[P1] = buffer[P1]
      BY <2>2, <1>3, <1>5
    <3>2. pc[P1] \in {"receive", "blocked"} => qd[P1] \in 1 .. created
      BY <1>1, <1>5 DEF IInv, Connected, TypeOK
    <3> QED
      BY <3>1, <3>2, <1>2 DEF IInv, OwnMessageGone, NeverOwnMessage
  <2> QED
    BY <2>1, <2>2
<1> QED
  BY <1>1, <1>6, <1>7, <1>8 DEF IInv

\* mq_send: program_1 sends before it registers, and whatever program_2 sends is
\* in upper case, whether it is handed over, queued, or queued with a signal.
LEMMA SendIInv ==
    ASSUME IInv, NEW x \in Proc, NEW m \in Message, NEW to,
           x = P1 => pc[P1] = "send" /\ to = "notify",
           x # P1 => pc[x] = "reply" /\ to = "close" /\ m.upper,
           mq_send(x, m, to), UNCHANGED <<name, created, qd, run>>
    PROVE  IInv'
<1> USE MqConstants
<1>0. TypeOK /\ Connected /\ NotifiesP1 /\ OwnMessageGone /\ NeverOwnMessage
  BY DEF IInv
<1>1. P1 \in Proc /\ \A p \in Peer : p \in Proc /\ p # P1
  BY DEF Proc
<1>2. qd[x] \in 1 .. created
  BY <1>0 DEF TypeOK, Connected
<1> DEFINE q == qd[x]
           waiting == {y \in Proc : pc[y] = "blocked" /\ qd[y] = q}
<1>3. CASE \E y \in waiting :
            /\ buffer' = [buffer EXCEPT ![y] = m]
            /\ pc' = [pc EXCEPT ![x] = to, ![y] = Received(y)]
            /\ UNCHANGED <<msgs, notify>>
  <2>1. PICK y \in waiting :
            /\ buffer' = [buffer EXCEPT ![y] = m]
            /\ pc' = [pc EXCEPT ![x] = to, ![y] = Received(y)]
            /\ UNCHANGED <<msgs, notify>>
    BY <1>3
  <2>2. y \in Proc /\ pc[y] = "blocked" /\ y # x
    OBVIOUS
  <2>3. TypeOK'
    BY <1>0, <1>1, <2>1, <2>2 DEF TypeOK, Received, P1Pc, PeerPc, Proc
  <2>4. Connected'
    BY <1>0, <1>1, <2>1, <2>2 DEF TypeOK, Connected, Received, Message
  <2>5. NotifiesP1'
    BY <1>0, <1>1, <2>1, <2>2 DEF TypeOK, NotifiesP1, Registered
  <2>6. OwnMessageGone' /\ NeverOwnMessage'
    <3>1. CASE y = P1
      BY <3>1, <1>0, <1>1, <2>1, <2>2
      DEF TypeOK, OwnMessageGone, NeverOwnMessage, Received, Message
    <3>2. CASE y # P1
      BY <3>2, <1>0, <1>1, <2>1, <2>2 DEF TypeOK, OwnMessageGone, NeverOwnMessage
    <3> QED
      BY <3>1, <3>2
  <2> QED
    BY <2>3, <2>4, <2>5, <2>6 DEF IInv
<1>4. CASE /\ waiting = {}
           /\ msgs' = [msgs EXCEPT ![q] = Append(@, m)]
           /\ msgs[q] = <<>> /\ q \in notify
           /\ notify' = notify \ {q}
           /\ pc' = [pc EXCEPT ![x] = to, ![P1] = Signalled]
           /\ UNCHANGED buffer
  <2>1. q = qd[P1] /\ pc[P1] \in Registered /\ x # P1
    BY <1>0, <1>2, <1>4 DEF NotifiesP1, Registered
  <2>2. pc'[P1] = Signalled /\ Signalled \in {"killed", "receive", "sigcall"}
    BY <1>0, <1>1, <1>4, <2>1 DEF TypeOK, Signalled, Registered
  <2>3. \A y \in Proc : y # P1 /\ y # x => pc'[y] = pc[y]
    BY <1>0, <1>4 DEF TypeOK
  <2>3a. pc'[x] = "close"
    BY <1>0, <1>4, <2>1 DEF TypeOK
  <2>4. msgs' \in Seq(Seq(Message)) /\ Len(msgs') = created
    <3>1. Append(msgs[q], m) \in Seq(Message)
      BY <1>0, <1>2 DEF TypeOK
    <3> QED
      BY <1>0, <1>2, <1>4, <3>1 DEF TypeOK
  <2>5. notify' \subseteq 1 .. created
    BY <1>0, <1>2, <1>4 DEF TypeOK
  <2>6. TypeOK'
    BY <1>0, <1>1, <1>4, <2>1, <2>2, <2>3, <2>3a, <2>4, <2>5 DEF TypeOK, P1Pc, PeerPc, Proc
  <2>7. Connected'
    BY <1>0, <1>1, <1>2, <1>4, <2>1, <2>2, <2>3, <2>3a, ZenonT(60) DEF Connected, TypeOK
  <2>8. NotifiesP1'
    BY <1>0, <1>1, <1>2, <1>4, <2>1 DEF NotifiesP1, TypeOK
  <2>9. msgs'[q] = <<m>>
    BY <1>0, <1>2, <1>4 DEF TypeOK
  <2>10. OwnMessageGone' /\ NeverOwnMessage'
    BY <2>1, <2>2, <2>9 DEF OwnMessageGone, NeverOwnMessage
  <2> QED
    BY <2>6, <2>7, <2>8, <2>10 DEF IInv
<1>5. CASE /\ waiting = {}
           /\ msgs' = [msgs EXCEPT ![q] = Append(@, m)]
           /\ pc' = [pc EXCEPT ![x] = to]
           /\ UNCHANGED <<notify, buffer>>
  <2>4. msgs' \in Seq(Seq(Message)) /\ Len(msgs') = created
    BY <1>0, <1>2, <1>5 DEF TypeOK
  <2>6. TypeOK'
    BY <1>0, <1>1, <1>5, <2>4 DEF TypeOK, P1Pc, PeerPc, Proc
  <2>7. Connected'
    BY <1>0, <1>1, <1>2, <1>5 DEF Connected, TypeOK
  <2>8. NotifiesP1'
    BY <1>0, <1>1, <1>5 DEF NotifiesP1, TypeOK, Registered
  <2>9. OwnMessageGone'
    <3> SUFFICES ASSUME pc'[P1] \in {"receive", "blocked"},
                        NEW i \in DOMAIN msgs'[qd[P1]]
                 PROVE  msgs'[qd[P1]][i].upper
      BY <1>1 DEF OwnMessageGone
    <3>1. x # P1 /\ pc[P1] \in {"receive", "blocked"} /\ m.upper
      BY <1>0, <1>1, <1>5 DEF TypeOK
    <3>2. qd[P1] \in 1 .. created
      BY <1>0, <1>1, <3>1 DEF TypeOK, Connected
    <3>3. CASE qd[P1] = q
      BY <1>0, <1>2, <1>5, <3>1, <3>3 DEF TypeOK, OwnMessageGone
    <3>4. CASE qd[P1] # q
      BY <1>0, <1>2, <1>5, <3>1, <3>2, <3>4 DEF TypeOK, OwnMessageGone
    <3> QED
      BY <3>3, <3>4
  <2>10. NeverOwnMessage'
    BY <1>0, <1>1, <1>5 DEF TypeOK, NeverOwnMessage
  <2> QED
    BY <2>6, <2>7, <2>8, <2>9, <2>10 DEF IInv
<1> QED
  BY <1>3, <1>4, <1>5 DEF mq_send

\* mq_receive takes from the front: what program_1 takes is in upper case.
LEMMA ReceiveIInv ==
    ASSUME IInv, NEW x \in Proc, mq_receive(x)
    PROVE  IInv'
<1> USE MqConstants
<1>0. TypeOK /\ Connected /\ NotifiesP1 /\ OwnMessageGone /\ NeverOwnMessage
  BY DEF IInv
<1>1. P1 \in Proc /\ \A p \in Peer : p \in Proc /\ p # P1
  BY DEF Proc
<1>2. qd[x] \in 1 .. created /\ pc[x] = "receive" /\ UNCHANGED <<name, created, notify, qd, run>>
  BY <1>0 DEF TypeOK, Connected, mq_receive
<1> DEFINE q == qd[x]
<1>3. CASE /\ msgs[q] # <<>>
           /\ buffer' = [buffer EXCEPT ![x] = Head(msgs[q])]
           /\ msgs' = [msgs EXCEPT ![q] = Tail(@)]
           /\ pc' = [pc EXCEPT ![x] = Received(x)]
  <2>1. /\ msgs[q] \in Seq(Message) /\ Head(msgs[q]) \in Message
        /\ Tail(msgs[q]) \in Seq(Message)
        /\ Head(msgs[q]) = msgs[q][1] /\ 1 \in DOMAIN msgs[q]
    BY <1>0, <1>2, <1>3 DEF TypeOK
  <2>2. msgs' \in Seq(Seq(Message)) /\ Len(msgs') = created
    BY <1>0, <1>2, <1>3, <2>1 DEF TypeOK
  <2>3. TypeOK'
    BY <1>0, <1>1, <1>2, <1>3, <2>1, <2>2 DEF TypeOK, Received, P1Pc, PeerPc, Proc
  <2>4. Connected'
    BY <1>0, <1>1, <1>2, <1>3, <2>1 DEF TypeOK, Connected, Received, Message
  <2>5. NotifiesP1'
    BY <1>0, <1>1, <1>2, <1>3 DEF TypeOK, NotifiesP1, Registered
  <2>6. OwnMessageGone'
    <3> SUFFICES ASSUME pc'[P1] \in {"receive", "blocked"},
                        NEW i \in DOMAIN msgs'[qd[P1]]
                 PROVE  msgs'[qd[P1]][i].upper
      BY <1>2 DEF OwnMessageGone
    <3>1. x # P1 /\ pc[P1] \in {"receive", "blocked"}
      BY <1>0, <1>1, <1>3 DEF TypeOK, Received
    <3>2. qd[P1] \in 1 .. created
      BY <1>0, <1>1, <3>1 DEF TypeOK, Connected
    <3>3. CASE qd[P1] = q
      <4>1. msgs'[qd[P1]] = Tail(msgs[q])
        BY <1>0, <1>2, <1>3, <3>3 DEF TypeOK
      <4>2. i + 1 \in DOMAIN msgs[q] /\ Tail(msgs[q])[i] = msgs[q][i + 1]
        BY <2>1, <4>1
      <4> QED
        BY <1>0, <3>1, <3>3, <4>1, <4>2 DEF OwnMessageGone
    <3>4. CASE qd[P1] # q
      BY <1>0, <1>2, <1>3, <3>1, <3>2, <3>4 DEF TypeOK, OwnMessageGone
    <3> QED
      BY <3>3, <3>4
  <2>7. NeverOwnMessage'
    <3>1. CASE x = P1
      BY <1>0, <1>1, <1>2, <1>3, <2>1, <3>1
      DEF TypeOK, OwnMessageGone, NeverOwnMessage, Message
    <3>2. CASE x # P1
      BY <1>0, <1>1, <1>3, <3>2 DEF TypeOK, NeverOwnMessage
    <3> QED
      BY <3>1, <3>2
  <2> QED
    BY <2>3, <2>4, <2>5, <2>6, <2>7 DEF IInv
<1>4. CASE /\ msgs[q] = <<>>
           /\ pc' = [pc EXCEPT ![x] = "blocked"]
           /\ UNCHANGED <<buffer, msgs>>
  <2>1. TypeOK'
    BY <1>0, <1>1, <1>2, <1>4 DEF TypeOK, P1Pc, PeerPc, Proc
  <2>2. Connected'
    BY <1>0, <1>1, <1>2, <1>4 DEF TypeOK, Connected
  <2>3. NotifiesP1'
    BY <1>0, <1>1, <1>2, <1>4 DEF TypeOK, NotifiesP1, Registered
  <2>4. OwnMessageGone' /\ NeverOwnMessage'
    BY <1>0, <1>1, <1>2, <1>4 DEF TypeOK, OwnMessageGone, NeverOwnMessage
  <2> QED
    BY <2>1, <2>2, <2>3, <2>4 DEF IInv
<1> QED
  BY <1>3, <1>4 DEF mq_receive

\* The other calls move one process on and leave the queues alone; only mq_notify
\* registers, and program_1 then has the queue open.
LEMMA LocalIInv ==
    ASSUME IInv, NEW x \in Proc,
           mq_close(x) \/ mq_unlink(x)
             \/ (x = P1 /\ (P1Notify \/ P1Sigaction \/ P1Sigwait))
    PROVE  IInv'
<1> USE MqConstants
<1>0. TypeOK /\ Connected /\ NotifiesP1 /\ OwnMessageGone /\ NeverOwnMessage
  BY DEF IInv
<1>1. P1 \in Proc /\ \A p \in Peer : p \in Proc /\ p # P1
  BY DEF Proc
<1>2. CASE mq_close(x)
  <2>1. TypeOK' /\ Connected'
    BY <1>0, <1>1, <1>2 DEF mq_close, TypeOK, Connected, P1Pc, PeerPc, Proc
  <2>2. NotifiesP1'
    BY <1>0, <1>1, <1>2 DEF mq_close, TypeOK, NotifiesP1, Registered
  <2>3. OwnMessageGone' /\ NeverOwnMessage'
    BY <1>0, <1>1, <1>2 DEF mq_close, TypeOK, OwnMessageGone, NeverOwnMessage
  <2> QED
    BY <2>1, <2>2, <2>3 DEF IInv
<1>3. CASE mq_unlink(x)
  <2>1. TypeOK' /\ Connected'
    BY <1>0, <1>1, <1>3 DEF mq_unlink, TypeOK, Connected, P1Pc, PeerPc, Proc
  <2>2. NotifiesP1'
    BY <1>0, <1>1, <1>3 DEF mq_unlink, TypeOK, NotifiesP1, Registered
  <2>3. OwnMessageGone' /\ NeverOwnMessage'
    BY <1>0, <1>1, <1>3 DEF mq_unlink, TypeOK, OwnMessageGone, NeverOwnMessage
  <2> QED
    BY <2>1, <2>2, <2>3 DEF IInv
<1>4. CASE P1Notify
  <2>1. qd[P1] \in 1 .. created
    BY <1>0, <1>1, <1>4 DEF P1Notify, TypeOK, Connected
  <2>2. notify' \subseteq 1 .. created
    BY <1>0, <1>4, <2>1 DEF P1Notify, TypeOK
  <2>3. TypeOK' /\ Connected'
    BY <1>0, <1>1, <1>4, <2>2 DEF P1Notify, TypeOK, Connected, P1Pc, PeerPc, Proc
  <2>4. NotifiesP1'
    BY <1>0, <1>1, <1>4, <2>1 DEF P1Notify, TypeOK, NotifiesP1, Registered
  <2>5. OwnMessageGone' /\ NeverOwnMessage'
    BY <1>0, <1>1, <1>4 DEF P1Notify, TypeOK, OwnMessageGone, NeverOwnMessage
  <2> QED
    BY <2>3, <2>4, <2>5 DEF IInv
<1>5. CASE P1Sigaction \/ P1Sigwait
  <2>1. TypeOK' /\ Connected'
    BY <1>0, <1>1, <1>5 DEF P1Sigaction, P1Sigwait, TypeOK, Connected, P1Pc, PeerPc, Proc
  <2>2. NotifiesP1'
    BY <1>0, <1>1, <1>5 DEF P1Sigaction, P1Sigwait, TypeOK, NotifiesP1, Registered
  <2>3. OwnMessageGone' /\ NeverOwnMessage'
    BY <1>0, <1>1, <1>5
    DEF P1Sigaction, P1Sigwait, TypeOK, OwnMessageGone, NeverOwnMessage
  <2> QED
    BY <2>1, <2>2, <2>3 DEF IInv
<1> QED
  BY <1>2, <1>3, <1>4, <1>5

\* Every step of either program keeps the invariant.
LEMMA NextIInv == IInv /\ [Next]_vars => IInv'
<1> SUFFICES ASSUME IInv, [Next]_vars PROVE IInv'
  OBVIOUS
<1> USE MqConstants
<1>1. P1 \in Proc /\ \A p \in Peer : p \in Proc /\ p # P1
  BY DEF Proc
<1>2. CASE P1Open
  BY <1>1, <1>2, OpenIInv DEF P1Open
<1>3. ASSUME NEW p \in Peer, PeerOpen(p) PROVE IInv'
  BY <1>1, <1>3, OpenIInv DEF PeerOpen
<1>4. CASE P1Send
  <2>1. [run |-> run, upper |-> FALSE] \in Message
    BY DEF IInv, TypeOK, Message
  <2> QED
    BY <1>1, <1>4, <2>1, SendIInv DEF P1Send
<1>5. ASSUME NEW p \in Peer, PeerReply(p) PROVE IInv'
  <2> DEFINE m == [buffer[p] EXCEPT !.upper = TRUE]
  <2>1. buffer[p] \in Message
    BY <1>1, <1>5 DEF PeerReply, IInv, TypeOK, Connected
  <2>2. m \in Message /\ m.upper
    BY <2>1 DEF Message
  <2>3. /\ mq_send(p, m, "close") /\ UNCHANGED <<name, created, qd, run>>
        /\ pc[p] = "reply" /\ p \in Proc /\ p # P1
    BY <1>1, <1>5 DEF PeerReply
  <2> HIDE DEF m
  <2> QED
    BY <2>2, <2>3, SendIInv
<1>6. ASSUME NEW x \in Proc, Step(x) PROVE IInv'
  BY <1>4, <1>5, <1>6, ReceiveIInv, LocalIInv DEF Step
<1>7. CASE UNCHANGED vars
  BY <1>7 DEF vars, IInv, TypeOK, Connected, NotifiesP1, OwnMessageGone, NeverOwnMessage
<1> QED
  BY <1>2, <1>3, <1>6, <1>7 DEF Next

-----------------------------------------------------------------------------
\* However many runs of program_1 and program_2 share the queue and its remains,
\* program_1 never takes its own message for the answer.
THEOREM OwnMessageNeverRead == Spec => []NeverOwnMessage
<1>1. IInv => NeverOwnMessage
  BY DEF IInv
<1> QED
  BY InitIInv, NextIInv, <1>1, PTL DEF Spec

\* The name of the queue outlives no run that could have unlinked it: every call
\* but mq_unlink, which clears the name, leaves its caller with an unlink to make.
THEOREM NameNeverLeftBehind == Spec => []NameIsCleanedUp
<1> USE MqConstants
<1>1. Init => NameIsCleanedUp
  BY DEF Init, NameIsCleanedUp
<1>2. NameIsCleanedUp /\ IInv /\ IInv' /\ [Next]_vars => NameIsCleanedUp'
  <2> SUFFICES ASSUME NameIsCleanedUp, IInv, IInv', [Next]_vars
               PROVE  NameIsCleanedUp'
    OBVIOUS
  <2>0. TypeOK /\ NotifiesP1 /\ P1 \in Proc /\ Peer \subseteq Proc
    BY DEF IInv, Proc
  <2>1. ASSUME NEW x \in Proc, pc'[x] \notin {"off", "done"} PROVE NameIsCleanedUp'
    BY <2>1 DEF NameIsCleanedUp
  <2>2. CASE P1Open
    BY <2>0, <2>1, <2>2 DEF P1Open, mq_open, TypeOK
  <2>3. ASSUME NEW p \in Peer, PeerOpen(p) PROVE NameIsCleanedUp'
    BY <2>0, <2>1, <2>3 DEF PeerOpen, mq_open, TypeOK
  <2>4. CASE P1Send
    <3>1. pc'[P1] \notin {"off", "done"}
      BY <2>0, <2>4 DEF P1Send, mq_send, TypeOK, NotifiesP1, Registered, Signalled, Received
    <3> QED
      BY <2>0, <2>1, <3>1
  <2>5. ASSUME NEW p \in Peer, PeerReply(p) PROVE NameIsCleanedUp'
    <3>1. pc'[p] \notin {"off", "done"}
      BY <2>0, <2>5 DEF PeerReply, mq_send, TypeOK, Received, Proc
    <3> QED
      BY <2>0, <2>1, <3>1
  <2>6. ASSUME NEW x \in Proc, mq_unlink(x) PROVE NameIsCleanedUp'
    BY <2>6 DEF mq_unlink, NameIsCleanedUp
  <2>7. ASSUME NEW x \in Proc, mq_receive(x) \/ mq_close(x) PROVE NameIsCleanedUp'
    BY <2>0, <2>1, <2>7 DEF mq_receive, mq_close, TypeOK, Received
  <2>8. CASE P1Notify \/ P1Sigaction \/ P1Sigwait
    BY <2>0, <2>1, <2>8 DEF P1Notify, P1Sigaction, P1Sigwait, TypeOK
  <2>9. CASE UNCHANGED vars
    BY <2>9 DEF vars, NameIsCleanedUp
  <2> QED
    BY <2>2, <2>3, <2>4, <2>5, <2>6, <2>7, <2>8, <2>9 DEF Next, Step
<1> QED
  BY InitIInv, NextIInv, <1>1, <1>2, PTL DEF Spec
=============================================================================
