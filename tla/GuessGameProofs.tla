-------------------------- MODULE GuessGameProofs ---------------------------
(***************************************************************************)
(* GuessGame proved for any number of connections, users, rooms, players   *)
(* per room and commands, and any upper limit above 1: the hall's list and *)
(* its calls to answer agree, and the number to find stays in the range    *)
(* players are told.                                                       *)
(***************************************************************************)
EXTENDS GuessGame, FiniteSetTheorems, SequenceTheorems, NaturalsInduction,
        WellFoundedInduction, TLAPS

\* The hall: each user waits once, those that wait are those with a call, and a
\* room is asked for as soon as there are enough.
QueueDistinct == \A i, j \in 1 .. Len(queues) : queues[i].role = queues[j].role => i = j
QueueIsCalls ==
    \A r \in Role : resps[r] # NoCall <=> \E i \in 1 .. Len(queues) : queues[i].role = r
QueueLength == IF cs.at = "newservice" THEN Len(queues) = PLAYERS ELSE Len(queues) < PLAYERS
HallInv == QueueDistinct /\ QueueIsCalls /\ QueueLength

\* A room that is not played has no players and the whole range.
FreshRooms ==
    \A k \in Room : room[k].st \notin {"play", "over"} =>
        room[k].turns = <<>> /\ room[k].lo = 1 /\ room[k].hi = UP_LIMIT

\* A room is started once: the hall sends one "start", to a room it just made, and
\* until it has, or until the room has taken it, the room is new.
Starts(q) == {i \in 1 .. Len(q) : q[i].kind = "start"}
StartOnce ==
    /\ cs.at = "start" => room[cs.room].st = "new"
    /\ \A k \in Room :
        /\ Starts(inbox[k]) # {} => room[k].st = "new" /\ ~(cs.at = "start" /\ cs.room = k)
        /\ \A i, j \in Starts(inbox[k]) : i = j
RoomInv == FreshRooms /\ StartOnce /\ NumberInRange

IInv == TypeOK /\ HallInv /\ RoomInv

-----------------------------------------------------------------------------
(* What the model's operators on messages return. *)

\* Induction over the naturals, for a set.
LEMMA SetInduction ==
    ASSUME NEW T, T \subseteq Nat, 0 \in T, \A n \in T : n + 1 \in T
    PROVE  T = Nat
<1> SUFFICES ASSUME Nat \ T # {} PROVE FALSE
  OBVIOUS
<1>1. PICK x \in Nat \ T : \A y \in Nat \ T : ~(<<y, x>> \in OpToRel(<, Nat))
  BY NatLessThanWellFounded, WFMin
<1>2. x # 0 /\ x - 1 \in Nat
  OBVIOUS
<1>3. x - 1 \in T
  <2>1. <<x - 1, x>> \in {ss \in Nat \X Nat : ss[1] < ss[2]}
    BY <1>2
  <2>2. <<x - 1, x>> \in OpToRel(<, Nat)
    BY <2>1, Zenon DEF OpToRel
  <2> QED
    BY <1>1, <1>2, <2>2
<1> QED
  BY <1>2, <1>3

\* To picks messages of ms and adds none: what the messages of ms for a are, all
\* that To(a, ms) holds is.
LEMMA ToElements ==
    ASSUME NEW a, NEW ms, NEW S, Len(ms) \in Nat,
           \A i \in 1 .. Len(ms) : ms[i].conn = a => ms[i] \in S
    PROVE  To(a, ms) \in Seq(S)
<1> DEFINE N == Len(ms)
           Step(f, n) == IF n = 0 THEN <<>>
                         ELSE IF ms[n].conn = a THEN Append(f[n - 1], ms[n]) ELSE f[n - 1]
           Upto(n) == {f \in [0 .. n -> Seq(S)] : \A i \in 0 .. n : f[i] = Step(f, i)}
           T == {n \in Nat : n <= N => Upto(n) # {}}
<1>1. 0 \in T
  <2>1. [i \in 0 .. 0 |-> <<>>] \in Upto(0)
    OBVIOUS
  <2> QED
    BY <2>1
<1>2. ASSUME NEW n \in T PROVE n + 1 \in T
  <2> HIDE DEF Upto
  <2>1. n \in Nat /\ n + 1 \in Nat /\ (n <= N => Upto(n) # {})
    BY <1>2
  <2> SUFFICES ASSUME n + 1 <= N PROVE Upto(n + 1) # {}
    BY <2>1
  <2>2. PICK f \in Upto(n) : TRUE
    BY <2>1
  <2> USE DEF Upto
  <2> DEFINE e == IF ms[n + 1].conn = a THEN Append(f[n], ms[n + 1]) ELSE f[n]
             g == [i \in 0 .. n + 1 |-> IF i = n + 1 THEN e ELSE f[i]]
  <2>3. f \in [0 .. n -> Seq(S)] /\ f[n] \in Seq(S) /\ n + 1 \in 1 .. N
    OBVIOUS
  <2>4. e \in Seq(S)
    <3>1. CASE ms[n + 1].conn = a
      BY <2>3, <3>1, AppendProperties
    <3>2. CASE ms[n + 1].conn # a
      BY <2>3, <3>2
    <3> QED
      BY <3>1, <3>2
  <2>5. g \in [0 .. n + 1 -> Seq(S)]
    BY <2>3, <2>4
  <2>6. ASSUME NEW i \in 0 .. n + 1 PROVE g[i] = Step(g, i)
    <3>1. CASE i = n + 1
      BY <3>1
    <3>2. CASE i # n + 1
      <4>1. i \in 0 .. n /\ g[i] = f[i] /\ (i # 0 => g[i - 1] = f[i - 1])
        BY <3>2
      <4>2. f[i] = Step(f, i)
        BY <2>2, <4>1
      <4> QED
        BY <4>1, <4>2
    <3> QED
      BY <3>1, <3>2
  <2> QED
    BY <2>5, <2>6
<1>3. N \in T
  <2> HIDE DEF T
  <2>1. T \subseteq Nat
    BY DEF T
  <2> QED
    BY <1>1, <1>2, <2>1, SetInduction
<1>4. PICK f \in Upto(N) : TRUE
  BY <1>3
<1> DEFINE first == CHOOSE h : h = [n \in 0 .. N |-> Step(h, n)]
<1>5. f = [n \in 0 .. N |-> Step(f, n)]
  BY <1>4
<1>6. first = [n \in 0 .. N |-> Step(first, n)]
  <2> HIDE DEF Step
  <2> QED
    BY <1>5
<1>7. To(a, ms) = first[N]
  BY DEF To
<1> HIDE DEF first
<1> DEFINE U == {n \in Nat : n <= N => first[n] \in Seq(S)}
<1>8. 0 \in U
  BY <1>6
<1>9. ASSUME NEW n \in U PROVE n + 1 \in U
  <2> SUFFICES ASSUME n + 1 <= N PROVE first[n + 1] \in Seq(S)
    BY <1>9
  <2>1. first[n] \in Seq(S) /\ n \in Nat /\ n + 1 \in 1 .. N /\ n + 1 \in 0 .. N
    BY <1>9
  <2>2. first[n + 1] = Step(first, n + 1)
    <3> HIDE DEF Step
    <3> QED
      BY <1>6, <2>1
  <2>3. n + 1 # 0 /\ (n + 1) - 1 = n
    BY <2>1
  <2>4. CASE ms[n + 1].conn = a
    <3>1. first[n + 1] = Append(first[n], ms[n + 1])
      BY <2>2, <2>3, <2>4
    <3> QED
      BY <2>1, <2>4, <3>1, AppendProperties
  <2>5. CASE ms[n + 1].conn # a
    BY <2>1, <2>2, <2>3, <2>5
  <2> QED
    BY <2>4, <2>5
<1>10. N \in U
  <2> HIDE DEF U
  <2>1. U \subseteq Nat
    BY DEF U
  <2> QED
    BY <1>8, <1>9, <2>1, SetInduction
<1> QED
  BY <1>7, <1>10

\* Services of different kinds are different, and so are their messages.
LEMMA Kinds ==
    /\ \A a \in Conn : a \in Service /\ MsgTo(a) = AgentMsg(a) /\ a # Hall /\ a \notin Room
    /\ \A k \in Room : k \in Service /\ MsgTo(k) = RoomMsg /\ k # Hall /\ k \notin Conn
                       /\ k \in Nat /\ k # 0
    /\ Hall \in Service /\ MsgTo(Hall) = HallMsg /\ Hall \notin Conn /\ Hall \notin Room
    /\ 1 \in Room
  BY GameAssumption DEF Service, MsgTo, Room

\* The messages of the code are messages of those kinds.
LEMMA MsgTypes ==
    ASSUME NEW a \in Conn, NEW c \in Co(a), NEW r \in Role \cup {NoRole}
    PROVE  /\ \A v \in {0} \cup Room : Msg("resp", a, c, r, v) \in AgentMsg(a)
           /\ r \in Role => Msg("game_over", a, 0, r, 0) \in AgentMsg(a)
           /\ r \in Role => Msg("ready", a, c, r, 0) \in HallMsg
           /\ Msg("offline", a, c, r, 0) \in HallMsg
           /\ Msg("leave", a, c, r, 0) \in RoomMsg
           /\ Msg("online", a, c, r, 0) \in RoomMsg
<1>1. /\ \A v \in {0} \cup Room : Msg("resp", a, c, r, v) \in AgentMsg(a)
      /\ r \in Role => Msg("game_over", a, 0, r, 0) \in AgentMsg(a)
  BY DEF Msg, AgentMsg
<1>2. /\ r \in Role => Msg("ready", a, c, r, 0) \in HallMsgOf(a)
      /\ Msg("offline", a, c, r, 0) \in HallMsgOf(a)
  BY DEF Msg, HallMsgOf
<1>3. Msg("leave", a, c, r, 0) \in RoomMsgOf(a) /\ Msg("online", a, c, r, 0) \in RoomMsgOf(a)
  BY DEF Msg, RoomMsgOf
<1> QED
  BY <1>1, <1>2, <1>3 DEF HallMsg, RoomMsg

LEMMA GuessType ==
    ASSUME NEW a \in Conn, NEW r \in Role, NEW v \in 1 .. UP_LIMIT
    PROVE  Msg("guess", a, 0, r, v) \in RoomMsg
<1>1. Msg("guess", a, 0, r, v) \in RoomMsgOf(a)
  BY DEF Msg, RoomMsgOf
<1> QED
  BY <1>1 DEF RoomMsg

LEMMA HallMsgFields ==
    ASSUME NEW m \in HallMsg
    PROVE  /\ m.conn \in Conn /\ m.co \in Co(m.conn) /\ m.role \in Role \cup {NoRole}
           /\ m.kind \in {"ready", "offline"} /\ (m.kind = "ready" => m.role \in Role)
<1>1. PICK a \in Conn : m \in HallMsgOf(a)
  BY DEF HallMsg
<1> QED
  BY <1>1 DEF HallMsgOf

LEMMA RoomMsgFields ==
    ASSUME NEW m \in RoomMsg
    PROVE  /\ m.kind \in {"start", "leave", "online", "guess"} /\ m.role \in Role \cup {NoRole}
           /\ m.co # 0 => m.kind # "start"
           /\ m.kind = "start" => m.val \in Members
           /\ m.kind # "start" => m.conn \in Conn /\ m.co \in {0} \cup Co(m.conn)
           /\ m.kind \in {"leave", "online"} => m.co \in Co(m.conn)
           /\ m.kind = "guess" => m.val \in 1 .. UP_LIMIT
<1>1. CASE m \in StartMsg
  BY <1>1 DEF StartMsg
<1>2. ASSUME NEW a \in Conn, m \in RoomMsgOf(a)
      PROVE  /\ m.kind \in {"leave", "online", "guess"} /\ m.role \in Role \cup {NoRole}
             /\ m.conn = a /\ m.co \in {0} \cup Co(a)
             /\ m.kind \in {"leave", "online"} => m.co \in Co(a)
             /\ m.kind = "guess" => m.val \in 1 .. UP_LIMIT
  BY <1>2 DEF RoomMsgOf
<1> QED
  BY <1>1, <1>2 DEF RoomMsg

-----------------------------------------------------------------------------
(* Inboxes. *)

LEMMA PostOK ==
    ASSUME NEW box, BoxOK(box), NEW s \in Service, NEW m \in MsgTo(s)
    PROVE  /\ BoxOK(Post(box, s, m))
           /\ Post(box, s, m)[s] \in {box[s], Append(box[s], m)}
           /\ \A t \in Service \ {s} : Post(box, s, m)[t] = box[t]
<1>1. CASE Post(box, s, m) = box
  BY <1>1
<1>2. CASE Post(box, s, m) = [box EXCEPT ![s] = Append(@, m)]
  <2>1. Append(box[s], m) \in Seq(MsgTo(s))
    BY AppendProperties DEF BoxOK
  <2> DEFINE new == [box EXCEPT ![s] = Append(@, m)]
  <2>2. /\ new[s] = Append(box[s], m) /\ \A t \in Service \ {s} : new[t] = box[t]
        /\ new = [t \in Service |-> new[t]]
    BY DEF BoxOK
  <2>3. BoxOK(new)
    <3> HIDE DEF new
    <3> QED
      BY <2>1, <2>2 DEF BoxOK
  <2> HIDE DEF new
  <2> QED
    BY <1>2, <2>2, <2>3 DEF new
<1> QED
  BY <1>1, <1>2 DEF Post

\* An answer goes to an agent, and to nobody else.
LEMMA AnswerOK ==
    ASSUME NEW box, BoxOK(box), NEW m, m.conn \in Conn, m.co \in Co(m.conn),
           m.role \in Role \cup {NoRole}, NEW v \in {0} \cup Room
    PROVE  /\ BoxOK(Answer(box, m, v))
           /\ \A t \in Room \cup {Hall} : Answer(box, m, v)[t] = box[t]
<1>1. Msg("resp", m.conn, m.co, m.role, v) \in MsgTo(m.conn)
  BY MsgTypes, Kinds
<1>2. m.conn \in Service /\ \A t \in Room \cup {Hall} : t \in Service \ {m.conn}
  BY Kinds
<1> QED
  BY <1>1, <1>2, PostOK DEF Answer

LEMMA TookOK ==
    ASSUME TypeOK, NEW s \in Service, inbox[s] # <<>>
    PROVE  /\ BoxOK(Took(s)) /\ Head(inbox[s]) \in MsgTo(s)
           /\ Took(s)[s] = Tail(inbox[s])
           /\ \A t \in Service \ {s} : Took(s)[t] = inbox[t]
<1>1. BoxOK(inbox)
  BY DEF TypeOK
<1>2. Tail(inbox[s]) \in Seq(MsgTo(s)) /\ Head(inbox[s]) \in MsgTo(s)
  BY <1>1, HeadTailProperties DEF BoxOK
<1>3. /\ Took(s)[s] = Tail(inbox[s]) /\ \A t \in Service \ {s} : Took(s)[t] = inbox[t]
      /\ Took(s) = [t \in Service |-> Took(s)[t]]
  BY <1>1 DEF BoxOK, Took
<1> QED
  BY <1>1, <1>2, <1>3 DEF BoxOK

LEMMA DeliverOK ==
    ASSUME NEW box, BoxOK(box), NEW ms, Len(ms) \in Nat,
           \A i \in 1 .. Len(ms) : ms[i].conn \in Conn => ms[i] \in AgentMsg(ms[i].conn)
    PROVE  /\ BoxOK(Deliver(box, ms))
           /\ \A t \in Room \cup {Hall} : Deliver(box, ms)[t] = box[t]
<1> DEFINE new == Deliver(box, ms)
<1>1. \A s \in Service : new[s] = IF s \in Conn /\ agent[s].up THEN box[s] \o To(s, ms) ELSE box[s]
  BY DEF Deliver
<1>2. new = [s \in Service |-> new[s]]
  BY DEF Deliver
<1> HIDE DEF new
<1>3. ASSUME NEW s \in Service PROVE new[s] \in Seq(MsgTo(s))
  <2>1. box[s] \in Seq(MsgTo(s))
    BY DEF BoxOK
  <2>2. CASE s \in Conn /\ agent[s].up
    <3>1. To(s, ms) \in Seq(MsgTo(s))
      BY <2>2, ToElements, Kinds
    <3> QED
      BY <1>1, <2>1, <2>2, <3>1, ConcatProperties
  <2>3. CASE ~(s \in Conn /\ agent[s].up)
    BY <1>1, <2>1, <2>3
  <2> QED
    BY <2>2, <2>3
<1>4. \A t \in Room \cup {Hall} : new[t] = box[t]
  BY <1>1, Kinds
<1> QED
  BY <1>2, <1>3, <1>4 DEF new, BoxOK

\* The "start" messages of a mailbox that takes or loses one.
LEMMA AppendStarts ==
    ASSUME NEW S, NEW q \in Seq(S), NEW m \in S
    PROVE  /\ m.kind # "start" => Starts(Append(q, m)) = Starts(q)
           /\ (m.kind = "start" /\ Starts(q) = {}) => Starts(Append(q, m)) = {Len(q) + 1}
<1>1. /\ Len(q) \in Nat /\ Len(Append(q, m)) = Len(q) + 1
      /\ \A i \in 1 .. Len(q) : Append(q, m)[i] = q[i]
      /\ Append(q, m)[Len(q) + 1] = m
  BY AppendProperties, LenProperties
<1>2. \A i : i \in 1 .. Len(q) + 1 <=> i \in 1 .. Len(q) \/ i = Len(q) + 1
  BY <1>1
<1> QED
  BY <1>1, <1>2 DEF Starts

LEMMA TailStarts ==
    ASSUME NEW S, NEW q \in Seq(S), q # <<>>, \A i, j \in Starts(q) : i = j
    PROVE  /\ \A i, j \in Starts(Tail(q)) : i = j
           /\ Starts(q) = {} => Starts(Tail(q)) = {}
           /\ Head(q).kind = "start" => Starts(q) # {} /\ Starts(Tail(q)) = {}
<1>1. /\ Len(q) \in Nat /\ Len(q) > 0 /\ Len(Tail(q)) = Len(q) - 1 /\ Head(q) = q[1]
      /\ \A i \in 1 .. Len(Tail(q)) : Tail(q)[i] = q[i + 1]
  BY HeadTailProperties, LenProperties, EmptySeq
<1>2. \A i \in Starts(Tail(q)) : i + 1 \in Starts(q) /\ i \in Int /\ i + 1 # 1
  BY <1>1 DEF Starts
<1>3. Head(q).kind = "start" => 1 \in Starts(q)
  BY <1>1 DEF Starts
<1> QED
  BY <1>2, <1>3

\* What a step of an agent does to the inboxes: they stay well formed and no room
\* gets or loses a "start".
BoxStep(box) == BoxOK(box) /\ \A k \in Room : Starts(box[k]) = Starts(inbox[k])

LEMMA BoxSteps ==
    ASSUME TypeOK, NEW box, BoxStep(box)
    PROVE  /\ BoxStep(inbox)
           /\ \A a \in Conn \cup {Hall} : inbox[a] # <<>> => BoxStep(Took(a))
           /\ \A a \in Conn : BoxStep([inbox EXCEPT ![a] = <<>>])
           /\ \A m \in HallMsg : BoxStep(Post(box, Hall, m))
           /\ \A k \in Room, m \in RoomMsg : m.kind # "start" => BoxStep(Post(box, k, m))
<1>1. BoxStep(inbox)
  BY DEF BoxStep, TypeOK
<1>2. ASSUME NEW a \in Conn \cup {Hall}, inbox[a] # <<>> PROVE BoxStep(Took(a))
  <2>1. a \in Service /\ \A k \in Room : k \in Service \ {a}
    BY Kinds
  <2> QED
    BY <1>2, <2>1, TookOK DEF BoxStep
<1>3. ASSUME NEW a \in Conn PROVE BoxStep([inbox EXCEPT ![a] = <<>>])
  <2> DEFINE new == [inbox EXCEPT ![a] = <<>>]
  <2>1. a \in Service /\ \A k \in Room : k \in Service \ {a}
    BY Kinds
  <2>2. /\ new[a] = <<>> /\ \A t \in Service \ {a} : new[t] = inbox[t]
        /\ new = [t \in Service |-> new[t]]
    BY <2>1 DEF TypeOK, BoxOK
  <2>3. <<>> \in Seq(MsgTo(a))
    BY EmptySeq
  <2> HIDE DEF new
  <2>4. BoxOK(new)
    BY <2>2, <2>3 DEF TypeOK, BoxOK
  <2> QED
    BY <2>1, <2>2, <2>4 DEF BoxStep, new
<1>4. ASSUME NEW m \in HallMsg PROVE BoxStep(Post(box, Hall, m))
  <2>1. Hall \in Service /\ m \in MsgTo(Hall) /\ \A k \in Room : k \in Service \ {Hall}
    BY Kinds
  <2> QED
    BY <2>1, PostOK DEF BoxStep
<1>5. ASSUME NEW k \in Room, NEW m \in RoomMsg, m.kind # "start" PROVE BoxStep(Post(box, k, m))
  <2>1. k \in Service /\ m \in MsgTo(k) /\ MsgTo(k) = RoomMsg /\ Room \subseteq Service
    BY Kinds
  <2>2. box[k] \in Seq(RoomMsg)
    BY <2>1 DEF BoxStep, BoxOK
  <2>3. Starts(Append(box[k], m)) = Starts(box[k])
    BY <1>5, <2>2, AppendStarts
  <2>4. /\ BoxOK(Post(box, k, m))
        /\ Post(box, k, m)[k] \in {box[k], Append(box[k], m)}
        /\ \A t \in Service \ {k} : Post(box, k, m)[t] = box[t]
    BY <2>1, PostOK DEF BoxStep
  <2> QED
    BY <2>1, <2>3, <2>4 DEF BoxStep
<1> QED
  BY <1>1, <1>2, <1>3, <1>4, <1>5

LEMMA AnswerStep ==
    ASSUME NEW box, BoxStep(box), NEW m, m.conn \in Conn, m.co \in Co(m.conn),
           m.role \in Role \cup {NoRole}, NEW v \in {0} \cup Room
    PROVE  BoxStep(Answer(box, m, v))
  BY AnswerOK DEF BoxStep

-----------------------------------------------------------------------------
(* Agents. *)

AgentsOK(ag) == ag = [a \in Conn |-> ag[a]] /\ \A a \in Conn : ag[a] \in AgentState(a)
DbOK(d) == d \in [Role -> [exists : BOOLEAN, isgame : {0} \cup Room]]

LEMMA AgentWrite ==
    ASSUME TypeOK, NEW a \in Conn, NEW g \in AgentState(a)
    PROVE  AgentsOK([agent EXCEPT ![a] = g])
<1> DEFINE new == [agent EXCEPT ![a] = g]
<1>1. new = [b \in Conn |-> new[b]] /\ \A b \in Conn : new[b] = IF b = a THEN g ELSE agent[b]
  BY DEF TypeOK
<1> HIDE DEF new
<1>2. AgentsOK(new)
  BY <1>1 DEF AgentsOK, TypeOK
<1> QED
  BY <1>2 DEF new

\* What commands write to an agent and to its coroutines.
LEMMA AgentWrites ==
    ASSUME NEW a \in Conn, NEW g \in AgentState(a), NEW c \in Co(a)
    PROVE  /\ Ends(g, c) \in AgentState(a)
           /\ \A at \in {"leave", "online"} : Yields(g, c, at) \in AgentState(a)
           /\ \A at \in {"hgetall", "hmset"} : g.co[c].role \in Role => Yields(g, c, at) \in AgentState(a)
           /\ \A r \in Role \cup {NoRole}, v \in {0} \cup Room :
                /\ [g EXCEPT !.name = r, !.isgame = v] \in AgentState(a)
                /\ [g EXCEPT !.isgame = v] \in AgentState(a)
           /\ g.co[c] \in Coroutine /\ g.name \in Role \cup {NoRole} /\ g.isgame \in {0} \cup Room
<1>1. Idle \in Coroutine
  BY DEF Idle, Coroutine
<1>2. g.co[c] \in Coroutine
  BY DEF AgentState
<1>3. \A e \in Coroutine : [g EXCEPT !.co[c] = e] \in AgentState(a)
  BY DEF AgentState
<1>4. /\ \A at \in {"leave", "online"} : [g.co[c] EXCEPT !.at = at] \in Coroutine
      /\ \A at \in {"hgetall", "hmset"} :
            g.co[c].role \in Role => [g.co[c] EXCEPT !.at = at] \in Coroutine
  BY <1>2 DEF Coroutine
<1>5. \A at : Yields(g, c, at) = [g EXCEPT !.co[c] = [g.co[c] EXCEPT !.at = at]]
  BY DEF Yields, AgentState
<1>6. Ends(g, c) = [g EXCEPT !.co[c] = Idle]
  BY DEF Ends
<1>7. \A r \in Role \cup {NoRole}, v \in {0} \cup Room :
        /\ [g EXCEPT !.name = r, !.isgame = v] \in AgentState(a)
        /\ [g EXCEPT !.isgame = v] \in AgentState(a)
  BY DEF AgentState
<1>8. g.name \in Role \cup {NoRole} /\ g.isgame \in {0} \cup Room
  BY DEF AgentState
<1>9. Ends(g, c) \in AgentState(a)
  BY <1>1, <1>3, <1>6
<1>10. /\ \A at \in {"leave", "online"} : Yields(g, c, at) \in AgentState(a)
       /\ \A at \in {"hgetall", "hmset"} : g.co[c].role \in Role => Yields(g, c, at) \in AgentState(a)
  BY <1>3, <1>4, <1>5
<1> QED
  BY <1>2, <1>7, <1>8, <1>9, <1>10

LEMMA NewAgentType ==
    ASSUME NEW a \in Conn
    PROVE  NewAgent(a) \in AgentState(a) /\ Exited(a) \in AgentState(a)
<1>1. Idle \in Coroutine
  BY DEF Idle, Coroutine
<1>2. [c \in Co(a) |-> Idle] \in [Co(a) -> Coroutine]
  BY <1>1
<1>3. MaxCmd[a] \in Nat /\ LoggedIn[a] \in Role \cup {NoRole}
  BY GameAssumption
<1>4. 0 \in 0 .. MaxCmd[a] /\ MaxCmd[a] \in 0 .. MaxCmd[a]
  BY <1>3
<1>5. NewAgent(a) \in AgentState(a)
  BY <1>2, <1>3, <1>4 DEF NewAgent, AgentState
<1>6. Exited(a) \in AgentState(a)
  BY <1>4, <1>5 DEF Exited, AgentState
<1> QED
  BY <1>5, <1>6

\* A step of an agent or of a client leaves the hall and the rooms alone.
LEMMA OfAgent ==
    ASSUME IInv, UNCHANGED <<queues, resps, cs, room>>, BoxStep(inbox'), AgentsOK(agent'), DbOK(db')
    PROVE  IInv'
<1>1. TypeOK'
  BY DEF IInv, TypeOK, BoxStep, AgentsOK, DbOK
<1>2. HallInv'
  BY DEF IInv, HallInv, QueueDistinct, QueueIsCalls, QueueLength
<1>3. RoomInv'
  BY DEF IInv, RoomInv, FreshRooms, StartOnce, NumberInRange, BoxStep
<1> QED
  BY <1>1, <1>2, <1>3 DEF IInv

\* A command of a client.
LEMMA ClientIInv ==
    ASSUME IInv, NEW a \in Conn, Client(a)
    PROVE  IInv'
<1> DEFINE c == agent[a].cmds + 1
           g == agent[a]
<1>0. TypeOK /\ g \in AgentState(a) /\ BoxStep(inbox) /\ DbOK(db)
  BY DEF IInv, TypeOK, BoxStep, DbOK
<1>1. CanStart(a) => c \in Co(a) /\ c \in 0 .. MaxCmd[a]
  BY <1>0, GameAssumption DEF CanStart, Co, AgentState
<1>2. g.name \in Role \cup {NoRole} /\ g.isgame \in {0} \cup Room
  BY <1>0 DEF AgentState
<1>3. ASSUME NEW r \in Role, NEW ok \in BOOLEAN, login(a, r, ok) PROVE IInv'
  <2> DEFINE e == [at |-> "exists", role |-> r, ok |-> ok]
             v == IF db[r].exists THEN 1 ELSE 0
  <2>1. /\ CanStart(a) /\ agent' = [agent EXCEPT ![a] = [g EXCEPT !.cmds = c, !.co[c] = e]]
        /\ inbox' = Answer(inbox, Msg("exists", a, c, r, 0), v)
        /\ UNCHANGED <<queues, resps, cs, room, db>>
    BY <1>3 DEF login
  <2>2. e \in Coroutine
    BY DEF Coroutine
  <2>3. [g EXCEPT !.cmds = c, !.co[c] = e] \in AgentState(a)
    BY <1>0, <1>1, <2>1, <2>2 DEF AgentState
  <2>4. AgentsOK(agent')
    <3> HIDE DEF e, c, g
    <3> QED
      BY <1>0, <2>1, <2>3, AgentWrite
  <2>5. v \in {0} \cup Room
    BY Kinds
  <2>6. BoxStep(inbox')
    <3> DEFINE m == Msg("exists", a, c, r, 0)
    <3>1. m.conn = a /\ m.co = c /\ m.role = r
      BY DEF Msg
    <3> HIDE DEF m, v, c
    <3> QED
      BY <1>0, <1>1, <2>1, <2>5, <3>1, AnswerStep DEF m
  <2> QED
    BY <1>0, <2>1, <2>4, <2>6, OfAgent
<1>4. ASSUME NEW kind \in {"ready", "offline"}, CanStart(a), CallHall(a, kind),
             kind = "ready" => g.name \in Role
      PROVE  IInv'
  <2> DEFINE m == Msg(kind, a, c, g.name, 0)
  <2>1. /\ agent' = [agent EXCEPT ![a] = [g EXCEPT !.cmds = c, !.co[c].at = kind]]
        /\ inbox' = Post(inbox, Hall, m)
        /\ UNCHANGED <<queues, resps, cs, room, db>>
    BY <1>4 DEF CallHall
  <2>2. [g.co[c] EXCEPT !.at = kind] \in Coroutine
    <3>1. g.co[c] \in Coroutine
      BY <1>0, <1>1, <1>4 DEF AgentState
    <3> QED
      BY <1>4, <3>1 DEF Coroutine
  <2>3. [g EXCEPT !.cmds = c, !.co[c] = [g.co[c] EXCEPT !.at = kind]] \in AgentState(a)
    BY <1>0, <1>1, <1>4, <2>2 DEF AgentState
  <2>4. [g EXCEPT !.cmds = c, !.co[c].at = kind]
            = [g EXCEPT !.cmds = c, !.co[c] = [g.co[c] EXCEPT !.at = kind]]
    BY <1>0 DEF AgentState
  <2>5. AgentsOK(agent')
    <3> HIDE DEF c, g
    <3> QED
      BY <1>0, <2>1, <2>3, <2>4, AgentWrite
  <2>6. m \in HallMsg
    BY <1>1, <1>2, <1>4, MsgTypes
  <2>7. BoxStep(inbox')
    <3> HIDE DEF m
    <3> QED
      BY <1>0, <2>1, <2>6, BoxSteps
  <2> QED
    BY <1>0, <2>1, <2>5, <2>7, OfAgent
<1>5. CASE ready(a)
  BY <1>2, <1>4, <1>5 DEF ready
<1>6. CASE client_quit(a)
  BY <1>4, <1>6 DEF client_quit
<1>7. ASSUME NEW v \in 1 .. UP_LIMIT, guess(a, v) PROVE IInv'
  <2> DEFINE m == Msg("guess", a, 0, g.name, v)
  <2>1. /\ CanStart(a) /\ g.name # NoRole /\ g.isgame # 0
        /\ agent' = [agent EXCEPT ![a].cmds = @ + 1]
        /\ inbox' = Post(inbox, g.isgame, m)
        /\ UNCHANGED <<queues, resps, cs, room, db>>
    BY <1>7 DEF guess
  <2>2. [g EXCEPT !.cmds = c] \in AgentState(a)
    BY <1>0, <1>1, <2>1 DEF AgentState
  <2>3. agent' = [agent EXCEPT ![a] = [g EXCEPT !.cmds = c]]
    BY <1>0, <2>1 DEF TypeOK, AgentState
  <2>4. AgentsOK(agent')
    <3> HIDE DEF c, g
    <3> QED
      BY <1>0, <2>2, <2>3, AgentWrite
  <2>5. m \in RoomMsg /\ m.kind # "start" /\ g.isgame \in Room
    BY <1>2, <2>1, GuessType DEF Msg
  <2>6. BoxStep(inbox')
    <3> HIDE DEF m, g
    <3> QED
      BY <1>0, <2>1, <2>5, BoxSteps
  <2> QED
    BY <1>0, <2>1, <2>4, <2>6, OfAgent
<1>8. Typed[a] \subseteq Role
  BY GameAssumption
<1> QED
  BY <1>3, <1>5, <1>6, <1>7, <1>8 DEF Client

\* The answer an agent takes is for one of its coroutines.
LEMMA ResumedFacts ==
    ASSUME TypeOK, NEW a \in Conn, NEW at, Resumed(a, at)
    PROVE  LET m == Head(inbox[a])
           IN  /\ m.co \in Co(a) /\ m.conn = a /\ m.role \in Role \cup {NoRole}
               /\ m.val \in {0} \cup Room
               /\ agent[a] \in AgentState(a)
               /\ at \in {"exists", "hgetall", "hmset"} => agent[a].co[m.co].role \in Role
               /\ BoxStep(Took(a)) /\ BoxStep([inbox EXCEPT ![a] = <<>>])
               /\ UNCHANGED <<queues, resps, cs, room>>
<1> DEFINE m == Head(inbox[a])
<1>1. /\ inbox[a] # <<>> /\ m.kind = "resp" /\ agent[a].co[m.co].at = at
      /\ UNCHANGED <<queues, resps, cs, room>>
  BY DEF Resumed
<1>2. a \in Service /\ MsgTo(a) = AgentMsg(a) /\ BoxStep(inbox)
  BY Kinds DEF TypeOK, BoxStep
<1>3. m \in AgentMsg(a)
  BY <1>1, <1>2, TookOK
<1>4. m.co \in Co(a) /\ m.conn = a /\ m.role \in Role \cup {NoRole} /\ m.val \in {0} \cup Room
  BY <1>1, <1>3 DEF AgentMsg
<1>5. agent[a] \in AgentState(a)
  BY DEF TypeOK
<1>6. at \in {"exists", "hgetall", "hmset"} => agent[a].co[m.co].role \in Role
  <2>1. agent[a].co[m.co] \in Coroutine
    BY <1>4, <1>5 DEF AgentState
  <2> QED
    BY <1>1, <2>1 DEF Coroutine
<1>7. BoxStep(Took(a)) /\ BoxStep([inbox EXCEPT ![a] = <<>>])
  BY <1>1, <1>2, BoxSteps
<1> QED
  BY <1>1, <1>4, <1>5, <1>6, <1>7

\* The steps of CMD.login.
LEMMA LoginIInv ==
    ASSUME IInv, NEW a \in Conn,
           LoginExists(a) \/ LoginNew(a) \/ LoginOld(a) \/ LoginOnline(a)
    PROVE  IInv'
<1> DEFINE m == Head(inbox[a])
           g == agent[a]
           r == agent[a].co[m.co].role
<1>0. TypeOK /\ DbOK(db)
  BY DEF IInv, TypeOK, DbOK
<1>1. ASSUME LoginExists(a) PROVE IInv'
  <2>1. /\ m.co \in Co(a) /\ m.conn = a /\ m.role \in Role \cup {NoRole} /\ g \in AgentState(a)
        /\ r \in Role /\ BoxStep(Took(a)) /\ UNCHANGED <<queues, resps, cs, room>>
    BY <1>0, <1>1, ResumedFacts DEF LoginExists
  <2>2. Yields(g, m.co, "hgetall") \in AgentState(a) /\ Yields(g, m.co, "hmset") \in AgentState(a)
    BY <2>1, AgentWrites
  <2>3. \/ /\ agent' = [agent EXCEPT ![a] = Yields(g, m.co, "hgetall")]
           /\ inbox' = Answer(Took(a), m, db[r].isgame)
           /\ UNCHANGED db
        \/ /\ agent' = [agent EXCEPT ![a] = Yields(g, m.co, "hmset")]
           /\ inbox' = Answer(Took(a), m, 1)
           /\ db' = [db EXCEPT ![r] = [exists |-> TRUE, isgame |-> 0]]
    BY <1>1 DEF LoginExists
  <2>4. db[r].isgame \in {0} \cup Room /\ 1 \in {0} \cup Room
    BY <1>0, <2>1, Kinds DEF DbOK
  <2> HIDE DEF m, g, r
  <2>5. DbOK(db')
    <3>1. DbOK([db EXCEPT ![r] = [exists |-> TRUE, isgame |-> 0]])
      BY <1>0 DEF DbOK
    <3> QED
      BY <1>0, <2>3, <3>1
  <2>6. AgentsOK(agent')
    BY <1>0, <2>2, <2>3, AgentWrite
  <2>7. BoxStep(inbox')
    <3>1. \A v \in {0} \cup Room : BoxStep(Answer(Took(a), m, v))
      BY <2>1, AnswerStep
    <3> QED
      BY <2>3, <2>4, <3>1
  <2> QED
    BY <2>1, <2>5, <2>6, <2>7, OfAgent
<1>2. ASSUME LoginNew(a) PROVE IInv'
  <2>1. /\ m.co \in Co(a) /\ g \in AgentState(a)
        /\ r \in Role /\ BoxStep(Took(a)) /\ UNCHANGED <<queues, resps, cs, room>>
    BY <1>0, <1>2, ResumedFacts DEF LoginNew
  <2>2. agent' = [agent EXCEPT ![a] = [Ends(g, m.co) EXCEPT !.name = r, !.isgame = 0]]
        /\ inbox' = Took(a) /\ UNCHANGED db
    BY <1>2 DEF LoginNew
  <2> HIDE DEF m, g, r
  <2>3. Ends(g, m.co) \in AgentState(a)
    BY <2>1, AgentWrites
  <2>4. [Ends(g, m.co) EXCEPT !.name = r, !.isgame = 0] \in AgentState(a)
    BY <2>1, <2>3, AgentWrites
  <2> QED
    BY <1>0, <2>1, <2>2, <2>4, AgentWrite, OfAgent
<1>3. ASSUME LoginOld(a) PROVE IInv'
  <2> DEFINE h == [agent[a] EXCEPT !.name = r, !.isgame = m.val]
             q == Msg("online", a, m.co, r, 0)
  <2>1. /\ m.co \in Co(a) /\ g \in AgentState(a) /\ m.val \in {0} \cup Room
        /\ r \in Role /\ BoxStep(Took(a)) /\ UNCHANGED <<queues, resps, cs, room>>
    BY <1>0, <1>3, ResumedFacts DEF LoginOld
  <2>2. \/ agent' = [agent EXCEPT ![a] = Ends(g, m.co)] /\ inbox' = Took(a)
        \/ /\ m.val # 0
           /\ agent' = [agent EXCEPT ![a] = Yields(h, m.co, "online")]
           /\ inbox' = Post(Took(a), m.val, q)
        \/ /\ agent' = [agent EXCEPT ![a] = [Ends(h, m.co) EXCEPT !.isgame = 0]]
           /\ inbox' = Took(a)
    BY <1>3 DEF LoginOld
  <2>3. UNCHANGED db
    BY <1>3 DEF LoginOld
  <2>4. h \in AgentState(a)
    <3>1. [g EXCEPT !.name = r, !.isgame = m.val] \in AgentState(a)
      <4> HIDE DEF m, g, r
      <4> QED
        BY <2>1, AgentWrites
    <3> QED
      BY <3>1
  <2>5. q \in RoomMsg /\ q.kind # "start"
    BY <2>1, MsgTypes DEF Msg
  <2> HIDE DEF m, g, r, h, q
  <2>6. /\ Ends(g, m.co) \in AgentState(a) /\ Yields(h, m.co, "online") \in AgentState(a)
        /\ Ends(h, m.co) \in AgentState(a)
    BY <2>1, <2>4, AgentWrites
  <2>7. [Ends(h, m.co) EXCEPT !.isgame = 0] \in AgentState(a)
    BY <2>1, <2>6, AgentWrites
  <2>8. AgentsOK(agent')
    BY <1>0, <2>2, <2>6, <2>7, AgentWrite
  <2>9. BoxStep(inbox')
    BY <1>0, <2>1, <2>2, <2>5, BoxSteps
  <2> QED
    BY <1>0, <2>1, <2>3, <2>8, <2>9, OfAgent
<1>4. ASSUME LoginOnline(a) PROVE IInv'
  <2>1. /\ m.co \in Co(a) /\ g \in AgentState(a)
        /\ BoxStep(Took(a)) /\ UNCHANGED <<queues, resps, cs, room>>
    BY <1>0, <1>4, ResumedFacts DEF LoginOnline
  <2>2. /\ \/ agent' = [agent EXCEPT ![a] = Ends(g, m.co)]
           \/ agent' = [agent EXCEPT ![a] = [Ends(g, m.co) EXCEPT !.isgame = 0]]
        /\ inbox' = Took(a) /\ UNCHANGED db
    BY <1>4 DEF LoginOnline
  <2> HIDE DEF m, g, r
  <2>3. Ends(g, m.co) \in AgentState(a)
    BY <2>1, AgentWrites
  <2>4. [Ends(g, m.co) EXCEPT !.isgame = 0] \in AgentState(a)
    BY <2>1, <2>3, AgentWrites
  <2> QED
    BY <1>0, <2>1, <2>2, <2>3, <2>4, AgentWrite, OfAgent
<1> QED
  BY <1>1, <1>2, <1>3, <1>4

\* The answers of the hall and of a room, and the end of a game.
LEMMA AnsweredIInv ==
    ASSUME IInv, NEW a \in Conn,
           ReadyAnswered(a) \/ QuitHall(a) \/ QuitRoom(a) \/ game_over(a)
    PROVE  IInv'
<1> DEFINE m == Head(inbox[a])
           g == agent[a]
<1>0. TypeOK /\ DbOK(db)
  BY DEF IInv, TypeOK, DbOK
<1>1. ASSUME ReadyAnswered(a) PROVE IInv'
  <2>1. /\ m.co \in Co(a) /\ g \in AgentState(a) /\ m.val \in {0} \cup Room
        /\ BoxStep(Took(a)) /\ UNCHANGED <<queues, resps, cs, room>>
    BY <1>0, <1>1, ResumedFacts DEF ReadyAnswered
  <2>2. /\ \/ agent' = [agent EXCEPT ![a] = Ends(g, m.co)] /\ UNCHANGED db
           \/ /\ agent' = [agent EXCEPT ![a] = [Ends(g, m.co) EXCEPT !.isgame = m.val]]
              /\ db' = [db EXCEPT ![Ends(g, m.co).name].isgame = m.val]
        /\ inbox' = Took(a)
    BY <1>1 DEF ReadyAnswered
  <2> HIDE DEF m, g
  <2>3. Ends(g, m.co) \in AgentState(a)
    BY <2>1, AgentWrites
  <2>4. [Ends(g, m.co) EXCEPT !.isgame = m.val] \in AgentState(a)
    BY <2>1, <2>3, AgentWrites
  <2>5. DbOK(db')
    BY <1>0, <2>1, <2>2 DEF DbOK
  <2> QED
    BY <1>0, <2>1, <2>2, <2>3, <2>4, <2>5, AgentWrite, OfAgent
<1>2. ASSUME QuitHall(a) PROVE IInv'
  <2> DEFINE q == Msg("leave", a, m.co, g.name, 0)
  <2>1. /\ m.co \in Co(a) /\ g \in AgentState(a) /\ BoxStep([inbox EXCEPT ![a] = <<>>])
        /\ BoxStep(Took(a)) /\ UNCHANGED <<queues, resps, cs, room>>
    BY <1>0, <1>2, ResumedFacts DEF QuitHall
  <2>2. \/ agent' = [agent EXCEPT ![a] = Exited(a)] /\ inbox' = [inbox EXCEPT ![a] = <<>>]
        \/ /\ g.isgame # 0
           /\ agent' = [agent EXCEPT ![a] = Yields(g, m.co, "leave")]
           /\ inbox' = Post(Took(a), g.isgame, q)
        \/ agent' = [agent EXCEPT ![a] = Ends(g, m.co)] /\ inbox' = Took(a)
    BY <1>2 DEF QuitHall
  <2>3. UNCHANGED db
    BY <1>2 DEF QuitHall
  <2>4. g.name \in Role \cup {NoRole} /\ g.isgame \in {0} \cup Room
    BY <2>1 DEF AgentState
  <2>5. q \in RoomMsg /\ q.kind # "start"
    BY <2>1, <2>4, MsgTypes DEF Msg
  <2> HIDE DEF m, g, q
  <2>6. Ends(g, m.co) \in AgentState(a) /\ Yields(g, m.co, "leave") \in AgentState(a)
    BY <2>1, AgentWrites
  <2>7. AgentsOK(agent')
    BY <1>0, <2>2, <2>6, AgentWrite, NewAgentType
  <2>8. BoxStep(inbox')
    BY <1>0, <2>1, <2>2, <2>4, <2>5, BoxSteps
  <2> QED
    BY <1>0, <2>1, <2>3, <2>7, <2>8, OfAgent
<1>3. ASSUME QuitRoom(a) PROVE IInv'
  <2>1. /\ m.co \in Co(a) /\ g \in AgentState(a) /\ BoxStep([inbox EXCEPT ![a] = <<>>])
        /\ BoxStep(Took(a)) /\ UNCHANGED <<queues, resps, cs, room>>
    BY <1>0, <1>3, ResumedFacts DEF QuitRoom
  <2>2. \/ agent' = [agent EXCEPT ![a] = Exited(a)] /\ inbox' = [inbox EXCEPT ![a] = <<>>]
        \/ agent' = [agent EXCEPT ![a] = Ends(g, m.co)] /\ inbox' = Took(a)
    BY <1>3 DEF QuitRoom
  <2>3. UNCHANGED db
    BY <1>3 DEF QuitRoom
  <2> HIDE DEF m, g
  <2>4. Ends(g, m.co) \in AgentState(a)
    BY <2>1, AgentWrites
  <2>5. AgentsOK(agent')
    BY <1>0, <2>2, <2>4, AgentWrite, NewAgentType
  <2> QED
    BY <1>0, <2>1, <2>2, <2>3, <2>5, OfAgent
<1>4. ASSUME game_over(a) PROVE IInv'
  <2>1. /\ inbox[a] # <<>> /\ agent' = [agent EXCEPT ![a].isgame = 0]
        /\ db' = [db EXCEPT ![g.name].isgame = 0] /\ inbox' = Took(a)
        /\ UNCHANGED <<queues, resps, cs, room>>
    BY <1>4 DEF game_over
  <2>2. g \in AgentState(a) /\ BoxStep(inbox)
    BY <1>0 DEF TypeOK, BoxStep
  <2>3. [g EXCEPT !.isgame = 0] \in AgentState(a)
    BY <2>2 DEF AgentState
  <2>4. AgentsOK(agent')
    BY <1>0, <2>1, <2>3, AgentWrite
  <2>5. DbOK(db')
    BY <1>0, <2>1, <2>2 DEF DbOK, AgentState
  <2>6. BoxStep(inbox')
    BY <1>0, <2>1, <2>2, BoxSteps
  <2> QED
    BY <2>1, <2>4, <2>5, <2>6, OfAgent
<1> QED
  BY <1>1, <1>2, <1>3, <1>4

-----------------------------------------------------------------------------
(* The hall. *)

\* tremove of the one client with a name: the others stay, in their order.
LEMMA RemoveRole ==
    ASSUME TypeOK, QueueDistinct, NEW r
    PROVE  /\ Without(r) \in Seq(Player) /\ Len(Without(r)) <= Len(queues)
           /\ \A i, j \in 1 .. Len(Without(r)) : Without(r)[i].role = Without(r)[j].role => i = j
           /\ \A s : (\E i \in 1 .. Len(Without(r)) : Without(r)[i].role = s)
                        <=> s # r /\ \E i \in 1 .. Len(queues) : queues[i].role = s
<1> DEFINE q == Without(r)
           n == Len(queues)
<1>0. queues \in Seq(Player) /\ n \in Nat
  BY LenProperties DEF TypeOK
<1>1. CASE ~\E i \in 1 .. n : queues[i].role = r
  <2>1. q = queues
    BY <1>1 DEF Without, RemoveFirstMatch
  <2> HIDE DEF q
  <2>2. /\ q \in Seq(Player) /\ Len(q) <= Len(queues)
        /\ \A i, j \in 1 .. Len(q) : q[i].role = q[j].role => i = j
    BY <1>0, <2>1 DEF QueueDistinct
  <2>3. \A s : (\E i \in 1 .. Len(q) : q[i].role = s)
                  <=> s # r /\ \E i \in 1 .. Len(queues) : queues[i].role = s
    BY <1>1, <2>1
  <2> QED
    BY <2>2, <2>3 DEF q
<1>2. ASSUME NEW p \in 1 .. n, queues[p].role = r
      PROVE  /\ q \in Seq(Player) /\ Len(q) <= Len(queues)
             /\ \A i, j \in 1 .. Len(q) : q[i].role = q[j].role => i = j
             /\ \A s : (\E i \in 1 .. Len(q) : q[i].role = s)
                          <=> s # r /\ \E i \in 1 .. Len(queues) : queues[i].role = s
  <2>1. \A i \in 1 .. n : queues[i].role = r <=> i = p
    BY <1>2 DEF QueueDistinct
  <2>2. SelectInSeq(queues, LAMBDA client : client.role = r) = p
    <3>1. {i \in 1 .. n : queues[i].role = r} = {p}
      BY <2>1
    <3>2. Min({p}) = p
      BY <1>0 DEF Min
    <3> QED
      BY <3>1, <3>2 DEF SelectInSeq
  <2>3. q = RemoveAt(queues, p)
    BY <1>2, <2>2 DEF Without, RemoveFirstMatch
  <2> DEFINE s1 == SubSeq(queues, 1, p - 1)
             s2 == SubSeq(queues, p + 1, n)
  <2>4. \A i \in 1 .. n : queues[i] \in Player
    BY <1>0, ElementOfSeq
  <2>5. p \in Int /\ 1 <= p /\ p <= n
    BY <1>0
  <2>6. /\ s1 \in Seq(Player) /\ Len(s1) = p - 1
        /\ \A i \in 1 .. p - 1 : s1[i] = queues[i]
    <3>1. /\ s1 \in Seq(Player) /\ Len(s1) = IF 1 <= p - 1 THEN (p - 1) - 1 + 1 ELSE 0
          /\ \A i \in 1 .. (p - 1) - 1 + 1 : s1[i] = queues[1 + i - 1]
      <4>1. \A i \in 1 .. p - 1 : queues[i] \in Player
        BY <1>0, <2>4, <2>5
      <4>2. 1 \in Int /\ p - 1 \in Int
        BY <2>5
      <4> QED
        BY <4>1, <4>2, SubSeqProperties
    <3> HIDE DEF s1
    <3>2. (p - 1) - 1 + 1 = p - 1 /\ \A i \in Int : 1 + i - 1 = i
      BY <2>5
    <3>3. Len(s1) = p - 1
      BY <2>5, <3>1
    <3> QED
      BY <3>1, <3>2, <3>3
  <2>7. /\ s2 \in Seq(Player) /\ Len(s2) = n - p
        /\ \A i \in 1 .. n - p : s2[i] = queues[p + i]
    <3>1. /\ s2 \in Seq(Player) /\ Len(s2) = IF p + 1 <= n THEN n - (p + 1) + 1 ELSE 0
          /\ \A i \in 1 .. n - (p + 1) + 1 : s2[i] = queues[(p + 1) + i - 1]
      <4>1. \A i \in p + 1 .. n : queues[i] \in Player
        BY <1>0, <2>4, <2>5
      <4>2. p + 1 \in Int /\ n \in Int
        BY <1>0, <2>5
      <4> QED
        BY <4>1, <4>2, SubSeqProperties
    <3> HIDE DEF s2
    <3>2. Len(s2) = n - p
      BY <1>0, <2>5, <3>1
    <3>3. ASSUME NEW i \in 1 .. n - p PROVE s2[i] = queues[p + i]
      <4>1. i \in 1 .. n - (p + 1) + 1 /\ (p + 1) + i - 1 = p + i
        BY <1>0, <2>5
      <4> QED
        BY <3>1, <4>1
    <3> QED
      BY <3>1, <3>2, <3>3
  <2>8. q = s1 \o s2
    BY <2>3 DEF RemoveAt
  <2> HIDE DEF q, s1, s2
  <2>9. /\ q \in Seq(Player) /\ Len(q) = n - 1
        /\ \A i \in 1 .. n - 1 : q[i] = IF i <= p - 1 THEN queues[i] ELSE queues[i + 1]
    <3>1. Len(s1) + Len(s2) = n - 1
      BY <1>0, <2>5, <2>6, <2>7
    <3>2. /\ q \in Seq(Player) /\ Len(q) = Len(s1) + Len(s2)
          /\ \A i \in 1 .. Len(s1) + Len(s2) :
                q[i] = IF i <= Len(s1) THEN s1[i] ELSE s2[i - Len(s1)]
      BY <2>6, <2>7, <2>8, ConcatProperties
    <3>3. ASSUME NEW i \in 1 .. n - 1
          PROVE  q[i] = IF i <= p - 1 THEN queues[i] ELSE queues[i + 1]
      <4>1. CASE i <= p - 1
        <5>1. i \in 1 .. p - 1
          BY <1>0, <2>5, <4>1
        <5> QED
          BY <2>6, <3>1, <3>2, <4>1, <5>1
      <4>2. CASE ~(i <= p - 1)
        <5> DEFINE k == i - (p - 1)
        <5>1. k \in 1 .. n - p /\ p + k = i + 1
          BY <1>0, <2>5, <4>2
        <5>2. Len(s1) = p - 1 /\ i \in 1 .. Len(s1) + Len(s2)
          BY <2>6, <3>1
        <5>3. q[i] = s2[k]
          BY <3>2, <4>2, <5>2
        <5> HIDE DEF k
        <5>4. s2[k] = queues[p + k]
          BY <2>7, <5>1
        <5> QED
          BY <4>2, <5>1, <5>3, <5>4
      <4> QED
        BY <4>1, <4>2
    <3> QED
      BY <3>1, <3>2, <3>3
  <2> DEFINE old(i) == IF i <= p - 1 THEN i ELSE i + 1
  <2>10. /\ \A i \in 1 .. n - 1 : q[i] = queues[old(i)] /\ old(i) \in 1 .. n /\ old(i) # p
         /\ \A i, j \in 1 .. n - 1 : old(i) = old(j) => i = j
         /\ \A j \in 1 .. n : j # p => \E i \in 1 .. n - 1 : old(i) = j
    <3>1. \A i \in 1 .. n - 1 : q[i] = queues[old(i)] /\ old(i) \in 1 .. n /\ old(i) # p
      BY <1>0, <2>5, <2>9
    <3>2. \A i, j \in 1 .. n - 1 : old(i) = old(j) => i = j
      BY <1>0, <2>5
    <3>3. ASSUME NEW j \in 1 .. n, j # p PROVE \E i \in 1 .. n - 1 : old(i) = j
      <4>1. CASE j < p
        BY <1>0, <2>5, <4>1
      <4>2. CASE j > p
        <5>1. j - 1 \in 1 .. n - 1 /\ old(j - 1) = j
          BY <1>0, <2>5, <4>2
        <5> QED
          BY <5>1
      <4> QED
        BY <2>5, <3>3, <4>1, <4>2
    <3> QED
      BY <3>1, <3>2, <3>3
  <2> HIDE DEF old
  <2>11. \A i, j \in 1 .. n - 1 : q[i].role = q[j].role => i = j
    BY <2>10, ZenonT(60) DEF QueueDistinct
  <2>12. \A s : (\E i \in 1 .. n - 1 : q[i].role = s)
                   <=> s # r /\ \E i \in 1 .. n : queues[i].role = s
    <3>1. ASSUME NEW s, NEW i \in 1 .. n - 1, q[i].role = s
          PROVE  s # r /\ \E j \in 1 .. n : queues[j].role = s
      <4>1. queues[old(i)].role = s /\ old(i) \in 1 .. n /\ old(i) # p
        BY <2>10, <3>1
      <4> QED
        BY <2>1, <4>1
    <3>2. ASSUME NEW s, s # r, NEW j \in 1 .. n, queues[j].role = s
          PROVE  \E i \in 1 .. n - 1 : q[i].role = s
      <4>1. j # p
        BY <2>1, <3>2
      <4>2. PICK i \in 1 .. n - 1 : old(i) = j
        BY <2>10, <4>1
      <4> QED
        BY <2>10, <3>2, <4>2
    <3> QED
      BY <3>1, <3>2
  <2>13. n - 1 <= n
    BY <1>0
  <2> QED
    BY <2>9, <2>11, <2>12, <2>13
<1> QED
  BY <1>1, <1>2

\* A step of the hall that neither makes nor starts a room.
LEMMA OfHall ==
    ASSUME IInv, UNCHANGED <<agent, room, db>>, BoxStep(inbox'), queues' \in Seq(Player),
           resps' \in [Role -> {NoCall} \cup UNION {Call(a) : a \in Conn}],
           cs' \in Lock, cs.at # "start", cs'.at # "start", HallInv'
    PROVE  IInv'
<1>1. TypeOK'
  BY DEF IInv, TypeOK, BoxStep
<1>2. RoomInv'
  BY DEF IInv, RoomInv, FreshRooms, StartOnce, NumberInRange, BoxStep
<1> QED
  BY <1>1, <1>2 DEF IInv

LEMMA CallTypes ==
    ASSUME TypeOK, NEW r \in Role, resps[r].conn \in Conn \/ resps[r] # NoCall
    PROVE  resps[r].conn \in Conn /\ resps[r].co \in Co(resps[r].conn) /\ resps[r] # NoCall
<1>1. NoCall.conn \notin Conn
  BY GameAssumption DEF NoCall
<1>2. PICK a \in Conn : resps[r] \in Call(a)
  BY <1>1 DEF TypeOK
<1> QED
  BY <1>1, <1>2 DEF Call

\* CMD.ready up to the request for a room: the client is put in front of those that
\* wait, none of which has its name.
LEMMA ReadyIInv ==
    ASSUME IInv, NEW m \in HallMsg, m.kind = "ready", NEW box, BoxStep(box),
           NEW lock \in Lock, lock.at = "free", cs.at = "free", HallReady(m, box, lock),
           UNCHANGED <<agent, room, db>>
    PROVE  IInv'
<1>0. TypeOK /\ HallInv /\ QueueDistinct /\ QueueIsCalls /\ QueueLength
  BY DEF IInv, HallInv
<1>1. m.conn \in Conn /\ m.co \in Co(m.conn) /\ m.role \in Role
  BY HallMsgFields
<1>2. CASE resps[m.role] # NoCall
  <2>1. inbox' = Answer(box, m, 0) /\ cs' = lock /\ UNCHANGED <<queues, resps>>
    BY <1>2 DEF HallReady
  <2>2. BoxStep(inbox')
    BY <1>1, <2>1, AnswerStep
  <2>3. HallInv'
    BY <1>0, <2>1 DEF HallInv, QueueDistinct, QueueIsCalls, QueueLength
  <2> QED
    BY <1>0, <2>1, <2>2, <2>3, OfHall DEF TypeOK
<1>3. CASE resps[m.role] = NoCall
  <2> DEFINE p == [conn |-> m.conn, role |-> m.role]
             call == [conn |-> m.conn, co |-> m.co]
             n == Len(queues)
  <2>1. /\ queues' = <<p>> \o queues /\ resps' = [resps EXCEPT ![m.role] = call]
        /\ cs' = IF Len(queues') >= PLAYERS THEN [lock EXCEPT !.at = "newservice"] ELSE lock
        /\ inbox' = box
    BY <1>3 DEF HallReady
  <2>2. p \in Player /\ p.role = m.role /\ queues \in Seq(Player) /\ n \in Nat
    BY <1>0, <1>1, LenProperties DEF Player, TypeOK
  <2>3. call \in Call(m.conn) /\ call # NoCall
    BY <1>1, GameAssumption DEF Call, NoCall
  <2> HIDE DEF p, call
  <2>4. <<p>> \in Seq(Player) /\ Len(<<p>>) = 1 /\ <<p>>[1] = p
    BY <2>2
  <2>5. /\ queues' \in Seq(Player) /\ Len(queues') = n + 1
        /\ queues'[1] = p /\ \A i \in 1 .. n : queues'[i + 1] = queues[i]
    <3>1. /\ queues' \in Seq(Player) /\ Len(queues') = 1 + n
          /\ \A i \in 1 .. 1 + n : queues'[i] = IF i <= 1 THEN <<p>>[i] ELSE queues[i - 1]
      BY <2>1, <2>2, <2>4, ConcatProperties
    <3>2. 1 \in 1 .. 1 + n /\ 1 + n = n + 1
      BY <2>2
    <3>3. \A i \in 1 .. n : i + 1 \in 1 .. 1 + n /\ ~(i + 1 <= 1) /\ (i + 1) - 1 = i
      BY <2>2
    <3> QED
      BY <2>4, <3>1, <3>2, <3>3
  <2>6. \A i \in 1 .. n + 1 : i = 1 \/ \E j \in 1 .. n : i = j + 1
    <3> SUFFICES ASSUME NEW i \in 1 .. n + 1, i # 1 PROVE \E j \in 1 .. n : i = j + 1
      OBVIOUS
    <3>1. i - 1 \in 1 .. n /\ i = (i - 1) + 1
      BY <2>2
    <3> QED
      BY <3>1
  <2>7. \A i \in 1 .. n : queues[i].role # m.role
    BY <1>0, <1>1, <1>3 DEF QueueIsCalls
  <2>8. QueueDistinct'
    <3> SUFFICES ASSUME NEW i \in 1 .. n + 1, NEW j \in 1 .. n + 1, queues'[i].role = queues'[j].role
                 PROVE  i = j
      BY <2>5 DEF QueueDistinct
    <3>1. CASE i = 1 \/ j = 1
      BY <2>2, <2>5, <2>6, <2>7, <3>1
    <3>2. CASE i # 1 /\ j # 1
      BY <1>0, <2>5, <2>6, <3>2 DEF QueueDistinct
    <3> QED
      BY <3>1, <3>2
  <2>9. QueueIsCalls'
    <3> SUFFICES ASSUME NEW r \in Role
                 PROVE  resps'[r] # NoCall <=> \E i \in 1 .. n + 1 : queues'[i].role = r
      BY <2>5 DEF QueueIsCalls
    <3>1. CASE r = m.role
      <4>1. resps'[r] = call /\ queues'[1].role = r /\ 1 \in 1 .. n + 1
        BY <1>0, <1>1, <2>1, <2>2, <2>5, <3>1 DEF TypeOK
      <4> QED
        BY <2>3, <4>1
    <3>2. CASE r # m.role
      <4>1. resps'[r] = resps[r]
        BY <1>0, <2>1, <3>2 DEF TypeOK
      <4>2. (\E i \in 1 .. n + 1 : queues'[i].role = r) <=> \E i \in 1 .. n : queues[i].role = r
        <5>1. \A i \in 1 .. n : i + 1 \in 1 .. n + 1
          BY <2>2
        <5> QED
          BY <2>2, <2>5, <2>6, <3>2, <5>1
      <4> QED
        BY <1>0, <4>1, <4>2 DEF QueueIsCalls
    <3> QED
      BY <3>1, <3>2
  <2>10. /\ cs' \in Lock
         /\ (cs'.at = "newservice" /\ n + 1 >= PLAYERS) \/ (cs'.at = "free" /\ ~(n + 1 >= PLAYERS))
    <3>1. [lock EXCEPT !.at = "newservice"] \in Lock
          /\ [lock EXCEPT !.at = "newservice"].at = "newservice"
      BY DEF Lock
    <3> QED
      BY <2>1, <2>5, <3>1
  <2>11. QueueLength'
    <3>1. n < PLAYERS /\ PLAYERS \in Nat
      BY <1>0, GameAssumption DEF QueueLength
    <3> QED
      BY <2>2, <2>5, <2>10, <3>1 DEF QueueLength
  <2>12. resps' \in [Role -> {NoCall} \cup UNION {Call(a) : a \in Conn}]
    BY <1>0, <1>1, <2>1, <2>3 DEF TypeOK
  <2>13. cs'.at # "start"
    BY <2>10
  <2> QED
    BY <2>1, <2>5, <2>8, <2>9, <2>10, <2>11, <2>12, <2>13, OfHall DEF HallInv
<1> QED
  BY <1>2, <1>3

\* CMD.offline: the user no longer waits, and its waiting call is answered.
LEMMA OfflineIInv ==
    ASSUME IInv, NEW m \in HallMsg, NEW box, BoxStep(box),
           NEW lock \in Lock, lock.at = "free", cs.at = "free", HallOffline(m, box, lock),
           UNCHANGED <<agent, room, db>>
    PROVE  IInv'
<1>0. TypeOK /\ HallInv /\ QueueDistinct /\ QueueIsCalls /\ QueueLength
  BY DEF IInv, HallInv
<1>1. m.conn \in Conn /\ m.co \in Co(m.conn) /\ m.role \in Role \cup {NoRole}
  BY HallMsgFields
<1>2. /\ queues' \in Seq(Player) /\ Len(queues') <= Len(queues)
      /\ \A i, j \in 1 .. Len(queues') : queues'[i].role = queues'[j].role => i = j
      /\ \A s : (\E i \in 1 .. Len(queues') : queues'[i].role = s)
                   <=> s # m.role /\ \E i \in 1 .. Len(queues) : queues[i].role = s
  <2>1. queues' = Without(m.role)
    BY DEF HallOffline
  <2> DEFINE q == Without(m.role)
  <2>2. /\ q \in Seq(Player) /\ Len(q) <= Len(queues)
        /\ \A i, j \in 1 .. Len(q) : q[i].role = q[j].role => i = j
        /\ \A s : (\E i \in 1 .. Len(q) : q[i].role = s)
                     <=> s # m.role /\ \E i \in 1 .. Len(queues) : queues[i].role = s
    BY <1>0, RemoveRole, Zenon
  <2>3. queues' = q
    BY <2>1
  <2> HIDE DEF q
  <2> QED
    BY <2>2, <2>3
<1>3. cs' = lock /\ 0 \in {0} \cup Room /\ 1 \in {0} \cup Room
  BY Kinds DEF HallOffline
<1>4. QueueDistinct' /\ QueueLength'
  <2>1. Len(queues) < PLAYERS /\ PLAYERS \in Nat /\ Len(queues) \in Nat /\ Len(queues') \in Nat
    BY <1>0, <1>2, GameAssumption, LenProperties DEF QueueLength, TypeOK
  <2> QED
    BY <1>2, <1>3, <2>1 DEF QueueDistinct, QueueLength
<1>5. CASE m.role \in Role /\ resps[m.role] # NoCall
  <2> DEFINE call == Msg("ready", resps[m.role].conn, resps[m.role].co, m.role, 0)
  <2>1. /\ inbox' = Answer(Answer(box, call, 0), m, 1)
        /\ resps' = [resps EXCEPT ![m.role] = NoCall]
    BY <1>5 DEF HallOffline
  <2>2. call.conn \in Conn /\ call.co \in Co(call.conn) /\ call.role \in Role \cup {NoRole}
    BY <1>0, <1>5, CallTypes DEF Msg
  <2> HIDE DEF call
  <2>3. BoxStep(Answer(box, call, 0))
    BY <1>3, <2>2, AnswerStep
  <2>4. BoxStep(inbox')
    BY <1>1, <1>3, <2>1, <2>3, AnswerStep
  <2>5. resps' \in [Role -> {NoCall} \cup UNION {Call(a) : a \in Conn}]
    BY <1>0, <2>1 DEF TypeOK
  <2>6. QueueIsCalls'
    <3>1. \A r \in Role : resps'[r] = IF r = m.role THEN NoCall ELSE resps[r]
      BY <1>0, <2>1 DEF TypeOK
    <3> QED
      BY <1>0, <1>2, <3>1 DEF QueueIsCalls
  <2> QED
    BY <1>2, <1>3, <1>4, <2>4, <2>5, <2>6, OfHall DEF HallInv
<1>6. CASE ~(m.role \in Role /\ resps[m.role] # NoCall)
  <2>1. inbox' = Answer(box, m, 1) /\ UNCHANGED resps
    BY <1>6 DEF HallOffline
  <2>2. BoxStep(inbox')
    BY <1>1, <1>3, <2>1, AnswerStep
  <2>3. QueueIsCalls'
    BY <1>0, <1>2, <1>6, <2>1 DEF QueueIsCalls
  <2>4. resps' \in [Role -> {NoCall} \cup UNION {Call(a) : a \in Conn}]
    BY <1>0, <2>1 DEF TypeOK
  <2> QED
    BY <1>2, <1>3, <1>4, <2>2, <2>3, <2>4, OfHall DEF HallInv
<1> QED
  BY <1>5, <1>6

\* A request is served at once, after it waited, or waits.
LEMMA ServeIInv ==
    ASSUME IInv, HallReceive \/ HallWakeup
    PROVE  IInv'
<1>0. TypeOK /\ HallInv /\ RoomInv /\ BoxStep(inbox) /\ cs \in Lock
  BY DEF IInv, TypeOK, BoxStep
<1>1. ASSUME NEW m \in HallMsg, NEW box, BoxStep(box), NEW lock \in Lock, lock.at = "free",
             cs.at = "free", HallServes(m, box, lock)
      PROVE  IInv'
  <2>1. m.kind \in {"ready", "offline"} /\ UNCHANGED <<agent, room, db>>
    BY <1>1, HallMsgFields DEF HallServes
  <2>2. CASE m.kind = "ready"
    BY <1>1, <2>1, <2>2, ReadyIInv DEF HallServes
  <2>3. CASE m.kind # "ready"
    BY <1>1, <2>1, <2>3, OfflineIInv DEF HallServes
  <2> QED
    BY <2>2, <2>3
<1>2. inbox[Hall] # <<>> => Head(inbox[Hall]) \in HallMsg /\ BoxStep(Took(Hall))
  BY <1>0, TookOK, BoxSteps, Kinds
<1>3. CASE HallReceive /\ cs.at = "free"
  BY <1>0, <1>1, <1>2, <1>3 DEF HallReceive
<1>4. CASE HallReceive /\ cs.at # "free"
  <2>1. /\ inbox[Hall] # <<>> /\ cs' = [cs EXCEPT !.wait = Append(@, Head(inbox[Hall]))]
        /\ inbox' = Took(Hall) /\ UNCHANGED <<agent, queues, resps, room, db>>
    BY <1>4 DEF HallReceive
  <2>2. cs.wait \in Seq(HallMsg)
    BY <1>0 DEF Lock
  <2>3. Append(cs.wait, Head(inbox[Hall])) \in Seq(HallMsg)
    BY <1>2, <2>1, <2>2, AppendProperties
  <2>4. cs' \in Lock /\ cs'.at = cs.at /\ cs'.room = cs.room /\ cs'.members = cs.members
    BY <1>0, <2>1, <2>3 DEF Lock
  <2>5. TypeOK'
    BY <1>0, <1>2, <2>1, <2>4 DEF TypeOK, BoxStep
  <2>6. HallInv'
    BY <1>0, <2>1, <2>4 DEF HallInv, QueueDistinct, QueueIsCalls, QueueLength
  <2>7. FreshRooms' /\ NumberInRange'
    BY <1>0, <2>1 DEF RoomInv, FreshRooms, NumberInRange
  <2>8. StartOnce'
    <3>1. \A k \in Room : Starts(inbox'[k]) = Starts(inbox[k])
      BY <1>2, <2>1 DEF BoxStep
    <3> QED
      BY <1>0, <2>1, <2>4, <3>1, ZenonT(60) DEF RoomInv, StartOnce
  <2> QED
    BY <2>5, <2>6, <2>7, <2>8 DEF IInv, RoomInv
<1>5. CASE HallWakeup
  <2> DEFINE lock == [cs EXCEPT !.wait = Tail(@)]
  <2>1. cs.at = "free" /\ cs.wait # <<>> /\ HallServes(Head(cs.wait), inbox, lock)
    BY <1>5 DEF HallWakeup
  <2>2. cs.wait \in Seq(HallMsg)
    BY <1>0 DEF Lock
  <2>3. Tail(cs.wait) \in Seq(HallMsg) /\ Head(cs.wait) \in HallMsg
    BY <2>1, <2>2, HeadTailProperties
  <2>4. lock \in Lock /\ lock.at = "free"
    BY <1>0, <2>1, <2>3 DEF Lock
  <2> HIDE DEF lock
  <2> QED
    BY <1>0, <1>1, <2>1, <2>3, <2>4
<1> QED
  BY <1>3, <1>4, <1>5

\* The room is there: everyone who waits gets it and nobody waits any more.
LEMMA HallRoomIInv ==
    ASSUME IInv, HallRoom
    PROVE  IInv'
<1> DEFINE n == Len(queues)
           members == [i \in 1 .. PLAYERS |-> queues[n + 1 - i]]
<1>0. /\ TypeOK /\ QueueIsCalls /\ QueueLength /\ FreshRooms /\ StartOnce /\ NumberInRange
      /\ cs \in Lock /\ queues \in Seq(Player) /\ n \in Nat /\ PLAYERS \in Nat \ {0}
  BY LenProperties, GameAssumption DEF IInv, TypeOK, HallInv, RoomInv
<1>1. PICK k \in Room :
        /\ room[k].st = "none"
        /\ room' = [room EXCEPT ![k].st = "new"]
        /\ queues' = SubSeq(queues, 1, n - PLAYERS)
        /\ resps' = [r \in Role |-> IF \E i \in 1 .. PLAYERS : members[i].role = r THEN NoCall ELSE resps[r]]
        /\ inbox' = Deliver(inbox, [i \in 1 .. PLAYERS |->
                LET r == members[i].role IN Msg("resp", resps[r].conn, resps[r].co, r, k)])
        /\ cs' = [cs EXCEPT !.at = "start", !.room = k, !.members = members]
  BY DEF HallRoom
<1>2. cs.at = "newservice" /\ UNCHANGED <<agent, db>> /\ n = PLAYERS
  BY <1>0 DEF HallRoom, QueueLength
<1>3. \A i \in 1 .. PLAYERS : n + 1 - i \in 1 .. n /\ queues[n + 1 - i] \in Player
  <2>1. \A i \in 1 .. PLAYERS : n + 1 - i \in 1 .. n
    BY <1>0, <1>2
  <2> QED
    BY <1>0, <2>1, ElementOfSeq
<1>4. members \in Members
  BY <1>3 DEF Members
<1>5. \A i \in 1 .. PLAYERS : members[i].role \in Role /\ members[i] = queues[n + 1 - i]
  BY <1>3 DEF Player
<1>6. \A j \in 1 .. n : \E i \in 1 .. PLAYERS : members[i].role = queues[j].role
  <2> SUFFICES ASSUME NEW j \in 1 .. n PROVE \E i \in 1 .. PLAYERS : members[i].role = queues[j].role
    OBVIOUS
  <2>1. n + 1 - j \in 1 .. PLAYERS /\ n + 1 - (n + 1 - j) = j
    BY <1>0, <1>2
  <2> QED
    BY <1>5, <2>1
<1> HIDE DEF members
<1>7. BoxOK(inbox') /\ \A t \in Room \cup {Hall} : inbox'[t] = inbox[t]
  <2> DEFINE ms == [i \in 1 .. PLAYERS |->
                      LET r == members[i].role IN Msg("resp", resps[r].conn, resps[r].co, r, k)]
  <2>1. Len(ms) = PLAYERS /\ Len(ms) \in Nat
    BY <1>0
  <2>2. ASSUME NEW i \in 1 .. Len(ms), ms[i].conn \in Conn
        PROVE  ms[i] \in AgentMsg(ms[i].conn)
    <3> DEFINE r == members[i].role
    <3>1. ms[i] = Msg("resp", resps[r].conn, resps[r].co, r, k) /\ r \in Role
      BY <1>5, <2>1, <2>2
    <3>2. ms[i].conn = resps[r].conn
      BY <3>1 DEF Msg
    <3>3. resps[r].conn \in Conn /\ resps[r].co \in Co(resps[r].conn)
      BY <1>0, <2>2, <3>1, <3>2, CallTypes
    <3> HIDE DEF r, ms
    <3> QED
      BY <3>1, <3>2, <3>3, MsgTypes
  <2>3. inbox' = Deliver(inbox, ms) /\ BoxOK(inbox)
    BY <1>0, <1>1 DEF TypeOK
  <2> HIDE DEF ms
  <2> QED
    BY <2>1, <2>2, <2>3, DeliverOK
<1>8. queues' \in Seq(Player) /\ Len(queues') = 0
  <2>1. n - PLAYERS = 0
    BY <1>0, <1>2
  <2> QED
    BY <1>1, <2>1, SubSeqProperties
<1>9. HallInv'
  <2>1. QueueDistinct' /\ QueueLength'
    BY <1>0, <1>1, <1>8 DEF QueueDistinct, QueueLength, Lock
  <2>2. ASSUME NEW r \in Role PROVE resps'[r] = NoCall
    <3>1. (~\E i \in 1 .. PLAYERS : members[i].role = r) => resps[r] = NoCall
      BY <1>0, <1>6 DEF QueueIsCalls
    <3> QED
      BY <1>1, <3>1
  <2> QED
    BY <1>8, <2>1, <2>2 DEF HallInv, QueueIsCalls
<1>10. cs' \in Lock /\ cs'.at = "start" /\ cs'.room = k /\ cs'.members = members
  BY <1>0, <1>1, <1>4 DEF Lock
<1>11. /\ room' \in [Room -> RoomState] /\ room'[k] = [room[k] EXCEPT !.st = "new"]
       /\ \A j \in Room : j # k => room'[j] = room[j]
  <2>1. room \in [Room -> RoomState]
    BY <1>0 DEF TypeOK
  <2>2. [room[k] EXCEPT !.st = "new"] \in RoomState
    BY <2>1 DEF RoomState
  <2>3. room' = [room EXCEPT ![k] = [room[k] EXCEPT !.st = "new"]]
    BY <1>1
  <2> HIDE DEF RoomState
  <2> QED
    BY <2>1, <2>2, <2>3
<1>12. /\ room'[k].st = "new" /\ room'[k].turns = room[k].turns
       /\ room'[k].lo = room[k].lo /\ room'[k].hi = room[k].hi
  BY <1>0, <1>11 DEF TypeOK, RoomState
<1>13. TypeOK'
  <2>1. resps' \in [Role -> {NoCall} \cup UNION {Call(a) : a \in Conn}]
    BY <1>0, <1>1 DEF TypeOK
  <2> QED
    BY <1>0, <1>2, <1>4, <1>7, <1>8, <1>10, <1>11, <2>1 DEF TypeOK
<1>14. FreshRooms' /\ NumberInRange'
  BY <1>0, <1>1, <1>11, <1>12 DEF FreshRooms, NumberInRange
<1>15. StartOnce'
  <2>1. \A j \in Room : Starts(inbox'[j]) = Starts(inbox[j])
    BY <1>7
  <2>2. Starts(inbox[k]) = {}
    BY <1>0, <1>1 DEF StartOnce
  <2>3. \A j \in Room : Starts(inbox[j]) # {} => room'[j].st = "new" /\ cs'.room # j
    BY <1>0, <1>10, <1>11, <2>2 DEF StartOnce
  <2>4. \A j \in Room : \A h, i \in Starts(inbox[j]) : h = i
    BY <1>0 DEF StartOnce
  <2> QED
    BY <1>10, <1>12, <2>1, <2>3, <2>4 DEF StartOnce
<1> QED
  BY <1>9, <1>13, <1>14, <1>15 DEF IInv, RoomInv

\* The one "start" of a room.
LEMMA HallStartIInv ==
    ASSUME IInv, HallStart
    PROVE  IInv'
<1> DEFINE k == cs.room
           m == Msg("start", NoRole, 0, NoRole, cs.members)
<1>0. /\ TypeOK /\ HallInv /\ FreshRooms /\ StartOnce /\ NumberInRange /\ cs \in Lock
  BY DEF IInv, TypeOK, RoomInv
<1>1. /\ cs.at = "start" /\ inbox' = [inbox EXCEPT ![k] = Append(@, m)]
      /\ cs' = [Unlocked EXCEPT !.wait = cs.wait] /\ UNCHANGED <<agent, queues, resps, room, db>>
  BY DEF HallStart
<1>2. k \in Room /\ cs.members \in Members
  BY <1>0, <1>1 DEF TypeOK
<1>3. m \in RoomMsg /\ m.kind = "start"
  BY <1>2 DEF Msg, StartMsg, RoomMsg
<1>4. k \in Service /\ MsgTo(k) = RoomMsg /\ inbox[k] \in Seq(RoomMsg) /\ Room \subseteq Service
  BY <1>0, <1>2, Kinds DEF TypeOK, BoxOK
<1>5. Starts(inbox[k]) = {}
  BY <1>0, <1>1, <1>2 DEF StartOnce
<1> HIDE DEF m
<1>6. Starts(Append(inbox[k], m)) = {Len(inbox[k]) + 1} /\ Append(inbox[k], m) \in Seq(RoomMsg)
  BY <1>3, <1>4, <1>5, AppendStarts, AppendProperties
<1>7. /\ inbox'[k] = Append(inbox[k], m) /\ \A t \in Service \ {k} : inbox'[t] = inbox[t]
      /\ inbox' = [t \in Service |-> inbox'[t]]
  BY <1>0, <1>1, <1>4 DEF TypeOK, BoxOK
<1>8. BoxOK(inbox')
  BY <1>0, <1>4, <1>6, <1>7 DEF TypeOK, BoxOK
<1>9. cs' \in Lock /\ cs'.at = "free"
  BY <1>0, <1>1 DEF Lock, Unlocked
<1>10. TypeOK'
  BY <1>0, <1>1, <1>8, <1>9 DEF TypeOK
<1>11. HallInv'
  BY <1>0, <1>1, <1>9 DEF HallInv, QueueDistinct, QueueIsCalls, QueueLength
<1>12. FreshRooms' /\ NumberInRange'
  BY <1>0, <1>1 DEF FreshRooms, NumberInRange
<1>13. StartOnce'
  <2>1. \A j \in Room : j # k => Starts(inbox'[j]) = Starts(inbox[j])
    BY <1>4, <1>7
  <2>2. room[k].st = "new"
    BY <1>0, <1>1 DEF StartOnce
  <2>3. \A i, j \in Starts(inbox'[k]) : i = j
    BY <1>6, <1>7
  <2> HIDE DEF k
  <2> QED
    BY <1>0, <1>1, <1>9, <2>1, <2>2, <2>3, ZenonT(60) DEF StartOnce
<1> QED
  BY <1>10, <1>11, <1>12, <1>13 DEF IInv, RoomInv

-----------------------------------------------------------------------------
(* A room. *)

RoomOK(g) ==
    /\ g.st \notin {"play", "over"} => g.turns = <<>> /\ g.lo = 1 /\ g.hi = UP_LIMIT
    /\ g.st \in {"play", "over"} => g.rv \in g.lo .. g.hi
    /\ g.st = "play" => g.lo < g.hi

\* A step of room k: it becomes g, and keeps the "start" it has, or has none.
LEMMA OfRoom ==
    ASSUME IInv, NEW k \in Room, UNCHANGED <<queues, resps, cs, db, agent>>,
           NEW g \in RoomState, RoomOK(g), room' = [room EXCEPT ![k] = g],
           BoxOK(inbox'), \A j \in Room : j # k => inbox'[j] = inbox[j],
           \A i, j \in Starts(inbox'[k]) : i = j,
           Starts(inbox'[k]) # {} => g.st = "new" /\ Starts(inbox[k]) # {},
           (cs.at = "start" /\ cs.room = k) => g.st = "new"
    PROVE  IInv'
<1>0. TypeOK /\ HallInv /\ FreshRooms /\ StartOnce /\ NumberInRange /\ room \in [Room -> RoomState]
  BY DEF IInv, TypeOK, RoomInv
<1>1. /\ room' \in [Room -> RoomState] /\ room'[k] = g
      /\ \A j \in Room : j # k => room'[j] = room[j]
  BY <1>0
<1>2. TypeOK'
  BY <1>0, <1>1 DEF TypeOK
<1>3. HallInv'
  BY <1>0 DEF HallInv, QueueDistinct, QueueIsCalls, QueueLength
<1>4. FreshRooms' /\ NumberInRange'
  BY <1>0, <1>1 DEF FreshRooms, NumberInRange, RoomOK
<1>5. cs.at = "start" => cs.room \in Room
  BY <1>0 DEF TypeOK
<1>6. StartOnce'
  <2>1. cs.at = "start" => room'[cs.room].st = "new"
    BY <1>0, <1>1, <1>5 DEF StartOnce
  <2>2. ASSUME NEW j \in Room
        PROVE  /\ Starts(inbox'[j]) # {} => room'[j].st = "new" /\ ~(cs.at = "start" /\ cs.room = j)
               /\ \A h, i \in Starts(inbox'[j]) : h = i
    <3>1. CASE j = k
      BY <1>0, <1>1, <3>1 DEF StartOnce
    <3>2. CASE j # k
      BY <1>0, <1>1, <3>2 DEF StartOnce
    <3> QED
      BY <3>1, <3>2
  <2> QED
    BY <2>1, <2>2 DEF StartOnce
<1> QED
  BY <1>2, <1>3, <1>4, <1>6 DEF IInv, RoomInv

\* What a room takes, and what taking it leaves.
LEMMA RoomFacts ==
    ASSUME IInv, NEW k \in Room, NEW kind, RoomTakes(k, kind)
    PROVE  /\ Head(inbox[k]) \in RoomMsg /\ Head(inbox[k]).kind = kind
           /\ room[k] \in RoomState /\ RoomOK(room[k])
           /\ BoxOK(Took(k)) /\ Took(k)[k] = Tail(inbox[k])
           /\ \A j \in Room : j # k => Took(k)[j] = inbox[j]
           /\ \A i, j \in Starts(Tail(inbox[k])) : i = j
           /\ Starts(Tail(inbox[k])) # {} => room[k].st = "new" /\ Starts(inbox[k]) # {}
           /\ (cs.at = "start" /\ cs.room = k) => room[k].st = "new"
           /\ kind = "start" => Starts(inbox[k]) # {} /\ Starts(Tail(inbox[k])) = {}
           /\ Starts(inbox[k]) # {} => room[k].st = "new" /\ ~(cs.at = "start" /\ cs.room = k)
           /\ UNCHANGED <<queues, resps, cs, db, agent>>
<1>0. /\ TypeOK /\ FreshRooms /\ StartOnce /\ NumberInRange /\ room[k] \in RoomState /\ BoxOK(inbox)
      /\ k \in Service /\ MsgTo(k) = RoomMsg /\ Room \subseteq Service
  BY Kinds DEF IInv, TypeOK, RoomInv
<1>1. inbox[k] # <<>> /\ Head(inbox[k]).kind = kind /\ UNCHANGED <<queues, resps, cs, db, agent>>
  BY DEF RoomTakes
<1>2. /\ Head(inbox[k]) \in RoomMsg /\ BoxOK(Took(k)) /\ Took(k)[k] = Tail(inbox[k])
      /\ \A j \in Room : j # k => Took(k)[j] = inbox[j]
  BY <1>0, <1>1, TookOK
<1>3. RoomOK(room[k])
  BY <1>0 DEF FreshRooms, NumberInRange, RoomOK
<1>4. inbox[k] \in Seq(RoomMsg)
  BY <1>0 DEF BoxOK
<1>5. \A i, j \in Starts(inbox[k]) : i = j
  BY <1>0 DEF StartOnce
<1>6. /\ \A i, j \in Starts(Tail(inbox[k])) : i = j
      /\ Starts(inbox[k]) = {} => Starts(Tail(inbox[k])) = {}
      /\ kind = "start" => Starts(inbox[k]) # {} /\ Starts(Tail(inbox[k])) = {}
  BY <1>1, <1>4, <1>5, TailStarts
<1>7. /\ Starts(inbox[k]) # {} => room[k].st = "new" /\ ~(cs.at = "start" /\ cs.room = k)
      /\ (cs.at = "start" /\ cs.room = k) => room[k].st = "new"
  BY <1>0 DEF StartOnce
<1> QED
  BY <1>0, <1>1, <1>2, <1>3, <1>6, <1>7

\* CMD.start, in a room that is new and never again.
LEMMA RoomStartIInv ==
    ASSUME IInv, NEW k \in Room, RoomStart(k)
    PROVE  IInv'
<1> DEFINE members == Head(inbox[k]).val
<1>1. PICK rv \in 1 .. UP_LIMIT, turn \in 1 .. PLAYERS :
         room' = [room EXCEPT ![k] =
            [room[k] EXCEPT !.st = "play", !.rv = rv, !.turn = turn,
                      !.turns = [i \in 1 .. PLAYERS |-> members[i].role],
                      !.online = {members[i].role : i \in 1 .. PLAYERS},
                      !.conn = [r \in Role |->
                          IF \E i \in 1 .. PLAYERS : members[i].role = r
                          THEN members[CHOOSE i \in 1 .. PLAYERS : members[i].role = r].conn
                          ELSE room[k].conn[r]]]]
  BY DEF RoomStart
<1>2. RoomTakes(k, "start") /\ inbox' = Took(k)
  BY DEF RoomStart
<1>3. /\ Head(inbox[k]) \in RoomMsg /\ Head(inbox[k]).kind = "start"
      /\ room[k] \in RoomState /\ RoomOK(room[k])
      /\ BoxOK(inbox') /\ Starts(inbox'[k]) = {} /\ \A j \in Room : j # k => inbox'[j] = inbox[j]
      /\ room[k].st = "new" /\ ~(cs.at = "start" /\ cs.room = k)
      /\ UNCHANGED <<queues, resps, cs, db, agent>>
  BY <1>2, RoomFacts
<1>4. members \in Members
  BY <1>3, RoomMsgFields
<1>5. \A i \in 1 .. PLAYERS : members[i].role \in Role /\ members[i].conn \in Conn
  BY <1>4 DEF Members, Player
<1> HIDE DEF members
<1> DEFINE turns == [i \in 1 .. PLAYERS |-> members[i].role]
           online == {members[i].role : i \in 1 .. PLAYERS}
           conn == [r \in Role |->
                      IF \E i \in 1 .. PLAYERS : members[i].role = r
                      THEN members[CHOOSE i \in 1 .. PLAYERS : members[i].role = r].conn
                      ELSE room[k].conn[r]]
           g == [room[k] EXCEPT !.st = "play", !.rv = rv, !.turn = turn,
                                !.turns = turns, !.online = online, !.conn = conn]
<1>6. turns \in Seq(Role)
  <2>1. PLAYERS \in Nat
    BY GameAssumption
  <2>2. turns \in [1 .. PLAYERS -> Role]
    BY <1>5
  <2> QED
    BY <2>1, <2>2, IsASeq
<1>7. online \in SUBSET Role
  BY <1>5
<1>8. conn \in [Role -> Conn \cup {NoRole}]
  <2> SUFFICES ASSUME NEW r \in Role PROVE conn[r] \in Conn \cup {NoRole}
    OBVIOUS
  <2>1. CASE \E i \in 1 .. PLAYERS : members[i].role = r
    <3>1. (CHOOSE i \in 1 .. PLAYERS : members[i].role = r) \in 1 .. PLAYERS
      BY <2>1
    <3> QED
      BY <1>5, <2>1, <3>1
  <2>2. CASE ~\E i \in 1 .. PLAYERS : members[i].role = r
    BY <1>3, <2>2 DEF RoomState
  <2> QED
    BY <2>1, <2>2
<1>9. rv \in 0 .. UP_LIMIT /\ turn \in 0 .. PLAYERS
  BY GameAssumption
<1>10. room' = [room EXCEPT ![k] = g]
  BY <1>1
<1> HIDE DEF turns, online, conn
<1>11. g \in RoomState /\ g.st = "play" /\ g.rv = rv /\ g.lo = room[k].lo /\ g.hi = room[k].hi
  BY <1>3, <1>6, <1>7, <1>8, <1>9 DEF RoomState
<1>12. RoomOK(g)
  <2>1. room[k].lo = 1 /\ room[k].hi = UP_LIMIT
    BY <1>3 DEF RoomOK
  <2> QED
    BY <1>11, <2>1, GameAssumption DEF RoomOK
<1> HIDE DEF g
<1> QED
  BY <1>3, <1>10, <1>11, <1>12, OfRoom

\* CMD.offline and CMD.online: who is there changes, the game does not.
LEMMA RoomMoveIInv ==
    ASSUME IInv, NEW k \in Room, RoomOffline(k) \/ RoomOnline(k)
    PROVE  IInv'
<1> DEFINE m == Head(inbox[k])
<1>1. \E kind \in {"leave", "online"} : RoomTakes(k, kind)
  BY DEF RoomOffline, RoomOnline
<1>2. /\ m \in RoomMsg /\ m.kind \in {"leave", "online"}
      /\ room[k] \in RoomState /\ RoomOK(room[k])
      /\ BoxOK(Took(k)) /\ Took(k)[k] = Tail(inbox[k])
      /\ \A j \in Room : j # k => Took(k)[j] = inbox[j]
      /\ \A i, j \in Starts(Tail(inbox[k])) : i = j
      /\ Starts(Tail(inbox[k])) # {} => room[k].st = "new" /\ Starts(inbox[k]) # {}
      /\ (cs.at = "start" /\ cs.room = k) => room[k].st = "new"
      /\ UNCHANGED <<queues, resps, cs, db, agent>>
  BY <1>1, RoomFacts
<1>3. m.conn \in Conn /\ m.co \in Co(m.conn) /\ m.role \in Role \cup {NoRole}
  BY <1>2, RoomMsgFields
<1>4. inbox' = Answer(Took(k), m, 1) /\ 1 \in {0} \cup Room
  BY Kinds DEF RoomOffline, RoomOnline
<1> HIDE DEF m
<1>5. BoxOK(inbox') /\ \A j \in Room : inbox'[j] = Took(k)[j]
  BY <1>2, <1>3, <1>4, AnswerOK
<1>6. room \in [Room -> RoomState]
  BY DEF IInv, TypeOK
<1>7. \E g \in RoomState :
        /\ room' = [room EXCEPT ![k] = g]
        /\ g.st = room[k].st /\ g.turns = room[k].turns /\ g.rv = room[k].rv
        /\ g.lo = room[k].lo /\ g.hi = room[k].hi
  <2>1. CASE RoomOffline(k)
    <3> DEFINE g == [room[k] EXCEPT !.online = @ \ {m.role}]
    <3>1. room' = [room EXCEPT ![k] = g]
      BY <2>1 DEF RoomOffline, m
    <3>2. /\ g \in RoomState /\ g.st = room[k].st /\ g.turns = room[k].turns /\ g.rv = room[k].rv
          /\ g.lo = room[k].lo /\ g.hi = room[k].hi
      BY <1>2 DEF RoomState
    <3> QED
      BY <3>1, <3>2
  <2>2. CASE RoomOnline(k) /\ Playing(k, m.role)
    <3>1. m.role \in Role
      <4>1. \A i \in DOMAIN room[k].turns : room[k].turns[i] \in Role
        BY <1>2 DEF RoomState
      <4> QED
        BY <2>2, <4>1 DEF Playing, ToSet
    <3> DEFINE g == [room[k] EXCEPT !.online = @ \cup {m.role}, !.conn[m.role] = m.conn]
    <3>2. room' = [room EXCEPT ![k].online = @ \cup {m.role}, ![k].conn[m.role] = m.conn]
      BY <2>2 DEF RoomOnline, m
    <3>3. room' = [room EXCEPT ![k] = g]
      BY <1>2, <1>6, <3>2 DEF RoomState
    <3>4. /\ g \in RoomState /\ g.st = room[k].st /\ g.turns = room[k].turns /\ g.rv = room[k].rv
          /\ g.lo = room[k].lo /\ g.hi = room[k].hi
      BY <1>2, <1>3, <3>1 DEF RoomState
    <3> QED
      BY <3>3, <3>4
  <2>3. CASE RoomOnline(k) /\ ~Playing(k, m.role)
    <3>1. room' = room
      BY <2>3 DEF RoomOnline, m
    <3>2. room' = [room EXCEPT ![k] = room[k]]
      BY <1>6, <3>1
    <3> QED
      BY <1>2, <3>2
  <2> QED
    BY <2>1, <2>2, <2>3
<1>8. PICK g \in RoomState :
        /\ room' = [room EXCEPT ![k] = g]
        /\ g.st = room[k].st /\ g.turns = room[k].turns /\ g.rv = room[k].rv
        /\ g.lo = room[k].lo /\ g.hi = room[k].hi
  BY <1>7
<1>9. RoomOK(g)
  BY <1>2, <1>8 DEF RoomOK
<1>10. inbox'[k] = Tail(inbox[k]) /\ \A j \in Room : j # k => inbox'[j] = inbox[j]
  BY <1>2, <1>5
<1>11. /\ \A i, j \in Starts(inbox'[k]) : i = j
       /\ Starts(inbox'[k]) # {} => g.st = "new" /\ Starts(inbox[k]) # {}
       /\ (cs.at = "start" /\ cs.room = k) => g.st = "new"
  BY <1>2, <1>8, <1>10
<1>12. room' = [room EXCEPT ![k] = g] /\ BoxOK(inbox') /\ UNCHANGED <<queues, resps, cs, db, agent>>
  BY <1>2, <1>5, <1>8
<1> HIDE DEF m
<1> QED
  BY <1>9, <1>10, <1>11, <1>12, OfRoom

\* The messages of a room that ends: all are for agents, and of their kinds.
LEMMA TellOK ==
    ASSUME TypeOK, NEW box, BoxOK(box), NEW k \in Room, NEW told
    PROVE  BoxOK(Tell(box, k, told)) /\ \A j \in Room : Tell(box, k, told)[j] = box[j]
<1> DEFINE turns == room[k].turns
           ms == [i \in DOMAIN turns |->
                     LET r == turns[i]
                     IN  Msg("game_over", IF r \in told THEN room[k].conn[r] ELSE NoRole, 0, r, 0)]
<1>1. room[k] \in RoomState
  BY DEF TypeOK
<1>2. turns \in Seq(Role) /\ room[k].conn \in [Role -> Conn \cup {NoRole}]
  BY <1>1 DEF RoomState
<1>3. Tell(box, k, told) = Deliver(box, ms)
  BY DEF Tell
<1> HIDE DEF turns
<1>4. DOMAIN turns = 1 .. Len(turns) /\ Len(turns) \in Nat /\ \A i \in 1 .. Len(turns) : turns[i] \in Role
  BY <1>2, LenProperties, ElementOfSeq
<1>5. Len(ms) = Len(turns)
  BY <1>4
<1>6. ASSUME NEW i \in 1 .. Len(ms), ms[i].conn \in Conn
      PROVE  ms[i] \in AgentMsg(ms[i].conn)
  <2> DEFINE a == IF turns[i] \in told THEN room[k].conn[turns[i]] ELSE NoRole
  <2>1. ms[i] = Msg("game_over", a, 0, turns[i], 0) /\ turns[i] \in Role
    BY <1>4, <1>5
  <2> HIDE DEF a, ms
  <2>2. ms[i].conn = a
    BY <2>1 DEF Msg
  <2> QED
    BY <1>6, <2>1, <2>2 DEF Msg, AgentMsg
<1> HIDE DEF ms
<1> QED
  BY <1>3, <1>4, <1>5, <1>6, DeliverOK

LEMMA FailCallsOK ==
    ASSUME NEW box, BoxOK(box), NEW k \in Room
    PROVE  /\ BoxOK(FailCalls(box, k)) /\ FailCalls(box, k)[k] = <<>>
           /\ \A j \in Room : j # k => FailCalls(box, k)[j] = box[j]
<1> DEFINE q == box[k]
           new == [box EXCEPT ![k] = <<>>]
           ms == [i \in DOMAIN q |->
                    LET m == q[i] IN Msg("resp", IF m.co # 0 THEN m.conn ELSE NoRole, m.co, m.role, 0)]
<1>1. q \in Seq(RoomMsg) /\ k \in Service
  BY Kinds DEF BoxOK
<1>2. FailCalls(box, k) = Deliver(new, ms)
  BY DEF FailCalls
<1>3. /\ new[k] = <<>> /\ \A s \in Service : s # k => new[s] = box[s]
      /\ new = [s \in Service |-> new[s]]
  BY <1>1 DEF BoxOK
<1>4. BoxOK(new)
  <2> HIDE DEF new
  <2>1. <<>> \in Seq(MsgTo(k))
    BY EmptySeq
  <2> QED
    BY <1>3, <2>1 DEF BoxOK
<1> HIDE DEF q, new
<1>5. DOMAIN q = 1 .. Len(q) /\ Len(q) \in Nat /\ \A i \in 1 .. Len(q) : q[i] \in RoomMsg
  BY <1>1, LenProperties, ElementOfSeq
<1>6. Len(ms) = Len(q)
  BY <1>5
<1>7. ASSUME NEW i \in 1 .. Len(ms), ms[i].conn \in Conn
      PROVE  ms[i] \in AgentMsg(ms[i].conn)
  <2> DEFINE a == IF q[i].co # 0 THEN q[i].conn ELSE NoRole
  <2>1. ms[i] = Msg("resp", a, q[i].co, q[i].role, 0) /\ q[i] \in RoomMsg
    BY <1>5, <1>6
  <2> HIDE DEF ms
  <2>2. ms[i].conn = a
    BY <2>1 DEF Msg
  <2>3. q[i].co # 0 /\ a = q[i].conn
    BY <1>7, <2>2, GameAssumption
  <2>4. a \in Conn /\ q[i].co \in Co(a) /\ q[i].role \in Role \cup {NoRole}
    BY <2>1, <2>3, RoomMsgFields
  <2> HIDE DEF a
  <2> QED
    BY <2>1, <2>2, <2>4, MsgTypes
<1> HIDE DEF ms
<1>8. /\ BoxOK(Deliver(new, ms)) /\ \A t \in Room \cup {Hall} : Deliver(new, ms)[t] = new[t]
  BY <1>4, <1>5, <1>6, <1>7, DeliverOK
<1> QED
  BY <1>2, <1>3, <1>8, Kinds

\* A guess that was taken narrows the range, and the number stays in it.
LEMMA LimitsOK ==
    ASSUME NEW g \in RoomState, RoomOK(g), g.st \in {"play", "over"},
           NEW v \in 1 .. UP_LIMIT, v # g.rv, v >= g.lo, v <= g.hi
    PROVE  /\ Limits(g, v) \in RoomState /\ Limits(g, v).st = g.st
           /\ Limits(g, v).rv \in Limits(g, v).lo .. Limits(g, v).hi
<1>1. /\ g.rv \in g.lo .. g.hi /\ g.lo \in 1 .. UP_LIMIT /\ g.hi \in 1 .. UP_LIMIT
      /\ g.rv \in 0 .. UP_LIMIT /\ UP_LIMIT \in Nat
  BY GameAssumption DEF RoomOK, RoomState
<1>2. CASE v < g.rv
  <2>1. Limits(g, v) = [g EXCEPT !.lo = v + 1]
    BY <1>2 DEF Limits
  <2>2. v + 1 \in 1 .. UP_LIMIT /\ g.rv \in v + 1 .. g.hi
    BY <1>1, <1>2
  <2> QED
    BY <2>1, <2>2 DEF RoomState
<1>3. CASE ~(v < g.rv)
  <2>1. Limits(g, v) = [g EXCEPT !.hi = v - 1]
    BY <1>3 DEF Limits
  <2>2. v - 1 \in 1 .. UP_LIMIT /\ g.rv \in g.lo .. v - 1
    BY <1>1, <1>3
  <2> QED
    BY <2>1, <2>2 DEF RoomState
<1> QED
  BY <1>2, <1>3

\* The end of a game, from a state next that is one of a game.
LEMMA GameOverIInv ==
    ASSUME IInv, NEW k \in Room, RoomTakes(k, "guess"), room[k].st \in {"play", "over"},
           NEW next \in RoomState, next.rv \in next.lo .. next.hi, GameOver(k, next)
    PROVE  IInv'
<1>1. /\ BoxOK(Took(k)) /\ Took(k)[k] = Tail(inbox[k])
      /\ \A j \in Room : j # k => Took(k)[j] = inbox[j]
      /\ Starts(Tail(inbox[k])) = {} /\ ~(cs.at = "start" /\ cs.room = k)
      /\ UNCHANGED <<queues, resps, cs, db, agent>>
  BY RoomFacts
<1>2. TypeOK
  BY DEF IInv
<1>3. CASE /\ room' = [room EXCEPT ![k] = [NoRoom EXCEPT !.st = "gone"]]
           /\ inbox' = FailCalls(Tell(Took(k), k, room[k].online), k)
  <2> DEFINE g == [NoRoom EXCEPT !.st = "gone"]
             box == Tell(Took(k), k, room[k].online)
  <2>1. BoxOK(box) /\ \A j \in Room : box[j] = Took(k)[j]
    BY <1>1, <1>2, TellOK
  <2> HIDE DEF box
  <2>2. /\ BoxOK(inbox') /\ inbox'[k] = <<>>
        /\ \A j \in Room : j # k => inbox'[j] = inbox[j]
    BY <1>1, <1>3, <2>1, FailCallsOK DEF box
  <2>3. Starts(inbox'[k]) = {}
    BY <2>2 DEF Starts
  <2>4. g.st = "gone" /\ g.turns = <<>> /\ g.lo = 1 /\ g.hi = UP_LIMIT
    BY DEF NoRoom
  <2>5. g \in RoomState
    <3>1. NoRoom \in RoomState
      <4>1. /\ <<>> \in Seq(Role) /\ [r \in Role |-> NoRole] \in [Role -> Conn \cup {NoRole}]
            /\ 0 \in 0 .. UP_LIMIT /\ 0 \in 0 .. PLAYERS /\ 1 \in 1 .. UP_LIMIT /\ UP_LIMIT \in 1 .. UP_LIMIT
        BY GameAssumption, EmptySeq
      <4> QED
        BY <4>1 DEF NoRoom, RoomState
    <3> QED
      BY <3>1 DEF RoomState
  <2>6. RoomOK(g)
    BY <2>4 DEF RoomOK
  <2>7. room' = [room EXCEPT ![k] = g]
    BY <1>3
  <2> HIDE DEF g
  <2> QED
    BY <1>1, <2>2, <2>3, <2>5, <2>6, <2>7, OfRoom
<1>4. ASSUME NEW told, room' = [room EXCEPT ![k] = [next EXCEPT !.st = "over"]],
             inbox' = Tell(Took(k), k, told)
      PROVE  IInv'
  <2> DEFINE g == [next EXCEPT !.st = "over"]
  <2>1. BoxOK(inbox') /\ \A j \in Room : inbox'[j] = Took(k)[j]
    BY <1>1, <1>2, <1>4, TellOK
  <2>2. Starts(inbox'[k]) = {} /\ \A j \in Room : j # k => inbox'[j] = inbox[j]
    BY <1>1, <2>1
  <2>3. g \in RoomState /\ RoomOK(g)
    BY DEF RoomState, RoomOK
  <2>4. room' = [room EXCEPT ![k] = g]
    BY <1>4
  <2> HIDE DEF g
  <2> QED
    BY <1>1, <2>1, <2>2, <2>3, <2>4, OfRoom
<1> QED
  BY <1>3, <1>4 DEF GameOver

\* CMD.guess
LEMMA RoomGuessIInv ==
    ASSUME IInv, NEW k \in Room, RoomGuess(k)
    PROVE  IInv'
<1> DEFINE m == Head(inbox[k])
           g == [room[k] EXCEPT !.turn = NextTurn(@)]
           Dropped == \/ ~Playing(k, m.role) \/ room[k].turns[room[k].turn] # m.role
                      \/ m.val < room[k].lo \/ m.val > room[k].hi
<1>1. RoomTakes(k, "guess")
  BY DEF RoomGuess
<1>2. /\ m \in RoomMsg /\ m.kind = "guess" /\ room[k] \in RoomState /\ RoomOK(room[k])
      /\ BoxOK(Took(k)) /\ Took(k)[k] = Tail(inbox[k])
      /\ \A j \in Room : j # k => Took(k)[j] = inbox[j]
      /\ \A i, j \in Starts(Tail(inbox[k])) : i = j
      /\ Starts(Tail(inbox[k])) # {} => room[k].st = "new" /\ Starts(inbox[k]) # {}
      /\ (cs.at = "start" /\ cs.room = k) => room[k].st = "new"
      /\ UNCHANGED <<queues, resps, cs, db, agent>>
  BY <1>1, RoomFacts
<1>3. m.val \in 1 .. UP_LIMIT
  BY <1>2, RoomMsgFields
<1>4. IF Dropped THEN inbox' = Took(k) /\ UNCHANGED room
      ELSE IF m.val = room[k].rv THEN GameOver(k, g)
      ELSE IF Limits(g, m.val).lo = Limits(g, m.val).hi THEN GameOver(k, Limits(g, m.val))
      ELSE inbox' = Took(k) /\ room' = [room EXCEPT ![k] = Limits(g, m.val)]
  BY DEF RoomGuess
<1>5. room \in [Room -> RoomState]
  BY DEF IInv, TypeOK
<1>6. CASE Dropped
  <2>1. room' = [room EXCEPT ![k] = room[k]] /\ inbox' = Took(k)
    BY <1>4, <1>5, <1>6
  <2> HIDE DEF Dropped, m, g
  <2>2. /\ BoxOK(inbox') /\ \A j \in Room : j # k => inbox'[j] = inbox[j]
        /\ \A i, j \in Starts(inbox'[k]) : i = j
        /\ Starts(inbox'[k]) # {} => room[k].st = "new" /\ Starts(inbox[k]) # {}
    BY <1>2, <2>1
  <2> QED
    BY <1>2, <2>1, <2>2, OfRoom
<1>7. CASE ~Dropped
  <2>1. Playing(k, m.role) /\ ~(m.val < room[k].lo) /\ ~(m.val > room[k].hi)
    BY <1>7
  <2> HIDE DEF Dropped
  <2>2. room[k].st \in {"play", "over"}
    <3>1. room[k].turns # <<>>
      BY <2>1 DEF Playing, ToSet
    <3> QED
      BY <1>2, <3>1 DEF RoomOK
  <2>3. /\ g \in RoomState /\ g.st = room[k].st /\ g.rv = room[k].rv
        /\ g.lo = room[k].lo /\ g.hi = room[k].hi
    <3>1. NextTurn(room[k].turn) \in 0 .. PLAYERS
      <4>1. room[k].turn \in 0 .. PLAYERS /\ PLAYERS \in Nat \ {0}
        BY <1>2, GameAssumption DEF RoomState
      <4> QED
        BY <4>1 DEF NextTurn
    <3> QED
      BY <1>2, <3>1 DEF RoomState
  <2>4. RoomOK(g)
    <3> HIDE DEF g
    <3> QED
      BY <1>2, <2>2, <2>3 DEF RoomOK
  <2> HIDE DEF g
  <2>5. g.rv \in g.lo .. g.hi
    BY <2>2, <2>3, <2>4 DEF RoomOK
  <2>6. CASE m.val = room[k].rv
    BY <1>1, <1>4, <1>7, <2>2, <2>3, <2>5, <2>6, GameOverIInv
  <2>7. CASE m.val # room[k].rv
    <3> DEFINE h == Limits(g, m.val)
    <3>1. /\ h \in RoomState /\ h.st = room[k].st /\ h.rv \in h.lo .. h.hi
      <4>1. m.val >= g.lo /\ m.val <= g.hi /\ m.val # g.rv
        <5>1. room[k].lo \in 1 .. UP_LIMIT /\ room[k].hi \in 1 .. UP_LIMIT /\ UP_LIMIT \in Nat
          BY <1>2, GameAssumption DEF RoomState
        <5> QED
          BY <1>3, <2>1, <2>3, <2>7, <5>1
      <4> QED
        BY <1>3, <2>2, <2>3, <2>4, <4>1, LimitsOK
    <3>2. CASE h.lo = h.hi
      <4>1. GameOver(k, h)
        BY <1>4, <1>7, <2>7, <3>2
      <4> HIDE DEF h
      <4> QED
        BY <1>1, <2>2, <3>1, <4>1, GameOverIInv
    <3>3. CASE h.lo # h.hi
      <4>1. inbox' = Took(k) /\ room' = [room EXCEPT ![k] = h]
        BY <1>4, <1>7, <2>7, <3>3
      <4> HIDE DEF h
      <4>2. h.lo < h.hi
        <5>1. h.lo \in Nat /\ h.hi \in Nat /\ h.rv \in Nat
          BY <3>1 DEF RoomState
        <5> QED
          BY <3>1, <3>3, <5>1
      <4>3. RoomOK(h)
        BY <2>2, <3>1, <4>2 DEF RoomOK
      <4>4. Starts(inbox'[k]) = {} /\ ~(cs.at = "start" /\ cs.room = k)
        BY <1>2, <2>2, <4>1
      <4> QED
        BY <1>2, <3>1, <4>1, <4>3, <4>4, OfRoom
    <3> QED
      BY <3>2, <3>3
  <2> QED
    BY <2>6, <2>7
<1> QED
  BY <1>6, <1>7

-----------------------------------------------------------------------------
(* The invariant, and what follows from it. *)

LEMMA InitIInv ==
    ASSUME Init
    PROVE  IInv
<1>1. TypeOK
  <2>1. BoxOK(inbox)
    <3>1. \A s \in Service : inbox[s] \in Seq(MsgTo(s))
      BY EmptySeq DEF Init
    <3>2. inbox = [s \in Service |-> inbox[s]]
      BY DEF Init
    <3> QED
      BY <3>1, <3>2 DEF BoxOK
  <2>2. agent = [a \in Conn |-> agent[a]] /\ \A a \in Conn : agent[a] \in AgentState(a)
    BY NewAgentType DEF Init
  <2>3. queues \in Seq(Player) /\ cs \in Lock /\ cs.at = "free"
    <3>1. <<>> \in Seq(HallMsg) /\ <<>> \in Seq(Player)
      BY EmptySeq
    <3> QED
      BY <3>1 DEF Init, Unlocked, Lock
  <2>4. resps \in [Role -> {NoCall} \cup UNION {Call(a) : a \in Conn}]
    BY DEF Init
  <2>5. room \in [Room -> RoomState]
    <3>1. /\ <<>> \in Seq(Role) /\ [r \in Role |-> NoRole] \in [Role -> Conn \cup {NoRole}]
          /\ 0 \in 0 .. UP_LIMIT /\ 0 \in 0 .. PLAYERS /\ 1 \in 1 .. UP_LIMIT /\ UP_LIMIT \in 1 .. UP_LIMIT
      BY GameAssumption, EmptySeq
    <3>2. NoRoom \in RoomState
      BY <3>1 DEF NoRoom, RoomState
    <3> QED
      BY <3>2 DEF Init
  <2>6. db \in [Role -> [exists : BOOLEAN, isgame : {0} \cup Room]]
    BY DEF Init
  <2> QED
    BY <2>1, <2>2, <2>3, <2>4, <2>5, <2>6 DEF TypeOK
<1>2. queues = <<>> /\ Len(queues) = 0 /\ cs.at = "free"
  BY DEF Init, Unlocked
<1>3. HallInv
  <2>1. \A r \in Role : resps[r] = NoCall
    BY DEF Init
  <2> QED
    BY <1>2, <2>1, GameAssumption DEF HallInv, QueueDistinct, QueueIsCalls, QueueLength
<1>4. RoomInv
  <2>1. \A k \in Room : room[k].st = "none" /\ room[k].turns = <<>> /\ room[k].lo = 1 /\ room[k].hi = UP_LIMIT
    BY DEF Init, NoRoom
  <2>2. \A k \in Room : inbox[k] = <<>>
    BY Kinds DEF Init
  <2>3. \A k \in Room : Starts(inbox[k]) = {}
    BY <2>2 DEF Starts
  <2> QED
    BY <1>2, <2>1, <2>3 DEF RoomInv, FreshRooms, StartOnce, NumberInRange
<1> QED
  BY <1>1, <1>3, <1>4 DEF IInv

LEMMA NextIInv ==
    ASSUME IInv, [Next]_vars
    PROVE  IInv'
<1>1. CASE HallStep
  BY <1>1, ServeIInv, HallRoomIInv, HallStartIInv DEF HallStep
<1>2. ASSUME NEW a \in Conn, AgentStep(a) PROVE IInv'
  BY <1>2, LoginIInv, AnsweredIInv DEF AgentStep
<1>3. ASSUME NEW k \in Room, RoomStep(k) PROVE IInv'
  BY <1>3, RoomStartIInv, RoomMoveIInv, RoomGuessIInv DEF RoomStep
<1>4. ASSUME NEW a \in Conn, Client(a) PROVE IInv'
  BY <1>4, ClientIInv
<1>5. CASE UNCHANGED vars
  <2>1. TypeOK'
    BY <1>5 DEF vars, IInv, TypeOK
  <2>2. HallInv'
    BY <1>5 DEF vars, IInv, HallInv, QueueDistinct, QueueIsCalls, QueueLength
  <2>3. RoomInv'
    BY <1>5 DEF vars, IInv, RoomInv, FreshRooms, StartOnce, NumberInRange
  <2> QED
    BY <2>1, <2>2, <2>3 DEF IInv
<1> QED
  BY <1>1, <1>2, <1>3, <1>4, <1>5 DEF Next, ServiceStep

LEMMA Invariance == Spec => []IInv
<1>1. Init => IInv
  BY InitIInv
<1>2. IInv /\ [Next]_vars => IInv'
  BY NextIInv
<1> QED
  BY <1>1, <1>2, PTL DEF Spec

\* Every service is only sent messages of the kinds it knows, from coroutines that
\* are there, and keeps its state in its type: a call's answer comes back to a
\* coroutine of the agent that made it.
THEOREM TypeCorrect == Spec => []TypeOK
<1>1. IInv => TypeOK
  BY DEF IInv
<1> QED
  BY <1>1, Invariance, PTL

\* As many users wait as the list is long, when each is in it once.
LEMMA WaitingIsQueue ==
    ASSUME queues \in Seq(Player), QueueDistinct
    PROVE  Cardinality(Waiting) = Len(queues)
<1> DEFINE S == 1 .. Len(queues)
           f == [i \in S |-> queues[i].role]
<1>1. Len(queues) \in Nat
  BY LenProperties
<1>2. f \in [S -> Waiting] /\ \A r \in Waiting : \E i \in S : f[i] = r
  BY DEF Waiting
<1>3. \A i, j \in S : f[i] = f[j] => i = j
  BY DEF QueueDistinct
<1> HIDE DEF f
<1>4. f \in Bijection(S, Waiting)
  BY <1>2, <1>3 DEF Bijection, Injection, Surjection, IsInjective
<1>5. ExistsBijection(S, Waiting)
  BY <1>4 DEF ExistsBijection
<1>6. IsFiniteSet(S) /\ Cardinality(S) = Len(queues)
  <2> DEFINE n == Len(queues)
  <2>1. n \in Nat
    BY <1>1
  <2> HIDE DEF n
  <2>2. 1 \in Int /\ n \in Int /\ (IF 1 > n THEN 0 ELSE n - 1 + 1) = n
    BY <2>1
  <2>3. IsFiniteSet(1 .. n) /\ Cardinality(1 .. n) = n
    BY <2>2, FS_Interval, SMTT(60)
  <2> QED
    BY <2>3 DEF n
<1> QED
  BY <1>5, <1>6, FS_Bijection

\* The hall's list and its calls to answer agree (hall.lua), whatever arrives while
\* it waits for a room: with any number of users none waits twice, none is
\* forgotten, and a room is asked for exactly when there are enough.
THEOREM HallKeepsCalls == Spec => []QueueHasCalls
<1>1. IInv => QueueHasCalls
  <2> SUFFICES ASSUME IInv PROVE QueueHasCalls
    OBVIOUS
  <2>1. queues \in Seq(Player) /\ QueueDistinct /\ QueueIsCalls /\ QueueLength
    BY DEF IInv, TypeOK, HallInv
  <2>2. Cardinality(Waiting) = Len(queues)
    BY <2>1, WaitingIsQueue
  <2>3. \A i \in 1 .. Len(queues) : queues[i].role \in Role
    <3>1. \A i \in 1 .. Len(queues) : queues[i] \in Player
      BY <2>1, ElementOfSeq
    <3> QED
      BY <3>1 DEF Player
  <2>4. Waiting = {r \in Role : resps[r] # NoCall}
    BY <2>1, <2>3 DEF Waiting, QueueIsCalls
  <2>5. (Len(queues) >= PLAYERS) <=> (cs.at = "newservice")
    <3>1. Len(queues) \in Nat /\ PLAYERS \in Nat
      BY <2>1, LenProperties, GameAssumption
    <3> QED
      BY <2>1, <3>1 DEF QueueLength
  <2> QED
    BY <2>2, <2>4, <2>5 DEF QueueHasCalls
<1> QED
  BY <1>1, Invariance, PTL

\* The number a room has drawn stays in the range its players are told, and a game
\* with one number left is over (room.lua), however guesses, leaving and coming
\* back interleave and also after an end that failed.
THEOREM NumberStaysInRange == Spec => []NumberInRange
<1>1. IInv => NumberInRange
  BY DEF IInv, RoomInv
<1> QED
  BY <1>1, Invariance, PTL
=============================================================================
