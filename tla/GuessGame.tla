------------------------------ MODULE GuessGame -----------------------------
(***************************************************************************)
(* The number guessing game of 009_skynet_demo/game: an agent service per  *)
(* connection, one hall that matches players, a room per game, and redis.  *)
(* Each service takes its messages in order and one at a time              *)
(* (SkynetMailbox); inside an agent every command is a coroutine that      *)
(* yields where it calls another service, and the hall serves requests one *)
(* after the other (skynet.queue) also while it waits for a new room.      *)
(*                                                                         *)
(* Redis takes its requests in the order they are sent and keeps nothing   *)
(* else, so a request takes effect here when it is sent; its answer comes  *)
(* later.  What is written to a client's socket is left out, and so are    *)
(* the commands that only write there.                                     *)
(***************************************************************************)
EXTENDS Naturals, Sequences, SequencesExt, FiniteSets

CONSTANTS
    Conn,           \* connections, each with its agent
    Role, NoRole,   \* the users' names, and that of a client not logged in
    Hall,           \* the hall service
    PLAYERS,        \* players in a room: 3 in the code
    UP_LIMIT,       \* the numbers are 1 .. UP_LIMIT: 100 in the code
    LoggedIn,       \* connection -> the name it has logged in with at the start
    Typed,          \* connection -> the names its user tries to log in with
    MaxCmd,         \* bound: connection -> the commands it sends
    MaxRoom         \* bound: the rooms that are made

ASSUME GameAssumption ==
    /\ PLAYERS \in Nat \ {0} /\ UP_LIMIT \in Nat /\ UP_LIMIT > 1 /\ MaxRoom \in Nat \ {0}
    /\ Conn \cap (1 .. MaxRoom) = {} /\ Hall \notin Conn \cup (1 .. MaxRoom)
    /\ NoRole \notin Role \cup Conn
    /\ MaxCmd \in [Conn -> Nat] /\ LoggedIn \in [Conn -> Role \cup {NoRole}]
    /\ Typed \in [Conn -> SUBSET Role]

Room == 1 .. MaxRoom
Service == Conn \cup Room \cup {Hall}
Co(a) == 1 .. MaxCmd[a]     \* a command's coroutine

VARIABLES
    inbox,      \* service -> its messages
    agent,      \* connection -> its agent: client.name, client.isgame, ...
    queues,     \* the hall's waiting clients, the one that came last in front
    resps,      \* role -> the ready call to answer
    cs,         \* the hall's request that holds the queue, and those waiting
    room,       \* the rooms
    db          \* role -> what redis has

vars == <<inbox, agent, queues, resps, cs, room, db>>

Msg(kind, a, c, r, v) == [kind |-> kind, conn |-> a, co |-> c, role |-> r, val |-> v]
NoCall == [conn |-> NoRole, co |-> 0]

Idle == [at |-> "end", role |-> NoRole, ok |-> FALSE]
NewAgent(a) ==
    [up |-> TRUE, name |-> LoggedIn[a], isgame |-> 0, cmds |-> 0, co |-> [c \in Co(a) |-> Idle]]
Unlocked == [at |-> "free", room |-> 0, members |-> <<>>, wait |-> <<>>]
NoRoom == [st |-> "none", turns |-> <<>>, online |-> {}, conn |-> [r \in Role |-> NoRole],
           rv |-> 0, turn |-> 0, lo |-> 1, hi |-> UP_LIMIT]

Init ==
    /\ inbox = [s \in Service |-> <<>>]
    /\ agent = [a \in Conn |-> NewAgent(a)]
    /\ queues = <<>>
    /\ resps = [r \in Role |-> NoCall]
    /\ cs = Unlocked
    /\ room = [k \in Room |-> NoRoom]
    /\ db = [r \in Role |-> [exists |-> \E a \in Conn : LoggedIn[a] = r, isgame |-> 0]]

Alive(s) == CASE s \in Conn -> agent[s].up
              [] s \in Room -> room[s].st \notin {"none", "gone"}
              [] OTHER -> TRUE

\* A message to a service that is gone is lost.
Post(box, s, m) == IF Alive(s) THEN [box EXCEPT ![s] = Append(@, m)] ELSE box
Answer(box, m, v) == Post(box, m.conn, Msg("resp", m.conn, m.co, m.role, v))
Took(s) == [inbox EXCEPT ![s] = Tail(@)]

\* The messages of ms to agent a, in their order; and all of ms delivered.
To(a, ms) ==
    LET first[n \in 0 .. Len(ms)] ==
            IF n = 0 THEN <<>>
            ELSE IF ms[n].conn = a THEN Append(first[n - 1], ms[n]) ELSE first[n - 1]
    IN  first[Len(ms)]
Deliver(box, ms) ==
    [s \in Service |-> IF s \in Conn /\ agent[s].up THEN box[s] \o To(s, ms) ELSE box[s]]

-----------------------------------------------------------------------------
(* The agent: a client's line starts a coroutine, an answer goes on with it *)

CanStart(a) == agent[a].up /\ agent[a].cmds < MaxCmd[a]

\* A new coroutine calls the hall.
CallHall(a, kind) ==
    LET c == agent[a].cmds + 1 IN
    /\ agent' = [agent EXCEPT ![a] = [@ EXCEPT !.cmds = c, !.co[c].at = kind]]
    /\ inbox' = Post(inbox, Hall, Msg(kind, a, c, agent[a].name, 0))
    /\ UNCHANGED <<queues, resps, cs, room, db>>

\* ok: the password is the right one.  Nothing asks whether this client, or another
\* one of that name, has logged in before.
login(a, r, ok) ==
    /\ CanStart(a)
    /\ LET c == agent[a].cmds + 1 IN
       /\ agent' = [agent EXCEPT ![a] =
                        [@ EXCEPT !.cmds = c, !.co[c] = [at |-> "exists", role |-> r, ok |-> ok]]]
       /\ inbox' = Answer(inbox, Msg("exists", a, c, r, 0), IF db[r].exists THEN 1 ELSE 0)
    /\ UNCHANGED <<queues, resps, cs, room, db>>

ready(a) ==
    /\ CanStart(a) /\ agent[a].name # NoRole /\ agent[a].isgame = 0
    /\ CallHall(a, "ready")

client_quit(a) == CanStart(a) /\ CallHall(a, "offline")

guess(a, v) ==
    /\ CanStart(a) /\ agent[a].name # NoRole /\ agent[a].isgame # 0
    /\ agent' = [agent EXCEPT ![a].cmds = @ + 1]
    /\ inbox' = Post(inbox, agent[a].isgame, Msg("guess", a, 0, agent[a].name, v))
    /\ UNCHANGED <<queues, resps, cs, room, db>>

(* The next message of an agent is the answer m for its coroutine. *)
Resumed(a, at) ==
    /\ agent[a].up /\ inbox[a] # <<>> /\ Head(inbox[a]).kind = "resp"
    /\ agent[a].co[Head(inbox[a]).co].at = at
    /\ UNCHANGED <<queues, resps, cs, room>>

\* The coroutine waits for the answer to a call, or ends.
Yields(g, c, at) == [g EXCEPT !.co[c].at = at]
Ends(g, c) == [g EXCEPT !.co[c] = Idle]

\* hgetall for a role that is there, hmset for a new one.
LoginExists(a) ==
    /\ Resumed(a, "exists")
    /\ LET m == Head(inbox[a]) IN
       LET r == agent[a].co[m.co].role IN
       IF m.val = 1
       THEN /\ agent' = [agent EXCEPT ![a] = Yields(@, m.co, "hgetall")]
            /\ inbox' = Answer(Took(a), m, db[r].isgame)
            /\ UNCHANGED db
       ELSE /\ agent' = [agent EXCEPT ![a] = Yields(@, m.co, "hmset")]
            /\ inbox' = Answer(Took(a), m, 1)
            /\ db' = [db EXCEPT ![r] = [exists |-> TRUE, isgame |-> 0]]

LoginNew(a) ==
    /\ Resumed(a, "hmset")
    /\ LET m == Head(inbox[a])
           r == agent[a].co[m.co].role
       IN  agent' = [agent EXCEPT ![a] = [Ends(@, m.co) EXCEPT !.name = r, !.isgame = 0]]
    /\ inbox' = Took(a)
    /\ UNCHANGED db

\* A user who left during a game goes back to it, if its room is still there.
LoginOld(a) ==
    /\ Resumed(a, "hgetall")
    /\ LET m == Head(inbox[a])
           r == agent[a].co[m.co].role
           g == [agent[a] EXCEPT !.name = r, !.isgame = m.val]
       IN  IF ~agent[a].co[m.co].ok
           THEN agent' = [agent EXCEPT ![a] = Ends(@, m.co)] /\ inbox' = Took(a)
           ELSE IF m.val # 0 /\ Alive(m.val)
           THEN /\ agent' = [agent EXCEPT ![a] = Yields(g, m.co, "online")]
                /\ inbox' = Post(Took(a), m.val, Msg("online", a, m.co, r, 0))
           ELSE /\ agent' = [agent EXCEPT ![a] = [Ends(g, m.co) EXCEPT !.isgame = 0]]
                /\ inbox' = Took(a)
    /\ UNCHANGED db

LoginOnline(a) ==
    /\ Resumed(a, "online")
    /\ LET m == Head(inbox[a])
           g == Ends(agent[a], m.co)
       IN  agent' = [agent EXCEPT ![a] = IF m.val = 1 THEN g ELSE [g EXCEPT !.isgame = 0]]
    /\ inbox' = Took(a)
    /\ UNCHANGED db

ReadyAnswered(a) ==
    /\ Resumed(a, "ready")
    /\ LET m == Head(inbox[a])
           g == Ends(agent[a], m.co)
       IN  IF m.val = 0
           THEN agent' = [agent EXCEPT ![a] = g] /\ UNCHANGED db
           ELSE /\ agent' = [agent EXCEPT ![a] = [g EXCEPT !.isgame = m.val]]
                /\ db' = [db EXCEPT ![g.name].isgame = m.val]
    /\ inbox' = Took(a)

Exited(a) == [NewAgent(a) EXCEPT !.up = FALSE, !.name = NoRole, !.cmds = MaxCmd[a]]

\* The hall knows; then the room is told, if the client is in a game.
QuitHall(a) ==
    /\ Resumed(a, "offline")
    /\ LET m == Head(inbox[a])
           k == agent[a].isgame
       IN  IF k = 0
           THEN /\ agent' = [agent EXCEPT ![a] = Exited(a)]
                /\ inbox' = [inbox EXCEPT ![a] = <<>>]
           ELSE IF Alive(k)
           THEN /\ agent' = [agent EXCEPT ![a] = Yields(@, m.co, "leave")]
                /\ inbox' = Post(Took(a), k, Msg("leave", a, m.co, agent[a].name, 0))
           ELSE agent' = [agent EXCEPT ![a] = Ends(@, m.co)] /\ inbox' = Took(a)
    /\ UNCHANGED db

\* skynet.exit; a call that fails throws, and the agent stays.
QuitRoom(a) ==
    /\ Resumed(a, "leave")
    /\ LET m == Head(inbox[a])
       IN  IF m.val = 1
           THEN agent' = [agent EXCEPT ![a] = Exited(a)] /\ inbox' = [inbox EXCEPT ![a] = <<>>]
           ELSE agent' = [agent EXCEPT ![a] = Ends(@, m.co)] /\ inbox' = Took(a)
    /\ UNCHANGED db

game_over(a) ==
    /\ agent[a].up /\ inbox[a] # <<>> /\ Head(inbox[a]).kind = "game_over"
    /\ agent' = [agent EXCEPT ![a].isgame = 0]
    /\ db' = [db EXCEPT ![agent[a].name].isgame = 0]
    /\ inbox' = Took(a)
    /\ UNCHANGED <<queues, resps, cs, room>>

AgentStep(a) ==
    \/ LoginExists(a) \/ LoginNew(a) \/ LoginOld(a) \/ LoginOnline(a)
    \/ ReadyAnswered(a) \/ QuitHall(a) \/ QuitRoom(a) \/ game_over(a)

-----------------------------------------------------------------------------
(* The hall.  box is the inboxes without the request m. *)

HallReady(m, box, lock) ==
    IF resps[m.role] # NoCall
    THEN /\ inbox' = Answer(box, m, 0)
         /\ cs' = lock
         /\ UNCHANGED <<queues, resps>>
    ELSE /\ queues' = <<[conn |-> m.conn, role |-> m.role]>> \o queues
         /\ resps' = [resps EXCEPT ![m.role] = [conn |-> m.conn, co |-> m.co]]
         /\ cs' = IF Len(queues') >= PLAYERS THEN [lock EXCEPT !.at = "newservice"] ELSE lock
         /\ inbox' = box

\* The first client of that name leaves the list.
Without(r) == RemoveFirstMatch(queues, LAMBDA client : client.role = r)

\* Mutant of HallOffline: the waiting call is forgotten.
HallOfflineKeeps(m, box, lock) ==
    /\ queues' = Without(m.role)
    /\ inbox' = Answer(box, m, 1)
    /\ cs' = lock
    /\ UNCHANGED resps

HallOffline(m, box, lock) ==
    /\ queues' = Without(m.role)
    /\ IF m.role \in Role /\ resps[m.role] # NoCall
       THEN /\ inbox' = Answer(Answer(box, Msg("ready", resps[m.role].conn, resps[m.role].co, m.role, 0), 0), m, 1)
            /\ resps' = [resps EXCEPT ![m.role] = NoCall]
       ELSE /\ inbox' = Answer(box, m, 1)
            /\ UNCHANGED resps
    /\ cs' = lock

HallServes(m, box, lock) ==
    /\ IF m.kind = "ready" THEN HallReady(m, box, lock) ELSE HallOffline(m, box, lock)
    /\ UNCHANGED <<agent, room, db>>

\* A request is served, or waits for the one that holds the queue.
HallReceive ==
    /\ inbox[Hall] # <<>>
    /\ \/ /\ cs.at = "free" /\ cs.wait = <<>>
          /\ HallServes(Head(inbox[Hall]), Took(Hall), cs)
       \/ /\ cs.at # "free"
          /\ cs' = [cs EXCEPT !.wait = Append(@, Head(inbox[Hall]))]
          /\ inbox' = Took(Hall)
          /\ UNCHANGED <<agent, queues, resps, room, db>>

HallWakeup ==
    /\ cs.at = "free" /\ cs.wait # <<>>
    /\ HallServes(Head(cs.wait), inbox, [cs EXCEPT !.wait = Tail(@)])

\* The room has been made: the players longest in the queue get it.
HallRoom ==
    /\ cs.at = "newservice"
    /\ LET n == Len(queues)
           members == [i \in 1 .. PLAYERS |-> queues[n + 1 - i]]
       IN  \E k \in Room :
           /\ room[k].st = "none" /\ \A j \in 1 .. k - 1 : room[j].st # "none"
           /\ room' = [room EXCEPT ![k].st = "new"]
           /\ queues' = SubSeq(queues, 1, n - PLAYERS)
           /\ resps' = [r \in Role |-> IF \E i \in 1 .. PLAYERS : members[i].role = r THEN NoCall ELSE resps[r]]
           /\ inbox' = Deliver(inbox, [i \in 1 .. PLAYERS |->
                LET r == members[i].role IN Msg("resp", resps[r].conn, resps[r].co, r, k)])
           /\ cs' = [cs EXCEPT !.at = "start", !.room = k, !.members = members]
    /\ UNCHANGED <<agent, db>>

\* Mutant of HallStart: the queue is not let go.
HallStartHolds ==
    /\ cs.at = "start"
    /\ inbox' = [inbox EXCEPT ![cs.room] = Append(@, Msg("start", NoRole, 0, NoRole, cs.members))]
    /\ cs' = [cs EXCEPT !.at = "held"]
    /\ UNCHANGED <<agent, queues, resps, room, db>>

HallStart ==
    /\ cs.at = "start"
    /\ inbox' = [inbox EXCEPT ![cs.room] = Append(@, Msg("start", NoRole, 0, NoRole, cs.members))]
    /\ cs' = [Unlocked EXCEPT !.wait = cs.wait]
    /\ UNCHANGED <<agent, queues, resps, room, db>>

-----------------------------------------------------------------------------
(* A room *)

RoomTakes(k, kind) ==
    /\ Alive(k) /\ inbox[k] # <<>> /\ Head(inbox[k]).kind = kind
    /\ UNCHANGED <<queues, resps, cs, db, agent>>

Playing(k, r) == r \in ToSet(room[k].turns)

RoomStart(k) ==
    /\ RoomTakes(k, "start")
    /\ LET members == Head(inbox[k]).val IN
       \E rv \in 1 .. UP_LIMIT, turn \in 1 .. PLAYERS :
         room' = [room EXCEPT ![k] =
            [@ EXCEPT !.st = "play", !.rv = rv, !.turn = turn,
                      !.turns = [i \in 1 .. PLAYERS |-> members[i].role],
                      !.online = {members[i].role : i \in 1 .. PLAYERS},
                      !.conn = [r \in Role |->
                          IF \E i \in 1 .. PLAYERS : members[i].role = r
                          THEN members[CHOOSE i \in 1 .. PLAYERS : members[i].role = r].conn
                          ELSE room[k].conn[r]]]]
    /\ inbox' = Took(k)

RoomOffline(k) ==
    /\ RoomTakes(k, "leave")
    /\ room' = [room EXCEPT ![k].online = @ \ {Head(inbox[k]).role}]
    /\ inbox' = Answer(Took(k), Head(inbox[k]), 1)

RoomOnline(k) ==
    /\ RoomTakes(k, "online")
    /\ LET m == Head(inbox[k]) IN
       /\ room' = IF Playing(k, m.role)
                  THEN [room EXCEPT ![k].online = @ \cup {m.role}, ![k].conn[m.role] = m.conn]
                  ELSE room
       /\ inbox' = Answer(Took(k), m, 1)

\* All players are told and the room exits; calls that wait in its inbox fail.
Tell(box, k, told) ==
    Deliver(box, [i \in DOMAIN room[k].turns |->
        LET r == room[k].turns[i]
        IN  Msg("game_over", IF r \in told THEN room[k].conn[r] ELSE NoRole, 0, r, 0)])
FailCalls(box, k) ==
    Deliver([box EXCEPT ![k] = <<>>], [i \in DOMAIN box[k] |->
        LET m == box[k][i] IN Msg("resp", IF m.co # 0 THEN m.conn ELSE NoRole, m.co, m.role, 0)])

\* The call to redis for a player who is offline names no protocol and throws:
\* the room tells the players that come before, and goes on.
GameOver(k, next) ==
    IF ToSet(room[k].turns) \subseteq room[k].online
    THEN /\ room' = [room EXCEPT ![k] = [NoRoom EXCEPT !.st = "gone"]]
         /\ inbox' = FailCalls(Tell(Took(k), k, room[k].online), k)
    ELSE /\ room' = [room EXCEPT ![k] = [next EXCEPT !.st = "over"]]
         /\ \E told \in SUBSET room[k].online : inbox' = Tell(Took(k), k, told)

\* Mutant of Limits: too small is taken for too large.
LimitsSwapped(g, v) == IF v < g.rv THEN [g EXCEPT !.hi = v - 1] ELSE [g EXCEPT !.lo = v + 1]

\* A number too small or too large narrows the range to the numbers beyond it.
Limits(g, v) == IF v < g.rv THEN [g EXCEPT !.lo = v + 1] ELSE [g EXCEPT !.hi = v - 1]

NextTurn(n) == (n % PLAYERS) + 1

RoomGuess(k) ==
    /\ RoomTakes(k, "guess")
    /\ LET m == Head(inbox[k])
           g == [room[k] EXCEPT !.turn = NextTurn(@)]
       IN  IF ~Playing(k, m.role) \/ room[k].turns[room[k].turn] # m.role
              \/ m.val < room[k].lo \/ m.val > room[k].hi
           THEN inbox' = Took(k) /\ UNCHANGED room
           ELSE IF m.val = room[k].rv THEN GameOver(k, g)
           ELSE IF Limits(g, m.val).lo = Limits(g, m.val).hi THEN GameOver(k, Limits(g, m.val))
           ELSE inbox' = Took(k) /\ room' = [room EXCEPT ![k] = Limits(g, m.val)]

RoomStep(k) == RoomStart(k) \/ RoomOffline(k) \/ RoomOnline(k) \/ RoomGuess(k)

-----------------------------------------------------------------------------
Client(a) ==
    \/ \E r \in Typed[a], ok \in BOOLEAN : login(a, r, ok)
    \/ ready(a) \/ client_quit(a) \/ \E v \in 1 .. UP_LIMIT : guess(a, v)

HallStep == HallReceive \/ HallWakeup \/ HallRoom \/ HallStart

ServiceStep == HallStep \/ (\E a \in Conn : AgentStep(a)) \/ (\E k \in Room : RoomStep(k))

Next == ServiceStep \/ \E a \in Conn : Client(a)

\* skynet runs every service that has a message (MessagesHandled of
\* SkynetServer); clients need not do anything.
Spec == Init /\ [][Next]_vars /\ WF_vars(ServiceStep)

-----------------------------------------------------------------------------
Player == [conn : Conn, role : Role]
Members == [1 .. PLAYERS -> Player]
Call(a) == [conn : {a}, co : Co(a)]

\* The messages each service is sent.
AgentMsg(a) ==
    [kind : {"resp"}, conn : {a}, co : Co(a), role : Role \cup {NoRole}, val : {0} \cup Room]
        \cup [kind : {"game_over"}, conn : {a}, co : {0}, role : Role, val : {0}]
HallMsgOf(a) ==
    [kind : {"ready"}, conn : {a}, co : Co(a), role : Role, val : {0}]
        \cup [kind : {"offline"}, conn : {a}, co : Co(a), role : Role \cup {NoRole}, val : {0}]
HallMsg == UNION {HallMsgOf(a) : a \in Conn}
RoomMsgOf(a) ==
    [kind : {"leave", "online"}, conn : {a}, co : Co(a), role : Role \cup {NoRole}, val : {0}]
        \cup [kind : {"guess"}, conn : {a}, co : {0}, role : Role, val : 1 .. UP_LIMIT]
StartMsg == [kind : {"start"}, conn : {NoRole}, co : {0}, role : {NoRole}, val : Members]
RoomMsg == StartMsg \cup UNION {RoomMsgOf(a) : a \in Conn}
MsgTo(s) == IF s \in Conn THEN AgentMsg(s) ELSE IF s = Hall THEN HallMsg ELSE RoomMsg

\* A coroutine that logs in knows its role.
Coroutine ==
    [at : {"exists", "hgetall", "hmset"}, role : Role, ok : BOOLEAN]
        \cup [at : {"end", "ready", "offline", "leave", "online"}, role : Role \cup {NoRole}, ok : BOOLEAN]
AgentState(a) ==
    [up : BOOLEAN, name : Role \cup {NoRole}, isgame : {0} \cup Room, cmds : 0 .. MaxCmd[a],
     co : [Co(a) -> Coroutine]]
Lock == [at : {"free", "newservice", "start"}, room : {0} \cup Room, members : {<<>>} \cup Members,
         wait : Seq(HallMsg)]
RoomState ==
    [st : {"none", "new", "play", "over", "gone"}, turns : Seq(Role), online : SUBSET Role,
     conn : [Role -> Conn \cup {NoRole}], rv : 0 .. UP_LIMIT, turn : 0 .. PLAYERS,
     lo : 1 .. UP_LIMIT, hi : 1 .. UP_LIMIT]

BoxOK(box) == box = [s \in Service |-> box[s]] /\ \A s \in Service : box[s] \in Seq(MsgTo(s))

TypeOK ==
    /\ BoxOK(inbox)
    /\ agent = [a \in Conn |-> agent[a]] /\ \A a \in Conn : agent[a] \in AgentState(a)
    /\ queues \in Seq(Player)
    /\ resps \in [Role -> {NoCall} \cup UNION {Call(a) : a \in Conn}]
    /\ cs \in Lock /\ (cs.at = "start" => cs.room \in Room /\ cs.members \in Members)
    /\ room \in [Room -> RoomState]
    /\ db \in [Role -> [exists : BOOLEAN, isgame : {0} \cup Room]]

Waiting == {queues[i].role : i \in 1 .. Len(queues)}

\* The hall's list and its calls to answer agree, whatever arrives while it
\* waits for a room: each user waits once, each has a call that gets the answer,
\* and there are enough exactly when a room is being made.
QueueHasCalls ==
    /\ Cardinality(Waiting) = Len(queues)
    /\ Waiting = {r \in Role : resps[r] # NoCall}
    /\ (Len(queues) >= PLAYERS) <=> (cs.at = "newservice")

\* The number to find stays in the range that players are told, and a game in
\* which one number is left is over.
NumberInRange ==
    \A k \in Room :
        /\ room[k].st \in {"play", "over"} => room[k].rv \in room[k].lo .. room[k].hi
        /\ room[k].st = "play" => room[k].lo < room[k].hi

\* The hall gets through its requests; the queue is never held for ever.
HallServesAll == []<>(inbox[Hall] = <<>> /\ cs.wait = <<>> /\ cs.at = "free")

\* "In a game, cannot get ready": no user is in two games that are played.
InOneGame ==
    \A r \in Role : Cardinality({k \in Room : room[k].st = "play" /\ Playing(k, r)}) <= 1
=============================================================================
