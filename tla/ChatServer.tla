----------------------------- MODULE ChatServer -----------------------------
(***************************************************************************)
(* The chat server of 008_chat (server.c, data.c) with the clients that    *)
(* client.c makes.  The server runs one thread (func) per connection.  The *)
(* threads share the table user of an SQLite file: one row per name, with  *)
(* its password, the descriptor of the connection it is logged in on       *)
(* (OFF when it is not) and that connection's key.  Each SQL statement is  *)
(* atomic; no lock is held from one statement to the next, nor between a   *)
(* select and the writes to the descriptors it returned.                   *)
(*                                                                         *)
(* A thread is known by its descriptor, which accept chooses and close     *)
(* gives back.  What a client may ask follows the menu of client.c:        *)
(* register or log in until it has read that a login succeeded, then chat; *)
(* it may go away at any time, which the thread finds out when it next     *)
(* reads.  Key streams and texts are left out: a message is the user it is *)
(* for, with the descriptor and the keygen the table had for that user.    *)
(***************************************************************************)
EXTENDS Integers

CONSTANTS
    User, Passwd,   \* names and passwords clients type
    Fd,             \* descriptors the kernel hands out
    NULL,
    MaxConn,        \* bound: connections
    Typed,          \* bound: connection -> the names and passwords its user types
    MaxRestart      \* bound: restarts of the server

OFF == -1           \* the fd of a user who is not logged in

ASSUME ChatConstants ==
    /\ Fd \subseteq Nat \ {0}
    /\ NULL \notin User \cup Passwd
    /\ MaxConn \in Nat /\ MaxRestart \in Nat

ASSUME TypedAssumption ==
    Typed \in [1 .. MaxConn -> SUBSET [name : User, data : Passwd]]

VARIABLES
    db,         \* table user: name -> [passwd, fd, keygen]
    pc,         \* descriptor -> what its thread does next
    conn,       \* descriptor -> number of its connection, which stands for its keygen
    name,       \* descriptor -> func's name: of the last login tried, or NULL
    req,        \* descriptor -> the name and password being registered or logged in
    logged,     \* descriptor -> the user its thread last signed on, or NULL
    login_f,    \* descriptor -> whether its client takes itself to be logged in
    rows,       \* descriptor -> the rows a db_broadcast or db_private has yet to write to
    after,      \* descriptor -> where the thread goes on after writing to them
    acked,      \* history: registrations answered OP_OK
    conns, restarts     \* what the bounds count

thread == <<pc, conn, name, req, logged, login_f, rows, after>>
bounds == <<conns, restarts>>
vars == <<db, thread, acked, bounds>>

Registered == DOMAIN db

Request == [name : User, data : Passwd]
Row == [passwd : Passwd, fd : Fd \cup {OFF}, keygen : Nat]
Target == [to : User, fd : Fd \cup {OFF}, keygen : Nat]

TypeOK ==
    /\ Registered \subseteq User /\ db \in [Registered -> Row]
    /\ pc \in [Fd -> {"closed", "read", "add", "online", "keygen", "on", "reply", "select",
                      "send", "list", "off", "close"}]
    /\ conn \in [Fd -> Nat]
    /\ name \in [Fd -> User \cup {NULL}]
    /\ req \in [Fd -> Request \cup {NULL}]
    /\ logged \in [Fd -> User \cup {NULL}]
    /\ login_f \in [Fd -> BOOLEAN]
    /\ rows \in [Fd -> SUBSET Target]
    /\ after \in [Fd -> {"read", "off"}]
    /\ acked \subseteq Request
    /\ conns \in Nat /\ restarts \in Nat

Init ==
    /\ db = [u \in {} |-> NULL]
    /\ pc = [f \in Fd |-> "closed"]
    /\ conn = [f \in Fd |-> 0]
    /\ name = [f \in Fd |-> NULL]
    /\ req = [f \in Fd |-> NULL]
    /\ logged = [f \in Fd |-> NULL]
    /\ login_f = [f \in Fd |-> FALSE]
    /\ rows = [f \in Fd |-> {}]
    /\ after = [f \in Fd |-> "read"]
    /\ acked = {}
    /\ conns = 0 /\ restarts = 0

-----------------------------------------------------------------------------
Goto(f, l) == pc' = [pc EXCEPT ![f] = l]

\* main accepts, on the lowest free descriptor, and func sends the keygen.
Accept(f) ==
    /\ conns < MaxConn
    /\ pc[f] = "closed"
    /\ \A g \in Fd : pc[g] = "closed" => f <= g
    /\ Goto(f, "read")
    /\ conn' = [conn EXCEPT ![f] = conns + 1]
    /\ name' = [name EXCEPT ![f] = NULL]
    /\ logged' = [logged EXCEPT ![f] = NULL]
    /\ login_f' = [login_f EXCEPT ![f] = FALSE]
    /\ conns' = conns + 1
    /\ UNCHANGED <<db, req, rows, after, acked, restarts>>

\* Mutant of Regist: whether the name is taken is not asked.
RegistUnchecked(f, u, p) ==
    /\ pc[f] = "read" /\ ~login_f[f]
    /\ req' = [req EXCEPT ![f] = [name |-> u, data |-> p]]
    /\ Goto(f, "add")
    /\ UNCHANGED <<db, conn, name, logged, login_f, rows, after, acked, bounds>>

\* regist: db_user_if_reg ...
Regist(f, u, p) ==
    /\ pc[f] = "read" /\ ~login_f[f]
    /\ req' = [req EXCEPT ![f] = [name |-> u, data |-> p]]
    /\ Goto(f, IF u \in Registered THEN "read" ELSE "add")
    /\ UNCHANGED <<db, conn, name, logged, login_f, rows, after, acked, bounds>>

\* ... and db_add_user.  An insert that fails, because the name is there by now,
\* is printed and answered OP_OK like one that succeeds.
RegistAdd(f) ==
    /\ pc[f] = "add"
    /\ db' = IF req[f].name \in Registered THEN db
             ELSE [u \in Registered \cup {req[f].name} |->
                    IF u = req[f].name
                    THEN [passwd |-> req[f].data, fd |-> OFF, keygen |-> 0]
                    ELSE db[u]]
    /\ acked' = acked \cup {req[f]}
    /\ Goto(f, "read")
    /\ UNCHANGED <<conn, name, req, logged, login_f, rows, after, bounds>>

\* What the client makes of the answer to its login: the first bytes it reads.
\* Once there are other connections they need not be the answer, since a broadcast
\* written meanwhile may come first, which puts the client one answer behind, and
\* the answer need not decode (ChatKey).
Hears(f, ok) ==
    \E heard \in IF conns = 1 THEN {ok} ELSE BOOLEAN :
        login_f' = [login_f EXCEPT ![f] = heard]

\* login: db_user_if_reg ...  Whether or not it succeeds, func sets name when
\* login returns; only this thread reads name, so it is set here.  Nothing asks
\* whether the thread has signed a user on before.
Login(f, u, p) ==
    /\ pc[f] = "read" /\ ~login_f[f]
    /\ name' = [name EXCEPT ![f] = u]
    /\ req' = [req EXCEPT ![f] = [name |-> u, data |-> p]]
    /\ \/ u \in Registered /\ Goto(f, "online") /\ UNCHANGED login_f
       \/ u \notin Registered /\ Goto(f, "read") /\ Hears(f, FALSE)
    /\ UNCHANGED <<db, conn, logged, rows, after, acked, bounds>>

\* Mutant of MayLogIn: the select leaves the password out.
MayLogInAnyPasswd(f) == db[name[f]].fd = OFF

MayLogIn(f) == db[name[f]].passwd = req[f].data /\ db[name[f]].fd = OFF

\* ... db_user_if_online: no row with that name and password, or one that is
\* already logged in, ends the login ...
LoginOnline(f) ==
    /\ pc[f] = "online"
    /\ \/ MayLogIn(f) /\ Goto(f, "keygen") /\ UNCHANGED login_f
       \/ ~MayLogIn(f) /\ Goto(f, "read") /\ Hears(f, FALSE)
    /\ UNCHANGED <<db, conn, name, req, logged, rows, after, acked, bounds>>

\* Mutant of LoginKeygen: the row keeps the keygen of an earlier connection.
LoginKeepsKeygen(f) ==
    /\ pc[f] = "keygen"
    /\ Goto(f, "on")
    /\ UNCHANGED <<db, conn, name, req, logged, login_f, rows, after, acked, bounds>>

\* ... db_update_keygen ...
LoginKeygen(f) ==
    /\ pc[f] = "keygen"
    /\ db' = [db EXCEPT ![name[f]].keygen = conn[f]]
    /\ Goto(f, "on")
    /\ UNCHANGED <<conn, name, req, logged, login_f, rows, after, acked, bounds>>

\* ... db_user_on_off: from here on others write to this descriptor ...
LoginOn(f) ==
    /\ pc[f] = "on"
    /\ db' = [db EXCEPT ![name[f]].fd = f]
    /\ logged' = [logged EXCEPT ![f] = name[f]]
    /\ Goto(f, "reply")
    /\ UNCHANGED <<conn, name, req, login_f, rows, after, acked, bounds>>

\* ... and the answer OP_OK; then everyone is told.
LoginReply(f) ==
    /\ pc[f] = "reply"
    /\ Hears(f, TRUE)
    /\ after' = [after EXCEPT ![f] = "read"]
    /\ Goto(f, "select")
    /\ UNCHANGED <<db, conn, name, req, logged, rows, acked, bounds>>

-----------------------------------------------------------------------------
AsTarget(u) == [to |-> u, fd |-> db[u].fd, keygen |-> db[u].keygen]

Broadcast(f) ==
    /\ pc[f] = "read" /\ login_f[f]
    /\ after' = [after EXCEPT ![f] = "read"]
    /\ Goto(f, "select")
    /\ UNCHANGED <<db, conn, name, req, logged, login_f, rows, acked, bounds>>

\* db_broadcast reads the whole table, of which its own descriptor is skipped ...
BroadcastSelect(f) ==
    /\ pc[f] = "select"
    /\ rows' = [rows EXCEPT ![f] = {AsTarget(u) : u \in {v \in Registered : db[v].fd # f}}]
    /\ Goto(f, "send")
    /\ UNCHANGED <<db, conn, name, req, logged, login_f, after, acked, bounds>>

\* db_private reads one row, or tells the sender there is no such user.
PrivateSelect(f, u) ==
    /\ pc[f] = "read" /\ login_f[f]
    /\ rows' = [rows EXCEPT ![f] = IF u \in Registered THEN {AsTarget(u)} ELSE {}]
    /\ after' = [after EXCEPT ![f] = "read"]
    /\ Goto(f, "send")
    /\ UNCHANGED <<db, conn, name, req, logged, login_f, acked, bounds>>

\* ... and writes row by row to whatever connection each descriptor is by then
\* (a write to OFF, or to a descriptor closed meanwhile, fails unnoticed).
Send(f) ==
    /\ pc[f] = "send"
    /\ \E r \in rows[f] : rows' = [rows EXCEPT ![f] = @ \ {r}]
    /\ UNCHANGED <<db, pc, conn, name, req, logged, login_f, after, acked, bounds>>

SendDone(f) ==
    /\ pc[f] = "send"
    /\ rows[f] = {}
    /\ Goto(f, after[f])
    /\ UNCHANGED <<db, conn, name, req, logged, login_f, rows, after, acked, bounds>>

\* db_list_online_user: the list goes to the asker, one user a second.
ListOnline(f) ==
    /\ pc[f] = "read" /\ login_f[f]
    /\ Goto(f, "list")
    /\ UNCHANGED <<db, conn, name, req, logged, login_f, rows, after, acked, bounds>>

ListDone(f) ==
    /\ pc[f] = "list"
    /\ Goto(f, "read")
    /\ UNCHANGED <<db, conn, name, req, logged, login_f, rows, after, acked, bounds>>

-----------------------------------------------------------------------------
\* The client is gone.  If this connection ever tried to log in, everyone is told
\* and the user of that name is marked not logged in; then it is closed.
Gone(f) ==
    /\ pc[f] = "read"
    /\ after' = [after EXCEPT ![f] = "off"]
    /\ Goto(f, IF name[f] # NULL THEN "select" ELSE "close")
    /\ UNCHANGED <<db, conn, name, req, logged, login_f, rows, acked, bounds>>

\* Mutant of Offline: the row is not updated.
OfflineForgotten(f) ==
    /\ pc[f] = "off"
    /\ Goto(f, "close")
    /\ UNCHANGED <<db, conn, name, req, logged, login_f, rows, after, acked, bounds>>

\* Mutant of Offline: the update has no where clause.
OfflineEveryone(f) ==
    /\ pc[f] = "off"
    /\ db' = [u \in Registered |-> [db[u] EXCEPT !.fd = OFF]]
    /\ Goto(f, "close")
    /\ UNCHANGED <<conn, name, req, logged, login_f, rows, after, acked, bounds>>

Offline(f) ==
    /\ pc[f] = "off"
    /\ db' = [u \in Registered |-> IF u = name[f] THEN [db[u] EXCEPT !.fd = OFF] ELSE db[u]]
    /\ Goto(f, "close")
    /\ UNCHANGED <<conn, name, req, logged, login_f, rows, after, acked, bounds>>

Close(f) ==
    /\ pc[f] = "close"
    /\ Goto(f, "closed")
    /\ UNCHANGED <<db, conn, name, req, logged, login_f, rows, after, acked, bounds>>

\* The server ends (writing to a connection its client has reset is enough:
\* SIGPIPE is not ignored) and is started again on the same database.
Restart ==
    /\ restarts < MaxRestart
    /\ restarts' = restarts + 1
    /\ pc' = [f \in Fd |-> "closed"]
    /\ UNCHANGED <<db, conn, name, req, logged, login_f, rows, after, acked, conns>>

\* The steps a thread takes without being asked.
Step(f) ==
    \/ RegistAdd(f) \/ LoginOnline(f) \/ LoginKeygen(f) \/ LoginOn(f) \/ LoginReply(f)
    \/ BroadcastSelect(f) \/ Send(f) \/ SendDone(f) \/ ListDone(f)
    \/ Offline(f) \/ Close(f)

Ask(f) ==
    \/ \E u \in User, p \in Passwd :
          (Regist(f, u, p) \/ Login(f, u, p)) /\ [name |-> u, data |-> p] \in Typed[conn[f]]
    \/ Broadcast(f) \/ ListOnline(f) \/ Gone(f)
    \/ \E u \in User : PrivateSelect(f, u)

Next == (\E f \in Fd : Accept(f) \/ Ask(f) \/ Step(f)) \/ Restart

Spec == Init /\ [][Next]_vars

-----------------------------------------------------------------------------
Open(f) == pc[f] # "closed"

\* "Returns 1: online" (db_user_if_online), "delete from the online list" (func, when a
\* client is gone): as long as the server has not been restarted, the descriptor the
\* table has for a user is an open connection's, so that fd > 0 never keeps a user out
\* who is not connected.  It does not hold: a connection signs off one name, and may
\* have signed on as two, or as one and tried another.
FdIsLive ==
    restarts = 0 => \A u \in Registered : db[u].fd # OFF => Open(db[u].fd)

\* No user is signed on without the password the user was registered with, although
\* the test (db_user_if_online) and the login (db_user_on_off) are statements apart.
LoginKnewPasswd ==
    [][\A f \in Fd :
            (logged'[f] # logged[f] /\ logged'[f] # NULL)
                => req[f] = [name |-> logged'[f], data |-> db[logged'[f]].passwd]]_vars

\* "user regist success!" (regist): what a client is told it registered is what the
\* table holds.
RegistSuccess ==
    \A r \in acked : r.name \in Registered /\ db[r.name].passwd = r.data

\* "-1: not online" (db_user_if_online): a user whom a thread has signed on and
\* whose client is there is not taken for one who is not logged in.
OnlineIsListed ==
    \A f \in Fd : (pc[f] = "read" /\ logged[f] # NULL) => db[logged[f]].fd # OFF

\* "the keygen of the user who receives the message" (db_broadcast, db_private): a
\* message that is written to an open connection is written to the user it is for,
\* under that connection's keygen.
SentToItsUser ==
    [][\A f \in Fd : \A r \in rows[f] \ rows'[f] :
            (pc[f] = "send" /\ r.fd # OFF /\ Open(r.fd))
                => logged[r.fd] = r.to /\ conn[r.fd] = r.keygen]_vars
=============================================================================
