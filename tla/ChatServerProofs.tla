-------------------------- MODULE ChatServerProofs --------------------------
(***************************************************************************)
(* ChatServer proved for any number of users, passwords, descriptors and   *)
(* connections: nobody is signed on without his password, and whom the     *)
(* table has on a descriptor is there, but for the cases the history       *)
(* variables record.  At the end ChatKey, which has the threads of the     *)
(* same server draw their keys, is proved for any number of threads, any   *)
(* values of sync and any length of key.                                   *)
(***************************************************************************)
EXTENDS ChatServerHistory, ChatKey, SequenceTheorems, TLAPS

\* A login in progress is of a registered user, and past db_user_if_online with the
\* password of that user's row.
LoginInProgress ==
    \A f \in Fd :
        /\ pc[f] = "add" => req[f] \in Request
        /\ pc[f] \in {"online", "keygen", "on"} =>
            /\ name[f] \in Registered
            /\ req[f] \in Request /\ req[f].name = name[f]
        /\ pc[f] \in {"keygen", "on"} => req[f].data = db[name[f]].passwd

\* Only registered users are signed on.
LoggedRegistered == \A f \in Fd : logged[f] # NULL => logged[f] \in Registered

IInv == TypeOK /\ LoginInProgress /\ LoggedRegistered

-----------------------------------------------------------------------------
\* With no user and no connection everything holds.
LEMMA InitIInv == Init => IInv
<1> SUFFICES ASSUME Init PROVE IInv
  OBVIOUS
<1> USE ChatConstants DEF Init
<1>1. Registered = {}
  BY DEF Registered
<1>2. TypeOK
  BY <1>1 DEF TypeOK, Registered
<1>3. LoginInProgress /\ LoggedRegistered
  BY <1>1 DEF LoginInProgress, LoggedRegistered
<1> QED
  BY <1>2, <1>3 DEF IInv

\* What a client hears is yes or no.
LEMMA HearsType ==
    ASSUME TypeOK, NEW f \in Fd, NEW ok \in BOOLEAN, Hears(f, ok)
    PROVE  login_f' \in [Fd -> BOOLEAN]
<1>1. PICK heard \in BOOLEAN : login_f' = [login_f EXCEPT ![f] = heard]
  BY DEF Hears
<1> QED
  BY <1>1 DEF TypeOK

\* Steps that leave the table, the requests and who is signed on alone, and take
\* the thread to no stage of a login that says anything of them.
LEMMA QuietStep ==
    ASSUME IInv, NEW f \in Fd,
           NEW l \in {"read", "select", "send", "list", "off", "close", "closed"},
           Goto(f, l), UNCHANGED <<db, conn, name, req, logged, acked, bounds>>,
           login_f' \in [Fd -> BOOLEAN],
           rows' \in [Fd -> SUBSET Target], after' \in [Fd -> {"read", "off"}]
    PROVE  IInv'
<1> USE DEF Goto
<1>0. TypeOK /\ LoginInProgress /\ LoggedRegistered
  BY DEF IInv
<1>1. TypeOK'
  BY <1>0 DEF TypeOK, Registered, bounds
<1>2. \A g \in Fd : pc'[g] = IF g = f THEN l ELSE pc[g]
  BY <1>0 DEF TypeOK
<1>3. LoginInProgress'
  BY <1>0, <1>2 DEF LoginInProgress, Registered
<1>4. LoggedRegistered'
  BY <1>0 DEF LoggedRegistered, Registered
<1> QED
  BY <1>1, <1>3, <1>4 DEF IInv

\* A connection is accepted.
LEMMA AcceptIInv ==
    ASSUME IInv, NEW f \in Fd, Accept(f)
    PROVE  IInv'
<1> USE ChatConstants DEF Goto
<1>0. TypeOK /\ LoginInProgress /\ LoggedRegistered
  BY DEF IInv
<1>1. TypeOK'
  BY <1>0 DEF Accept, TypeOK, Registered
<1>2. \A g \in Fd : g # f => pc'[g] = pc[g] /\ name'[g] = name[g] /\ logged'[g] = logged[g]
  BY <1>0 DEF Accept, TypeOK
<1>3. pc'[f] = "read" /\ logged'[f] = NULL /\ UNCHANGED <<db, req>>
  BY <1>0 DEF Accept, TypeOK
<1>4. LoginInProgress'
  BY <1>0, <1>2, <1>3 DEF LoginInProgress, Registered
<1>5. LoggedRegistered'
  BY <1>0, <1>2, <1>3 DEF LoggedRegistered, Registered
<1> QED
  BY <1>1, <1>4, <1>5 DEF IInv

\* A request to register or to log in, and the test of the password.
LEMMA RequestIInv ==
    ASSUME IInv, NEW f \in Fd,
           \/ \E u \in User, p \in Passwd : Regist(f, u, p) \/ Login(f, u, p)
           \/ LoginOnline(f)
    PROVE  IInv'
<1> USE ChatConstants DEF Goto
<1>0. TypeOK /\ LoginInProgress /\ LoggedRegistered
  BY DEF IInv
<1>1. UNCHANGED <<db, conn, logged, rows, after, acked, bounds>>
  BY DEF Regist, Login, LoginOnline
<1>2. /\ \A g \in Fd : g # f => pc'[g] = pc[g] /\ name'[g] = name[g] /\ req'[g] = req[g]
      /\ name' \in [Fd -> User \cup {NULL}] /\ req' \in [Fd -> Request \cup {NULL}]
      /\ \E l \in {"read", "add", "online", "keygen"} : pc' = [pc EXCEPT ![f] = l]
  <2>1. ASSUME NEW u \in User, NEW p \in Passwd, Regist(f, u, p) \/ Login(f, u, p)
        PROVE  /\ name' = name \/ name' = [name EXCEPT ![f] = u]
               /\ req' = [req EXCEPT ![f] = [name |-> u, data |-> p]]
               /\ \E l \in {"read", "add", "online", "keygen"} : pc' = [pc EXCEPT ![f] = l]
    BY <2>1 DEF Regist, Login
  <2>2. CASE LoginOnline(f)
    BY <1>0, <2>2 DEF LoginOnline, TypeOK
  <2>3. ASSUME NEW u \in User, NEW p \in Passwd PROVE [name |-> u, data |-> p] \in Request
    BY DEF Request
  <2> QED
    BY <1>0, <2>1, <2>2, <2>3 DEF TypeOK
<1>3. login_f' \in [Fd -> BOOLEAN]
  <2>1. UNCHANGED login_f \/ Hears(f, FALSE)
    BY DEF Regist, Login, LoginOnline
  <2> QED
    BY <1>0, <2>1, HearsType DEF TypeOK
<1>4. TypeOK'
  <2>1. pc' \in [Fd -> {"closed", "read", "add", "online", "keygen", "on", "reply", "select",
                       "send", "list", "off", "close"}]
    BY <1>0, <1>2 DEF TypeOK
  <2> QED
    BY <1>0, <1>1, <1>2, <1>3, <2>1 DEF TypeOK, Registered, bounds
<1>5. LoginInProgress'
  <2>1. ASSUME NEW u \in User, NEW p \in Passwd, Regist(f, u, p) PROVE LoginInProgress'
    <3>1. req'[f] = [name |-> u, data |-> p] /\ pc'[f] \in {"read", "add"}
      BY <1>0, <2>1 DEF Regist, TypeOK
    <3> QED
      BY <1>0, <1>1, <1>2, <3>1 DEF LoginInProgress, Registered, Request
  <2>2. ASSUME NEW u \in User, NEW p \in Passwd, Login(f, u, p) PROVE LoginInProgress'
    <3>1. /\ req'[f] = [name |-> u, data |-> p] /\ name'[f] = u
          /\ pc'[f] \in {"read", "online"} /\ (pc'[f] = "online" => u \in Registered)
      BY <1>0, <2>2 DEF Login, TypeOK
    <3> QED
      BY <1>0, <1>1, <1>2, <3>1 DEF LoginInProgress, Registered, Request
  <2>3. CASE LoginOnline(f)
    <3>1. /\ pc[f] = "online" /\ UNCHANGED <<name, req>> /\ pc'[f] \in {"read", "keygen"}
          /\ pc'[f] = "keygen" => req[f].data = db[name[f]].passwd
      BY <1>0, <2>3 DEF LoginOnline, MayLogIn, TypeOK
    <3> QED
      BY <1>0, <1>1, <1>2, <3>1 DEF LoginInProgress, Registered
  <2> QED
    BY <2>1, <2>2, <2>3
<1>6. LoggedRegistered'
  BY <1>0, <1>1 DEF LoggedRegistered, Registered
<1> QED
  BY <1>4, <1>5, <1>6 DEF IInv

\* db_add_user adds a row with no descriptor, or nothing: no row, and so no
\* password, that was there before changes.
LEMMA RegistAddIInv ==
    ASSUME IInv, NEW f \in Fd, RegistAdd(f)
    PROVE  IInv'
<1> USE ChatConstants DEF Goto
<1>0. TypeOK /\ LoginInProgress /\ LoggedRegistered
  BY DEF IInv
<1>1. req[f] \in Request /\ req[f].name \in User /\ req[f].data \in Passwd
  BY <1>0 DEF RegistAdd, LoginInProgress, Request
<1>2. /\ db' \in [Registered' -> Row] /\ Registered' \subseteq User /\ Registered \subseteq Registered'
      /\ \A v \in Registered : db'[v] = db[v]
  <2>1. CASE req[f].name \in Registered
    BY <1>0, <2>1 DEF RegistAdd, TypeOK, Registered
  <2>2. CASE req[f].name \notin Registered
    <3> DEFINE new == [passwd |-> req[f].data, fd |-> OFF, keygen |-> 0]
    <3>1. new \in Row
      BY <1>1 DEF Row
    <3>2. db' = [v \in Registered \cup {req[f].name} |-> IF v = req[f].name THEN new ELSE db[v]]
      BY <2>2 DEF RegistAdd
    <3> HIDE DEF new
    <3> QED
      BY <1>0, <1>1, <2>2, <3>1, <3>2 DEF TypeOK, Registered
  <2> QED
    BY <2>1, <2>2
<1>3. /\ \A g \in Fd : pc'[g] = IF g = f THEN "read" ELSE pc[g]
      /\ UNCHANGED <<conn, name, req, logged, login_f, rows, after, bounds>>
      /\ acked' \subseteq Request /\ pc' = [pc EXCEPT ![f] = "read"]
  BY <1>0, <1>1 DEF RegistAdd, TypeOK
<1>4. TypeOK'
  BY <1>0, <1>2, <1>3 DEF TypeOK, bounds
<1>5. LoginInProgress'
  BY <1>0, <1>2, <1>3 DEF LoginInProgress
<1>6. LoggedRegistered'
  BY <1>0, <1>2, <1>3 DEF LoggedRegistered
<1> QED
  BY <1>4, <1>5, <1>6 DEF IInv

\* The two updates of a login, and the update when the client has gone, change no
\* password.
LEMMA UpdateIInv ==
    ASSUME IInv, NEW f \in Fd, LoginKeygen(f) \/ LoginOn(f) \/ Offline(f)
    PROVE  IInv'
<1> USE ChatConstants DEF Goto
<1>0. TypeOK /\ LoginInProgress /\ LoggedRegistered
  BY DEF IInv
<1>1. CASE LoginKeygen(f)
  <2>1. /\ name[f] \in Registered /\ db' \in [Registered -> Row] /\ Registered' = Registered
        /\ \A v \in Registered : db'[v].passwd = db[v].passwd
    <3>1. name[f] \in Registered /\ conn[f] \in Nat
      BY <1>0, <1>1 DEF LoginKeygen, LoginInProgress, TypeOK
    <3>2. db' = [db EXCEPT ![name[f]].keygen = conn[f]]
      BY <1>1 DEF LoginKeygen
    <3> QED
      BY <1>0, <3>1, <3>2 DEF TypeOK, Row, Registered
  <2>2. /\ \A g \in Fd : pc'[g] = IF g = f THEN "on" ELSE pc[g]
        /\ UNCHANGED <<conn, name, req, logged, login_f, rows, after, acked, bounds>>
        /\ pc' = [pc EXCEPT ![f] = "on"] /\ pc[f] = "keygen"
    BY <1>0, <1>1 DEF LoginKeygen, TypeOK
  <2>3. TypeOK'
    BY <1>0, <2>1, <2>2 DEF TypeOK, bounds
  <2>4. LoginInProgress' /\ LoggedRegistered'
    BY <1>0, <2>1, <2>2 DEF LoginInProgress, LoggedRegistered
  <2> QED
    BY <2>3, <2>4 DEF IInv
<1>2. CASE LoginOn(f)
  <2>1. /\ name[f] \in Registered /\ db' \in [Registered -> Row] /\ Registered' = Registered
        /\ \A v \in Registered : db'[v].passwd = db[v].passwd
    <3>1. name[f] \in Registered
      BY <1>0, <1>2 DEF LoginOn, LoginInProgress, TypeOK
    <3>2. db' = [db EXCEPT ![name[f]].fd = f]
      BY <1>2 DEF LoginOn
    <3> QED
      BY <1>0, <3>1, <3>2 DEF TypeOK, Row, Registered
  <2>2. /\ \A g \in Fd : pc'[g] = IF g = f THEN "reply" ELSE pc[g]
        /\ \A g \in Fd : logged'[g] = IF g = f THEN name[f] ELSE logged[g]
        /\ UNCHANGED <<conn, name, req, login_f, rows, after, acked, bounds>>
        /\ pc' = [pc EXCEPT ![f] = "reply"] /\ logged' \in [Fd -> User \cup {NULL}]
    BY <1>0, <1>2 DEF LoginOn, TypeOK
  <2>3. TypeOK'
    BY <1>0, <2>1, <2>2 DEF TypeOK, bounds
  <2>4. LoginInProgress' /\ LoggedRegistered'
    BY <1>0, <2>1, <2>2 DEF LoginInProgress, LoggedRegistered
  <2> QED
    BY <2>3, <2>4 DEF IInv
<1>3. CASE Offline(f)
  <2>1. /\ db' \in [Registered -> Row] /\ Registered' = Registered
        /\ \A v \in Registered : db'[v].passwd = db[v].passwd
    BY <1>0, <1>3 DEF Offline, TypeOK, Row, Registered
  <2>2. /\ \A g \in Fd : pc'[g] = IF g = f THEN "close" ELSE pc[g]
        /\ UNCHANGED <<conn, name, req, logged, login_f, rows, after, acked, bounds>>
        /\ pc' = [pc EXCEPT ![f] = "close"]
    BY <1>0, <1>3 DEF Offline, TypeOK
  <2>3. TypeOK'
    BY <1>0, <2>1, <2>2 DEF TypeOK, bounds
  <2>4. LoginInProgress' /\ LoggedRegistered'
    BY <1>0, <2>1, <2>2 DEF LoginInProgress, LoggedRegistered
  <2> QED
    BY <2>3, <2>4 DEF IInv
<1> QED
  BY <1>1, <1>2, <1>3

\* The steps of a thread that touch no row.
LEMMA ChatIInv ==
    ASSUME IInv, NEW f \in Fd,
           \/ LoginReply(f)
           \/ Broadcast(f) \/ BroadcastSelect(f) \/ (\E u \in User : PrivateSelect(f, u))
           \/ Send(f) \/ SendDone(f) \/ ListOnline(f) \/ ListDone(f) \/ Gone(f) \/ Close(f)
    PROVE  IInv'
<1> USE ChatConstants
<1>0. TypeOK
  BY DEF IInv
<1> DEFINE Frame == UNCHANGED <<db, conn, name, req, logged, acked, bounds>>
           Types == /\ login_f' \in [Fd -> BOOLEAN]
                    /\ rows' \in [Fd -> SUBSET Target] /\ after' \in [Fd -> {"read", "off"}]
<1>1. ASSUME NEW v \in Registered PROVE AsTarget(v) \in Target
  BY <1>0 DEF AsTarget, Target, TypeOK, Row
<1>2. CASE LoginReply(f)
  <2>1. login_f' \in [Fd -> BOOLEAN]
    BY <1>0, <1>2, HearsType DEF LoginReply
  <2>2. Frame /\ Types /\ Goto(f, "select")
    BY <1>0, <1>2, <2>1 DEF LoginReply, TypeOK
  <2> QED
    BY <2>2, QuietStep
<1>3. CASE BroadcastSelect(f)
  <2>1. rows' \in [Fd -> SUBSET Target]
    BY <1>0, <1>1, <1>3 DEF BroadcastSelect, TypeOK
  <2>2. Frame /\ Types /\ Goto(f, "send")
    BY <1>0, <1>3, <2>1 DEF BroadcastSelect, TypeOK
  <2> QED
    BY <2>2, QuietStep
<1>4. ASSUME NEW u \in User, PrivateSelect(f, u) PROVE IInv'
  <2>1. rows' \in [Fd -> SUBSET Target]
    BY <1>0, <1>1, <1>4 DEF PrivateSelect, TypeOK
  <2>2. Frame /\ Types /\ Goto(f, "send")
    BY <1>0, <1>4, <2>1 DEF PrivateSelect, TypeOK
  <2> QED
    BY <2>2, QuietStep
<1>5. CASE Send(f)
  <2>1. Types
    BY <1>0, <1>5 DEF Send, TypeOK
  <2>2. Frame /\ Goto(f, "send")
    BY <1>0, <1>5 DEF Send, TypeOK, Goto
  <2> QED
    BY <2>1, <2>2, QuietStep
<1>6. CASE SendDone(f)
  <2>1. Frame /\ Types /\ Goto(f, after[f]) /\ after[f] \in {"read", "off"}
    BY <1>0, <1>6 DEF SendDone, TypeOK
  <2> QED
    BY <2>1, QuietStep
<1>7. CASE Broadcast(f) \/ ListOnline(f) \/ ListDone(f) \/ Close(f)
  <2>1. Frame /\ Types /\ \E l \in {"select", "list", "read", "closed"} : Goto(f, l)
    BY <1>0, <1>7 DEF Broadcast, ListOnline, ListDone, Close, TypeOK
  <2> QED
    BY <2>1, QuietStep
<1>8. CASE Gone(f)
  <2>1. Frame /\ Types
    BY <1>0, <1>8 DEF Gone, TypeOK
  <2>2. Goto(f, "select") \/ Goto(f, "close")
    BY <1>8 DEF Gone
  <2> QED
    BY <2>1, <2>2, QuietStep
<1> QED
  BY <1>2, <1>3, <1>4, <1>5, <1>6, <1>7, <1>8

\* Every step keeps the invariant, a restart included.
LEMMA NextIInv ==
    ASSUME IInv, [Next]_vars
    PROVE  IInv'
<1> USE ChatConstants
<1>0. TypeOK /\ LoginInProgress /\ LoggedRegistered
  BY DEF IInv
<1>1. ASSUME NEW f \in Fd, Accept(f) PROVE IInv'
  BY <1>1, AcceptIInv
<1>2. ASSUME NEW f \in Fd, Ask(f) \/ Step(f) PROVE IInv'
  <2>1. CASE (\E u \in User, p \in Passwd : Regist(f, u, p) \/ Login(f, u, p)) \/ LoginOnline(f)
    BY <2>1, RequestIInv
  <2>2. CASE RegistAdd(f)
    BY <2>2, RegistAddIInv
  <2>3. CASE LoginKeygen(f) \/ LoginOn(f) \/ Offline(f)
    BY <2>3, UpdateIInv
  <2>4. CASE \/ LoginReply(f)
             \/ Broadcast(f) \/ BroadcastSelect(f) \/ (\E u \in User : PrivateSelect(f, u))
             \/ Send(f) \/ SendDone(f) \/ ListOnline(f) \/ ListDone(f) \/ Gone(f) \/ Close(f)
    BY <2>4, ChatIInv
  <2> QED
    BY <1>2, <2>1, <2>2, <2>3, <2>4 DEF Ask, Step
<1>3. CASE Restart
  <2>1. \A g \in Fd : pc'[g] = "closed"
    BY <1>3 DEF Restart
  <2>2. TypeOK'
    BY <1>0, <1>3 DEF Restart, TypeOK, Registered
  <2>3. LoginInProgress' /\ LoggedRegistered'
    BY <1>0, <1>3, <2>1 DEF Restart, LoginInProgress, LoggedRegistered, Registered
  <2> QED
    BY <2>2, <2>3 DEF IInv
<1>4. CASE UNCHANGED vars
  <2>1. UNCHANGED <<db, pc, conn, name, req, logged, login_f, rows, after, acked, conns, restarts>>
    BY <1>4 DEF vars, thread, bounds
  <2>2. TypeOK'
    BY <1>0, <2>1 DEF TypeOK, Registered
  <2>3. LoginInProgress' /\ LoggedRegistered'
    BY <1>0, <2>1 DEF LoginInProgress, LoggedRegistered, Registered
  <2> QED
    BY <2>2, <2>3 DEF IInv
<1> QED
  BY <1>1, <1>2, <1>3, <1>4 DEF Next

\* Only a restart changes how often the server was restarted.
LEMMA RestartsGrow ==
    ASSUME TypeOK, [Next]_vars, restarts' = 0
    PROVE  restarts = 0
<1> USE DEF bounds
<1>1. ASSUME NEW f \in Fd, Accept(f) \/ Ask(f) PROVE UNCHANGED restarts
  BY <1>1 DEF Accept, Ask, Regist, Login, Broadcast, ListOnline, Gone, PrivateSelect
<1>2. ASSUME NEW f \in Fd, Step(f) PROVE UNCHANGED restarts
  BY <1>2 DEF Step, RegistAdd, LoginOnline, LoginKeygen, LoginOn, LoginReply, BroadcastSelect,
              Send, SendDone, ListDone, Offline, Close
<1>3. CASE Restart
  BY <1>3 DEF Restart, TypeOK
<1>4. CASE UNCHANGED vars
  BY <1>4 DEF vars
<1> QED
  BY <1>1, <1>2, <1>3, <1>4 DEF Next

-----------------------------------------------------------------------------
(* With the history variables *)

\* A name that is about to be added is not in the table, unless two connections are
\* adding it, and that is on record.
RaceSeen ==
    /\ \A f \in Adding : req[f].name \notin raced => req[f].name \notin Registered
    /\ TwoAdding \subseteq raced

\* So are names that two connections have, ...
SharedSeen == TwoPresent \subseteq shared

\* ... and names a connection was signed on as before the one it has.
LeftSeen == Leaving \subseteq left

\* FdLiveUnlessLeft, and that the thread has still to sign the user off.
FdIsHeld ==
    \A u \in Registered :
        (db[u].fd # OFF /\ u \notin left)
            => pc[db[u].fd] \notin {"closed", "close"} /\ logged[db[u].fd] = u

\* A connection is in the table from its login until it is signed off.
ListedWhilePresent ==
    \A f \in Present :
        (logged[f] # NULL /\ logged[f] \notin shared \cup left) => db[logged[f]].fd = f

\* The keygen of a row is that of the connection the row names, or will name.
KeygenOfFd ==
    /\ \A f \in Fd : (pc[f] = "on" /\ name[f] \notin shared) => db[name[f]].keygen = conn[f]
    /\ restarts = 0 =>
          \A u \in Registered :
              (db[u].fd # OFF /\ u \notin shared \cup left) => db[u].keygen = conn[db[u].fd]

\* What a thread has read and not yet written to is still so.
RowsFresh ==
    restarts = 0 =>
        \A f \in Fd : pc[f] = "send" =>
            \A r \in rows[f] :
                (r.fd # OFF /\ r.fd \notin moved[f] /\ r.to \notin shared \cup left)
                    => Open(r.fd) /\ logged[r.fd] = r.to /\ conn[r.fd] = r.keygen

\* A step of one thread leaves the locals of the others alone, ...
LEMMA OthersKeep ==
    ASSUME TypeOK, NEW f \in Fd, Accept(f) \/ Ask(f) \/ Step(f), NEW g \in Fd, g # f
    PROVE  /\ pc'[g] = pc[g] /\ conn'[g] = conn[g] /\ name'[g] = name[g] /\ req'[g] = req[g]
           /\ logged'[g] = logged[g] /\ rows'[g] = rows[g]
<1> USE DEF TypeOK, Goto
<1>1. CASE Accept(f)
  BY <1>1 DEF Accept
<1>2. CASE Ask(f)
  BY <1>2 DEF Ask, Regist, Login, Broadcast, ListOnline, Gone, PrivateSelect
<1>3. CASE Step(f)
  BY <1>3 DEF Step, RegistAdd, LoginOnline, LoginKeygen, LoginOn, LoginReply, BroadcastSelect, Send,
              SendDone, ListDone, Offline, Close
<1> QED
  BY <1>1, <1>2, <1>3

\* ... keeps passwords and rows, changes a descriptor or a keygen only in the row of
\* its own name and in its own favour or to sign off, ...
LEMMA TableStep ==
    ASSUME IInv, NEW f \in Fd, Accept(f) \/ Ask(f) \/ Step(f)
    PROVE  /\ \A u \in Registered : u \in Registered' /\ db'[u].passwd = db[u].passwd
           /\ \A u \in Registered' \ Registered :
                 /\ db'[u].fd = OFF /\ pc[f] = "add"
                 /\ u = req[f].name
           /\ \A u \in Registered : db'[u].fd # db[u].fd =>
                 /\ u = name[f]
                 /\ \/ pc[f] = "on" /\ db'[u].fd = f /\ logged'[f] = u
                    \/ pc[f] = "off" /\ db'[u].fd = OFF /\ pc'[f] = "close"
           /\ \A u \in Registered : db'[u].keygen # db[u].keygen =>
                 u = name[f] /\ pc[f] = "keygen" /\ db'[u].keygen = conn[f]
<1>0. TypeOK /\ LoginInProgress
  BY DEF IInv
<1>1. CASE Accept(f) \/ Ask(f)
  <2>1. db' = db
    BY <1>1 DEF Accept, Ask, Regist, Login, Broadcast, ListOnline, Gone, PrivateSelect
  <2> QED
    BY <2>1 DEF Registered
<1>2. CASE RegistAdd(f)
  <2>1. pc[f] = "add"
    BY <1>2 DEF RegistAdd
  <2>2. CASE req[f].name \in Registered
    BY <1>2, <2>2 DEF RegistAdd, Registered
  <2>3. CASE req[f].name \notin Registered
    <3>1. db' = [u \in Registered \cup {req[f].name} |->
                    IF u = req[f].name THEN [passwd |-> req[f].data, fd |-> OFF, keygen |-> 0]
                    ELSE db[u]]
      BY <1>2, <2>3 DEF RegistAdd
    <3>2. Registered' = Registered \cup {req[f].name}
      BY <3>1 DEF Registered
    <3> QED
      BY <2>1, <2>3, <3>1, <3>2
  <2> QED
    BY <2>2, <2>3
<1>3. CASE LoginKeygen(f)
  <2>1. pc[f] = "keygen" /\ name[f] \in Registered /\ db' = [db EXCEPT ![name[f]].keygen = conn[f]]
    BY <1>0, <1>3 DEF LoginKeygen, LoginInProgress
  <2> QED
    BY <1>0, <2>1 DEF TypeOK, Registered, Row
<1>4. CASE LoginOn(f)
  <2>1. /\ pc[f] = "on" /\ name[f] \in Registered /\ db' = [db EXCEPT ![name[f]].fd = f]
        /\ logged'[f] = name[f]
    BY <1>0, <1>4 DEF LoginOn, LoginInProgress, TypeOK
  <2> QED
    BY <1>0, <2>1 DEF TypeOK, Registered, Row
<1>5. CASE Offline(f)
  <2>1. /\ pc[f] = "off" /\ pc'[f] = "close"
        /\ db' = [u \in Registered |-> IF u = name[f] THEN [db[u] EXCEPT !.fd = OFF] ELSE db[u]]
    BY <1>0, <1>5 DEF Offline, Goto, TypeOK
  <2>2. Registered' = Registered
    BY <2>1 DEF Registered
  <2> QED
    BY <1>0, <2>1, <2>2 DEF TypeOK, Row
<1>6. CASE \/ LoginOnline(f) \/ LoginReply(f) \/ BroadcastSelect(f) \/ Send(f) \/ SendDone(f)
           \/ ListDone(f) \/ Close(f)
  <2>1. db' = db
    BY <1>6 DEF LoginOnline, LoginReply, BroadcastSelect, Send, SendDone, ListDone, Close
  <2> QED
    BY <2>1 DEF Registered
<1> QED
  BY <1>1, <1>2, <1>3, <1>4, <1>5, <1>6 DEF Step

\* ... and its own locals only where it logs in or is accepted.
LEMMA ThreadStep ==
    ASSUME IInv, NEW f \in Fd, Accept(f) \/ Ask(f) \/ Step(f)
    PROVE  /\ conn'[f] # conn[f] => pc[f] = "closed"
           /\ logged'[f] # logged[f] =>
                 \/ /\ pc[f] = "on" /\ logged'[f] = name[f]
                    /\ name[f] \in Registered /\ db'[name[f]].fd = f
                 \/ pc[f] = "closed" /\ logged'[f] = NULL
           /\ pc'[f] = "on" => /\ pc[f] = "keygen" /\ name'[f] = name[f] /\ conn'[f] = conn[f]
                              /\ name[f] \in Registered /\ db'[name[f]].keygen = conn[f]
           /\ pc[f] = "closed" => pc'[f] = "read" /\ logged'[f] = NULL
           /\ pc[f] \in {"close", "closed"} => pc'[f] \in {"closed", "read"}
           /\ pc[f] = "close" => pc'[f] = "closed"
           /\ pc[f] = "on" => pc'[f] = "reply"
           /\ pc'[f] \in {"close", "closed"} =>
                 \/ pc[f] = "close"
                 \/ pc[f] = "read" /\ name[f] = NULL
                 \/ pc[f] = "off" /\ \A u \in Registered : u = name[f] => db'[u].fd = OFF
<1>0. TypeOK /\ LoginInProgress
  BY DEF IInv
<1> USE DEF Goto
<1>1. CASE Accept(f)
  BY <1>0, <1>1 DEF Accept, TypeOK
<1>2. CASE Ask(f)
  <2>1. /\ UNCHANGED <<conn, logged>> /\ pc[f] = "read"
        /\ pc'[f] \in {"read", "add", "online", "select", "send", "list", "close"}
        /\ pc'[f] = "close" => name[f] = NULL
    BY <1>0, <1>2 DEF Ask, Regist, Login, Broadcast, ListOnline, Gone, PrivateSelect, TypeOK
  <2> QED
    BY <2>1
<1>3. CASE LoginKeygen(f)
  <2>1. pc[f] = "keygen" /\ name[f] \in Registered /\ db' = [db EXCEPT ![name[f]].keygen = conn[f]]
    BY <1>0, <1>3 DEF LoginKeygen, LoginInProgress
  <2>2. db'[name[f]].keygen = conn[f]
    BY <1>0, <2>1 DEF TypeOK, Registered, Row
  <2> QED
    BY <1>0, <1>3, <2>1, <2>2 DEF LoginKeygen, TypeOK
<1>4. CASE LoginOn(f)
  <2>1. /\ pc[f] = "on" /\ name[f] \in Registered /\ db' = [db EXCEPT ![name[f]].fd = f]
        /\ logged'[f] = name[f] /\ pc'[f] = "reply"
        /\ UNCHANGED <<conn, name>>
    BY <1>0, <1>4 DEF LoginOn, LoginInProgress, TypeOK
  <2>2. db'[name[f]].fd = f
    BY <1>0, <2>1 DEF TypeOK, Registered, Row
  <2> QED
    BY <2>1, <2>2
<1>5. CASE \/ RegistAdd(f) \/ LoginOnline(f) \/ LoginReply(f) \/ BroadcastSelect(f)
           \/ Send(f) \/ SendDone(f) \/ ListDone(f) \/ Offline(f) \/ Close(f)
  <2>1. UNCHANGED <<conn, name, logged>>
    BY <1>5 DEF RegistAdd, LoginOnline, LoginReply, BroadcastSelect, Send, SendDone, ListDone,
                Offline, Close
  <2>2. CASE Offline(f)
    <3>1. /\ pc[f] = "off" /\ pc'[f] = "close"
          /\ \A u \in Registered : u = name[f] => db'[u].fd = OFF
      BY <1>0, <2>2 DEF Offline, TypeOK, Row
    <3> QED
      BY <2>1, <3>1
  <2>3. CASE RegistAdd(f) \/ LoginOnline(f) \/ LoginReply(f) \/ ListDone(f) \/ Close(f)
    <3>1. /\ pc'[f] \in {"read", "keygen", "select", "closed"}
          /\ pc[f] \notin {"closed", "on"} /\ (pc[f] = "close" => pc'[f] = "closed")
          /\ pc'[f] = "closed" => pc[f] = "close"
      BY <1>0, <2>3 DEF RegistAdd, LoginOnline, LoginReply, ListDone, Close, TypeOK
    <3> QED
      BY <2>1, <3>1
  <2>4. CASE BroadcastSelect(f) \/ Send(f) \/ SendDone(f)
    <3>1. pc[f] \in {"select", "send"} /\ pc'[f] \in {"read", "send", "off"}
      BY <1>0, <2>4 DEF BroadcastSelect, Send, SendDone, TypeOK
    <3> QED
      BY <2>1, <3>1
  <2> QED
    BY <1>5, <2>2, <2>3, <2>4
<1> QED
  BY <1>1, <1>2, <1>3, <1>4, <1>5 DEF Step

\* However the statements of concurrent registrations and logins interleave, and
\* however often the server restarts, whoever is signed on gave the password his
\* name was registered with.
THEOREM PasswdAlwaysKnown == Spec => LoginKnewPasswd
<1> DEFINE Knew(f) == (logged'[f] # logged[f] /\ logged'[f] # NULL)
                          => req[f] = [name |-> logged'[f], data |-> db[logged'[f]].passwd]
<1>1. IInv /\ [Next]_vars => IInv' /\ [\A f \in Fd : Knew(f)]_vars
  <2> SUFFICES ASSUME IInv, [Next]_vars, vars' # vars, NEW f \in Fd,
                      logged'[f] # logged[f], logged'[f] # NULL
               PROVE  req[f] = [name |-> logged'[f], data |-> db[logged'[f]].passwd]
    BY NextIInv
  <2>0. TypeOK /\ LoginInProgress
    BY DEF IInv
  <2>1. PICK g \in Fd : Accept(g) \/ Ask(g) \/ Step(g)
    <3>1. ~Restart
      BY DEF Restart
    <3> QED
      BY <3>1 DEF Next
  <2>2. g = f
    BY <2>0, <2>1, OthersKeep
  <2>3. pc[f] = "on" /\ logged'[f] = name[f]
    BY <2>1, <2>2, ThreadStep
  <2>4. req[f] \in Request /\ req[f].name = name[f] /\ req[f].data = db[name[f]].passwd
    BY <2>0, <2>3 DEF LoginInProgress
  <2> QED
    BY <2>3, <2>4 DEF Request
<1>2. Init => IInv
  BY InitIInv
<1> QED
  BY <1>1, <1>2, PTL DEF Spec, LoginKnewPasswd

\* A name is added to the table only by a thread that had it to itself, or the race
\* for it is on record.
LEMMA RaceStep ==
    ASSUME IInv, RaceSeen, RegistUnlessRaced, [HNext]_hvars
    PROVE  RaceSeen' /\ RegistUnlessRaced'
<1>0. TypeOK /\ LoginInProgress
  BY DEF IInv
<1>1. CASE UNCHANGED hvars
  BY <1>1 DEF hvars, history, vars, thread, RaceSeen, RegistUnlessRaced, TwoAdding, Adding, Registered
<1>2. CASE HNext
  <2>0. raced \subseteq raced' /\ TwoAdding' \subseteq raced'
    BY <1>2 DEF HNext
  <2>1. ASSUME NEW f \in Fd, Accept(f) \/ Ask(f) \/ Step(f)
        PROVE  RaceSeen' /\ RegistUnlessRaced'
    <3>1. pc'[f] = "add" => db' = db /\ req'[f].name \notin Registered
      <4>1. CASE Ask(f)
        <5>1. CASE \E u \in User, p \in Passwd : Regist(f, u, p)
          BY <1>0, <5>1 DEF Regist, Goto, TypeOK
        <5>2. CASE ~ \E u \in User, p \in Passwd : Regist(f, u, p)
          <6>1. pc'[f] # "add"
            BY <1>0, <4>1, <5>2 DEF Ask, Login, Broadcast, ListOnline, Gone, PrivateSelect, Goto, TypeOK
          <6> QED
            BY <6>1
        <5> QED
          BY <5>1, <5>2
      <4>2. CASE Accept(f) \/ Step(f)
        <5>1. pc'[f] # "add"
          BY <1>0, <4>2 DEF Accept, Step, RegistAdd, LoginOnline, LoginKeygen, LoginOn,
                LoginReply, BroadcastSelect, Send, SendDone, ListDone, Offline, Close, Goto, TypeOK
        <5> QED
          BY <5>1
      <4> QED
        BY <2>1, <4>1, <4>2
    <3>2. ASSUME NEW g \in Adding', req'[g].name \notin raced' PROVE req'[g].name \notin Registered'
      <4>1. CASE g = f
        BY <3>1, <3>2, <4>1 DEF Adding, Registered
      <4>2. CASE g # f
        <5>1. g \in Adding /\ req'[g] = req[g]
          BY <1>0, <2>1, <4>2, OthersKeep DEF Adding
        <5>2. req[g].name \notin raced /\ req[g].name \notin Registered
          BY <2>0, <3>2, <5>1 DEF RaceSeen
        <5>3. ASSUME req[g].name \in Registered' PROVE FALSE
          <6>1. f \in Adding /\ req[g].name = req[f].name
            BY <2>1, <5>2, <5>3, TableStep DEF Adding
          <6>2. req[f].name \in User
            BY <1>0, <6>1 DEF LoginInProgress, Adding, Request
          <6>3. req[f].name \in TwoAdding
            BY <4>2, <5>1, <6>1, <6>2 DEF TwoAdding
          <6> QED
            BY <5>2, <6>1, <6>3 DEF RaceSeen
        <5> QED
          BY <5>1, <5>3
      <4> QED
        BY <4>1, <4>2
    <3>3. ASSUME NEW r \in acked', r.name \notin raced'
          PROVE  r.name \in Registered' /\ db'[r.name].passwd = r.data
      <4>1. CASE r \in acked
        <5>1. r.name \in Registered /\ db[r.name].passwd = r.data
          BY <2>0, <3>3, <4>1 DEF RegistUnlessRaced
        <5> QED
          BY <2>1, <5>1, TableStep
      <4>2. CASE r \notin acked
        <5>1. RegistAdd(f) /\ r = req[f]
          <6>1. CASE Accept(f) \/ Ask(f)
            BY <4>2, <6>1 DEF Accept, Ask, Regist, Login, Broadcast, ListOnline, Gone, PrivateSelect
          <6>2. CASE Step(f)
            BY <4>2, <6>2 DEF Step, RegistAdd, LoginOnline, LoginKeygen, LoginOn, LoginReply,
                              BroadcastSelect, Send, SendDone, ListDone, Offline, Close
          <6> QED
            BY <2>1, <6>1, <6>2
        <5>2. f \in Adding /\ req[f].name \notin raced
          BY <2>0, <3>3, <5>1 DEF RegistAdd, Adding
        <5>3. req[f].name \notin Registered
          BY <5>2 DEF RaceSeen
        <5>4. db' = [u \in Registered \cup {req[f].name} |->
                        IF u = req[f].name THEN [passwd |-> req[f].data, fd |-> OFF, keygen |-> 0]
                        ELSE db[u]]
          BY <5>1, <5>3 DEF RegistAdd
        <5>5. Registered' = Registered \cup {req[f].name}
          BY <5>4 DEF Registered
        <5> QED
          BY <5>1, <5>4, <5>5
      <4> QED
        BY <4>1, <4>2
    <3> QED
      BY <2>0, <3>2, <3>3 DEF RaceSeen, RegistUnlessRaced
  <2>2. CASE Restart
    <3>1. Adding' = {} /\ UNCHANGED <<db, acked>>
      BY <2>2 DEF Restart, Adding
    <3> QED
      BY <2>0, <3>1 DEF RaceSeen, RegistUnlessRaced, Registered
  <2> QED
    BY <1>2, <2>1, <2>2 DEF HNext, Next
<1> QED
  BY <1>1, <1>2

\* A row gets a descriptor from that connection's own thread, which signs the name
\* off before it closes, as long as it is the last name that was tried there.
LEMMA HeldStep ==
    ASSUME IInv, LeftSeen, FdIsHeld, [HNext]_hvars, restarts' = 0
    PROVE  FdIsHeld'
<1>0. TypeOK /\ LoggedRegistered
  BY DEF IInv
<1>1. CASE UNCHANGED hvars
  BY <1>1 DEF hvars, history, vars, thread, FdIsHeld, Registered
<1>2. ASSUME HNext, NEW f \in Fd, Accept(f) \/ Ask(f) \/ Step(f),
             NEW u \in Registered', db'[u].fd # OFF, u \notin left'
      PROVE  pc'[db'[u].fd] \notin {"closed", "close"} /\ logged'[db'[u].fd] = u
  <2>0. u \in Registered /\ u \in User /\ u # NULL /\ u \notin left
    BY <1>0, <1>2, TableStep, ChatConstants DEF TypeOK, HNext
  <2>1. CASE db'[u].fd # db[u].fd
    <3>1. pc[f] = "on" /\ db'[u].fd = f /\ logged'[f] = u
      BY <1>2, <2>0, <2>1, TableStep
    <3>2. pc'[f] = "reply"
      BY <1>2, <3>1, ThreadStep
    <3> QED
      BY <3>1, <3>2
  <2>2. CASE db'[u].fd = db[u].fd
    <3> DEFINE d == db[u].fd
    <3>1. d \in Fd /\ pc[d] \notin {"closed", "close"} /\ logged[d] = u
      BY <1>0, <1>2, <2>0, <2>2 DEF FdIsHeld, TypeOK, Row
    <3>2. name[d] = u
      BY <2>0, <3>1 DEF LeftSeen, Leaving, Present
    <3> HIDE DEF d
    <3>3. CASE d # f
      <4>1. pc'[d] = pc[d] /\ logged'[d] = logged[d]
        BY <1>0, <1>2, <3>1, <3>3, OthersKeep
      <4> QED
        BY <2>2, <3>1, <4>1 DEF d
    <3>4. CASE d = f
      <4>1. logged'[f] = u
        BY <1>2, <3>1, <3>2, <3>4, ThreadStep
      <4>2. db'[u].fd # OFF /\ pc[f] # "close" /\ name[f] # NULL
        BY <1>2, <2>0, <3>1, <3>2, <3>4
      <4>3. pc'[f] \notin {"closed", "close"}
        BY <1>2, <2>0, <3>2, <3>4, <4>2, ThreadStep
      <4> QED
        BY <2>2, <3>4, <4>1, <4>3 DEF d
    <3> QED
      BY <3>3, <3>4
  <2> QED
    BY <2>1, <2>2
<1>3. ~Restart
  BY <1>0 DEF Restart, TypeOK
<1> QED
  BY <1>1, <1>2, <1>3 DEF FdIsHeld, HNext, Next

\* As long as a connection has a name to itself, no other thread touches its row.
LEMMA ListedStep ==
    ASSUME IInv, SharedSeen, LeftSeen, ListedWhilePresent, [HNext]_hvars
    PROVE  SharedSeen' /\ LeftSeen' /\ ListedWhilePresent'
<1>0. TypeOK /\ LoginInProgress /\ LoggedRegistered
  BY DEF IInv
<1>1. CASE UNCHANGED hvars
  BY <1>1 DEF hvars, history, vars, thread, SharedSeen, LeftSeen, ListedWhilePresent,
              TwoPresent, Leaving, Present
<1>2. CASE HNext
  <2>0. shared \subseteq shared' /\ left \subseteq left' /\ SharedSeen' /\ LeftSeen'
    BY <1>2 DEF HNext, SharedSeen, LeftSeen
  <2>1. ASSUME NEW f \in Fd, Accept(f) \/ Ask(f) \/ Step(f),
               NEW g \in Present', logged'[g] # NULL, logged'[g] \notin shared' \cup left'
        PROVE  db'[logged'[g]].fd = g
    <3>1. CASE logged'[g] # logged[g]
      <4>1. g = f
        BY <1>0, <2>1, <3>1, OthersKeep DEF Present
      <4> QED
        BY <2>1, <3>1, <4>1, ThreadStep
    <3>2. CASE logged'[g] = logged[g]
      <4>1. g \in Present
        <5>1. CASE g = f
          BY <2>1, <5>1, ThreadStep DEF Present
        <5>2. CASE g # f
          BY <1>0, <2>1, <5>2, OthersKeep DEF Present
        <5> QED
          BY <5>1, <5>2
      <4>2. /\ db[logged[g]].fd = g /\ name[g] = logged[g] /\ logged[g] \in Registered
            /\ logged[g] \in User
        <5>1. /\ logged[g] \notin shared \cup left /\ logged[g] \in Registered
              /\ logged[g] \in User /\ g \in Fd
          BY <1>0, <2>0, <2>1, <3>2, <4>1 DEF LoggedRegistered, Present, TypeOK
        <5> QED
          BY <2>1, <3>2, <4>1, <5>1 DEF ListedWhilePresent, LeftSeen, Leaving
      <4>3. ASSUME db'[logged[g]].fd # g PROVE FALSE
        <5>1. /\ logged[g] = name[f]
              /\ \/ pc[f] = "on" /\ db'[logged[g]].fd = f /\ logged'[f] = logged[g]
                 \/ pc[f] = "off" /\ pc'[f] = "close"
          BY <2>1, <4>2, <4>3, TableStep
        <5>2. g # f
          BY <2>1, <4>3, <5>1 DEF Present
        <5>3. logged[g] \in TwoPresent
          BY <4>1, <4>2, <5>1, <5>2 DEF TwoPresent, Present
        <5> QED
          BY <2>0, <2>1, <3>2, <5>3 DEF SharedSeen
      <4> QED
        BY <3>2, <4>3
    <3> QED
      BY <3>1, <3>2
  <2>2. CASE Restart
    <3>1. Present' = {}
      BY <2>2 DEF Restart, Present
    <3> QED
      BY <2>0, <3>1 DEF ListedWhilePresent
  <2>3. CASE \E f \in Fd : Accept(f) \/ Ask(f) \/ Step(f)
    BY <2>0, <2>1, <2>3 DEF ListedWhilePresent
  <2> QED
    BY <1>2, <2>2, <2>3 DEF HNext, Next
<1> QED
  BY <1>1, <1>2

\* Nor does another thread change the keygen of its row.
LEMMA KeygenStep ==
    ASSUME IInv, restarts = 0 => FdIsHeld, SharedSeen, LeftSeen, KeygenOfFd, [HNext]_hvars
    PROVE  KeygenOfFd'
<1>0. TypeOK /\ LoginInProgress /\ LoggedRegistered
  BY DEF IInv
<1>1. CASE UNCHANGED hvars
  BY <1>1 DEF hvars, history, vars, thread, bounds, KeygenOfFd, Registered
<1>2. CASE HNext
  <2>0. shared \subseteq shared' /\ left \subseteq left' /\ (restarts' = 0 => restarts = 0)
    <3>1. [Next]_vars
      BY <1>2 DEF HNext
    <3> QED
      BY <1>0, <1>2, <3>1, RestartsGrow DEF HNext
  <2>1. ASSUME NEW f \in Fd, Accept(f) \/ Ask(f) \/ Step(f) PROVE KeygenOfFd'
    <3>1. ASSUME NEW g \in Fd, pc'[g] = "on", name'[g] \notin shared'
          PROVE  db'[name'[g]].keygen = conn'[g]
      <4>1. CASE g = f
        BY <2>1, <3>1, <4>1, ThreadStep
      <4>2. CASE g # f
        <5>1. pc[g] = "on" /\ name'[g] = name[g] /\ conn'[g] = conn[g]
          BY <1>0, <2>1, <3>1, <4>2, OthersKeep
        <5>2. name[g] \in Registered /\ name[g] \in User /\ db[name[g]].keygen = conn[g]
          BY <1>0, <2>0, <3>1, <5>1 DEF LoginInProgress, KeygenOfFd, TypeOK
        <5>3. ASSUME db'[name[g]].keygen # conn[g] PROVE FALSE
          <6>1. name[g] = name[f] /\ pc[f] = "keygen"
            BY <2>1, <5>2, <5>3, TableStep
          <6>2. name[g] \in TwoPresent
            BY <4>2, <5>1, <5>2, <6>1 DEF TwoPresent, Present
          <6> QED
            BY <2>0, <3>1, <5>1, <6>2 DEF SharedSeen
        <5> QED
          BY <5>1, <5>3
      <4> QED
        BY <4>1, <4>2
    <3>2. ASSUME restarts' = 0, NEW u \in Registered', db'[u].fd # OFF, u \notin shared' \cup left'
          PROVE  db'[u].keygen = conn'[db'[u].fd]
      <4>0. FdIsHeld /\ u \in Registered /\ u \notin shared \cup left /\ u \in User
        BY <1>0, <2>0, <2>1, <3>2, TableStep DEF TypeOK
      <4>1. CASE db'[u].fd = db[u].fd
        <5>1. /\ db[u].keygen = conn[db[u].fd] /\ db[u].fd \in Fd
              /\ db[u].fd \in Present /\ logged[db[u].fd] = u
          BY <1>0, <2>0, <3>2, <4>0, <4>1 DEF KeygenOfFd, FdIsHeld, TypeOK, Row, Present
        <5>2. name[db[u].fd] = u
          BY <4>0, <5>1 DEF LeftSeen, Leaving
        <5>3. conn'[db[u].fd] = conn[db[u].fd]
          <6>1. CASE db[u].fd = f
            BY <2>1, <5>1, <6>1, ThreadStep DEF Present
          <6>2. CASE db[u].fd # f
            BY <1>0, <2>1, <5>1, <6>2, OthersKeep
          <6> QED
            BY <6>1, <6>2
        <5>4. CASE db'[u].keygen = db[u].keygen
          BY <4>1, <5>1, <5>3, <5>4
        <5>5. CASE db'[u].keygen # db[u].keygen
          <6>1. u = name[f] /\ pc[f] = "keygen" /\ db'[u].keygen = conn[f]
            BY <2>1, <4>0, <5>5, TableStep
          <6>2. db[u].fd = f
            BY <4>0, <5>1, <5>2, <6>1 DEF TwoPresent, Present, SharedSeen
          <6> QED
            BY <4>1, <5>3, <6>1, <6>2
        <5> QED
          BY <5>4, <5>5
      <4>2. CASE db'[u].fd # db[u].fd
        <5>1. u = name[f] /\ pc[f] = "on" /\ db'[u].fd = f
          BY <2>1, <3>2, <4>0, <4>2, TableStep
        <5>2. db[u].keygen = conn[f] /\ db'[u].keygen = db[u].keygen /\ conn'[f] = conn[f]
          BY <2>1, <4>0, <5>1, TableStep, ThreadStep DEF KeygenOfFd
        <5> QED
          BY <5>1, <5>2
      <4> QED
        BY <4>1, <4>2
    <3> QED
      BY <3>1, <3>2 DEF KeygenOfFd
  <2>2. CASE Restart
    <3>1. restarts' # 0 /\ \A f \in Fd : pc'[f] # "on"
      BY <1>0, <2>2 DEF Restart, TypeOK
    <3> QED
      BY <3>1 DEF KeygenOfFd
  <2> QED
    BY <1>2, <2>1, <2>2 DEF HNext, Next
<1> QED
  BY <1>1, <1>2

\* What a select has read stays true of a connection for as long as that is open.
LEMMA RowsStep ==
    ASSUME IInv, restarts = 0 => FdIsHeld, LeftSeen, KeygenOfFd, RowsFresh, [HNext]_hvars
    PROVE  RowsFresh'
<1>0. TypeOK /\ LoginInProgress /\ LoggedRegistered
  BY DEF IInv
<1>1. CASE UNCHANGED hvars
  BY <1>1 DEF hvars, history, vars, thread, bounds, RowsFresh, Open
<1>2. CASE HNext
  <2>0. shared \subseteq shared' /\ left \subseteq left' /\ (restarts' = 0 => restarts = 0)
    <3>1. [Next]_vars
      BY <1>2 DEF HNext
    <3> QED
      BY <1>0, <1>2, <3>1, RestartsGrow DEF HNext
  <2>1. ASSUME NEW f \in Fd, Accept(f) \/ Ask(f) \/ Step(f), restarts' = 0,
               NEW g \in Fd, pc'[g] = "send", NEW r \in rows'[g],
               r.fd # OFF, r.fd \notin moved'[g], r.to \notin shared' \cup left'
        PROVE  Open(r.fd)' /\ logged'[r.fd] = r.to /\ conn'[r.fd] = r.keygen
    <3>1. CASE pc[g] = "send" /\ r \in rows[g]
      <4>1. moved'[g] = moved[g] \cup {h \in Fd : Open(h) /\ ~Open(h)'}
        BY <1>2, <2>1 DEF HNext
      <4>2. r \in Target /\ r.fd \in Fd /\ r.to \in User
        BY <1>0, <2>1, <3>1 DEF TypeOK, Target
      <4>3. Open(r.fd) /\ logged[r.fd] = r.to /\ conn[r.fd] = r.keygen
        BY <2>0, <2>1, <3>1, <4>1 DEF RowsFresh
      <4>4. Open(r.fd)'
        BY <2>1, <4>1, <4>2, <4>3
      <4>5. logged'[r.fd] = logged[r.fd] /\ conn'[r.fd] = conn[r.fd]
        <5>1. CASE r.fd = f
          <6>1. pc[f] = "on" => name[f] = r.to
            BY <2>0, <2>1, <4>2, <4>3, <5>1 DEF LeftSeen, Leaving, Present
          <6> QED
            BY <2>1, <4>2, <4>3, <5>1, <6>1, ThreadStep DEF Open
        <5>2. CASE r.fd # f
          BY <1>0, <2>1, <4>2, <5>2, OthersKeep
        <5> QED
          BY <5>1, <5>2
      <4> QED
        BY <4>3, <4>4, <4>5
    <3>2. CASE ~(pc[g] = "send" /\ r \in rows[g])
      <4>1. g = f
        BY <1>0, <2>1, <3>2, OthersKeep
      <4>2. BroadcastSelect(f) \/ \E u \in User : PrivateSelect(f, u)
        <5>1. CASE Accept(f) \/ Ask(f)
          BY <1>0, <2>1, <4>1, <5>1 DEF Accept, Ask, Regist, Login, Broadcast, ListOnline, Gone, Goto, TypeOK
        <5>2. CASE Send(f)
          BY <1>0, <2>1, <3>2, <4>1, <5>2 DEF Send, TypeOK
        <5>3. CASE Step(f) /\ ~Send(f)
          BY <1>0, <2>1, <4>1, <5>3 DEF Step, RegistAdd, LoginOnline, LoginKeygen, LoginOn,
                LoginReply, SendDone, ListDone, Offline, Close, Goto, TypeOK
        <5> QED
          BY <2>1, <5>1, <5>2, <5>3
      <4>3. r.to \in Registered /\ r.fd = db[r.to].fd /\ r.keygen = db[r.to].keygen
        BY <1>0, <2>1, <4>1, <4>2 DEF BroadcastSelect, PrivateSelect, AsTarget, TypeOK
      <4>4. /\ UNCHANGED <<conn, logged>> /\ pc'[f] # "closed"
            /\ \A h \in Fd : Open(h) => Open(h)'
        BY <1>0, <4>2 DEF BroadcastSelect, PrivateSelect, Goto, Open, TypeOK
      <4>5. /\ FdIsHeld /\ db[r.to].fd \in Fd
            /\ db[r.to].keygen = conn[db[r.to].fd]
        <5>1. r.to \notin shared \cup left /\ db[r.to].fd # OFF /\ restarts = 0
          BY <2>0, <2>1, <4>3
        <5> QED
          BY <1>0, <4>3, <5>1 DEF KeygenOfFd, TypeOK, Row
      <4>6. Open(db[r.to].fd) /\ logged[db[r.to].fd] = r.to
        BY <2>0, <2>1, <4>3, <4>5 DEF FdIsHeld, Open
      <4> QED
        BY <4>3, <4>4, <4>5, <4>6
    <3> QED
      BY <3>1, <3>2
  <2>2. CASE Restart
    <3>1. restarts' # 0
      BY <1>0, <2>2 DEF Restart, TypeOK
    <3> QED
      BY <3>1 DEF RowsFresh
  <2>3. CASE \E f \in Fd : Accept(f) \/ Ask(f) \/ Step(f)
    BY <2>1, <2>3 DEF RowsFresh
  <2> QED
    BY <1>2, <2>2, <2>3 DEF HNext, Next
<1> QED
  BY <1>1, <1>2

-----------------------------------------------------------------------------
HInv ==
    /\ IInv /\ (restarts = 0 => FdIsHeld)
    /\ RaceSeen /\ RegistUnlessRaced
    /\ SharedSeen /\ LeftSeen /\ ListedWhilePresent
    /\ KeygenOfFd /\ RowsFresh

\* The invariant with its history holds always.
LEMMA HistoryInv == HSpec => []HInv
<1>1. HInit => HInv
  <2> SUFFICES ASSUME HInit PROVE HInv
    OBVIOUS
  <2>1. IInv
    BY InitIInv DEF HInit
  <2>2. Adding = {} /\ Present = {} /\ Registered = {} /\ acked = {} /\ \A f \in Fd : pc[f] = "closed"
    BY DEF HInit, Init, Adding, Present, Registered
  <2>3. TwoAdding = {} /\ TwoPresent = {} /\ Leaving = {}
    BY <2>2 DEF TwoAdding, TwoPresent, Leaving
  <2> QED
    BY <2>1, <2>2, <2>3 DEF HInv, RaceSeen, RegistUnlessRaced, SharedSeen, LeftSeen, FdIsHeld,
                            ListedWhilePresent, KeygenOfFd, RowsFresh
<1>2. HInv /\ [HNext]_hvars => HInv'
  <2> SUFFICES ASSUME HInv, [HNext]_hvars PROVE HInv'
    OBVIOUS
  <2>1. [Next]_vars /\ TypeOK
    BY DEF HNext, hvars, HInv, IInv
  <2>2. IInv' /\ (restarts' = 0 => FdIsHeld')
    BY <2>1, NextIInv, RestartsGrow, HeldStep DEF HInv
  <2>3. RaceSeen' /\ RegistUnlessRaced'
    BY RaceStep DEF HInv
  <2>4. SharedSeen' /\ LeftSeen' /\ ListedWhilePresent'
    BY ListedStep DEF HInv
  <2>5. KeygenOfFd' /\ RowsFresh'
    BY KeygenStep, RowsStep DEF HInv
  <2> QED
    BY <2>2, <2>3, <2>4, <2>5 DEF HInv
<1> QED
  BY <1>1, <1>2, PTL DEF HSpec

\* What a client is told it registered is in the table, with its password, for good,
\* unless another connection was adding the same name: the only gap is the one
\* between db_user_if_reg and db_add_user.
THEOREM RegistHolds == HSpec => []RegistUnlessRaced
<1>1. HInv => RegistUnlessRaced
  BY DEF HInv
<1> QED
  BY <1>1, HistoryInv, PTL

\* As long as the server is not restarted, a descriptor in the table is that of an
\* open connection, signed on last as the user whose row it is in: rows are cleared
\* before descriptors are closed, and no other thread writes this one's.  The one
\* exception is a user whose connection has tried another name since.
THEOREM FdAlwaysLive == HSpec => []FdLiveUnlessLeft
<1>1. HInv => FdLiveUnlessLeft
  BY DEF HInv, FdIsHeld, FdLiveUnlessLeft, Open
<1> QED
  BY <1>1, HistoryInv, PTL

\* Who is signed on stays listed under its own descriptor, unless two connections
\* had the name at once or its own took another: func signs off whatever name it was
\* last given.
THEOREM ListedHolds == HSpec => []ListedUnlessShared
<1>1. HInv => ListedUnlessShared
  BY DEF HInv, ListedWhilePresent, ListedUnlessShared, Present
<1> QED
  BY <1>1, HistoryInv, PTL

\* A message reaches the user its row was read for, under the key of that user's
\* connection, except in the four cases named.
THEOREM SentHolds == HSpec => SentUnlessMoved
<1>1. HInv /\ [HNext]_hvars =>
        [\A f \in Fd : \A r \in rows[f] \ rows'[f] :
            (/\ pc[f] = "send" /\ r.fd # OFF /\ Open(r.fd)
             /\ r.fd \notin moved[f] /\ r.to \notin shared \cup left /\ restarts = 0)
                => logged[r.fd] = r.to /\ conn[r.fd] = r.keygen]_vars
  BY DEF HInv, RowsFresh
<1> QED
  BY <1>1, HistoryInv, PTL DEF HSpec, SentUnlessMoved

-----------------------------------------------------------------------------
(* The key streams: db_mutex keeps the static keygen and offset to one     *)
(* thread at a time, and only a born_sync or born_keygen that falls into a *)
(* request_key can give a wrong key.                                       *)

\* A thread between Lock and Unlock.
Inside(t) == kpc[t] \in {"set", "seed", "skip", "draw", "unlock"}

\* Only the holder of db_mutex is there.
MutexHeld == \A t \in Thread : Inside(t) => mutex = t

\* What a thread whose request_key nobody disturbed has drawn so far, and where
\* the generator is for it.
KeySoFar ==
    \A t \in Thread :
        /\ kpc[t] \in {"sync", "rand", "lock", "set", "seed", "skip"} => key[t] = <<>>
        /\ (kpc[t] \in {"skip", "draw"} /\ t \notin hit) => seed = <<sync[t], want[t]>>
        /\ (kpc[t] = "skip" /\ t \notin hit) => drawn = 0
        /\ kpc[t] = "draw" => Len(key[t]) <= KeyLen
        /\ (kpc[t] = "draw" /\ t \notin hit) =>
              /\ drawn = Len(key[t])
              /\ \A i \in 1 .. Len(key[t]) : key[t][i] = <<<<sync[t], want[t]>>, i - 1>>

KeyInv == KeyTypeOK /\ MutexHeld /\ KeygenIsOwn /\ KeySoFar /\ OnlyBornSpoils

-----------------------------------------------------------------------------
\* The threads start idle, with nothing drawn.
LEMMA InitKeyInv == KeyInit => KeyInv
<1> SUFFICES ASSUME KeyInit PROVE KeyInv
  OBVIOUS
<1> USE KeyConstants DEF KeyInit
<1>1. KeyTypeOK
  BY DEF KeyTypeOK, Keygen, Seed
<1>2. MutexHeld /\ KeygenIsOwn /\ KeySoFar /\ OnlyBornSpoils
  BY DEF MutexHeld, Inside, KeygenIsOwn, KeySoFar, OnlyBornSpoils
<1> QED
  BY <1>1, <1>2 DEF KeyInv

\* Every step keeps the types.
LEMMA NextKeyTypeOK ==
    ASSUME KeyTypeOK, NEW t \in Thread, Begin(t) \/ KeyStep(t)
    PROVE  KeyTypeOK'
<1> USE KeyConstants DEF KeyTypeOK, gen, KeyGoto
<1>0. CASE Begin(t)
  <2>1. key' \in [Thread -> Seq(Seed \X Nat)] /\ UNCHANGED <<keygen, offset, seed, drawn, mutex, hit>>
    BY <1>0 DEF Begin
  <2>2. PICK o \in {"send", "rcv", "hello"}, l \in {"sync", "lock"} :
            op' = [op EXCEPT ![t] = o] /\ kpc' = [kpc EXCEPT ![t] = l]
    BY <1>0 DEF Begin
  <2>3. \E u \in Keygen : want' = [want EXCEPT ![t] = u]
    BY <1>0 DEF Begin, Keygen
  <2>4. sync' \in [Thread -> Sync]
    BY <1>0, ZenonT(60) DEF Begin
  <2>5. /\ op' \in [Thread -> {"send", "rcv", "hello"}]
        /\ kpc' \in [Thread -> {"idle", "sync", "rand", "lock", "set", "seed", "skip", "draw",
                               "unlock", "born", "bornrand"}]
    BY <2>2
  <2>6. want' \in [Thread -> Keygen]
    BY <2>3
  <2> QED
    BY <2>1, <2>4, <2>5, <2>6
<1>1. CASE BornSeed(t)
  <2>1. seed' \in Seed /\ drawn' \in Nat /\ hit' \subseteq Thread
    BY <1>1 DEF BornSeed, Drawing, Seed
  <2>2. kpc' \in [Thread -> {"idle", "sync", "rand", "lock", "set", "seed", "skip", "draw",
                             "unlock", "born", "bornrand"}]
    <3>1. \E l \in {"rand", "bornrand"} : kpc' = [kpc EXCEPT ![t] = l]
      BY <1>1 DEF BornSeed
    <3> QED
      BY <3>1
  <2>3. /\ keygen' = keygen /\ offset' = offset /\ mutex' = mutex
        /\ op' = op /\ want' = want /\ sync' = sync /\ key' = key
    BY <1>1 DEF BornSeed
  <2> QED
    BY <2>1, <2>2, <2>3, ZenonT(60)
<1>2. CASE BornRand(t)
  <2>1. sync' \in [Thread -> Sync]
    <3>1. sync' = sync \/ \E s \in Sync : sync' = [sync EXCEPT ![t] = s]
      BY <1>2 DEF BornRand
    <3> QED
      BY <3>1
  <2>2. \E l \in {"lock", "idle"} : kpc' = [kpc EXCEPT ![t] = l]
    BY <1>2 DEF BornRand
  <2> QED
    BY <1>2, <2>1, <2>2 DEF BornRand, Drawing
<1>3. CASE Lock(t)
  BY <1>3 DEF Lock
<1>4. CASE SetKeygen(t)
  BY <1>4 DEF SetKeygen
<1>5. CASE RequestSeed(t)
  BY <1>5 DEF RequestSeed, Seed
<1>6. CASE RequestSkip(t)
  BY <1>6 DEF RequestSkip
<1>7. CASE RequestDraw(t)
  BY <1>7 DEF RequestDraw
<1>8. CASE RequestEnd(t)
  BY <1>8 DEF RequestEnd
<1>9. CASE Unlock(t)
  BY <1>9 DEF Unlock
<1> QED
  BY <1>0, <1>1, <1>2, <1>3, <1>4, <1>5, <1>6, <1>7, <1>8, <1>9 DEF KeyStep

\* One step per action.  What a thread inside the mutex relies on is changed by that
\* thread alone, the generator aside, and whoever disturbs that leaves a mark in hit.
LEMMA NextKeyInv == KeyInv /\ [KeyNext]_keyvars => KeyInv'
<1> SUFFICES ASSUME KeyInv, [KeyNext]_keyvars PROVE KeyInv'
  OBVIOUS
<1>0. KeyTypeOK /\ MutexHeld /\ KeygenIsOwn /\ KeySoFar /\ OnlyBornSpoils
  BY DEF KeyInv
<1>1. CASE UNCHANGED keyvars
  BY <1>0, <1>1 DEF keyvars, gen, KeyInv, KeyTypeOK, MutexHeld, Inside, KeygenIsOwn, KeySoFar,
                    OnlyBornSpoils, RightKey
<1>2. ASSUME NEW t \in Thread, Begin(t) \/ KeyStep(t) PROVE KeyInv'
  <2>0. KeyTypeOK'
    BY <1>0, <1>2, NextKeyTypeOK
  <2>1. \A u \in Thread : u # t => /\ kpc'[u] = kpc[u] /\ want'[u] = want[u]
                                   /\ sync'[u] = sync[u] /\ key'[u] = key[u]
    BY <1>0, <1>2 DEF KeyTypeOK, KeyGoto, KeyStep, Begin, BornSeed, BornRand, Lock,
          SetKeygen, RequestSeed, RequestSkip, RequestDraw, RequestEnd, Unlock
  <2> SUFFICES MutexHeld' /\ KeygenIsOwn' /\ KeySoFar' /\ OnlyBornSpoils'
    BY <2>0 DEF KeyInv
  <2>2. CASE Begin(t)
    <3>1. /\ kpc'[t] \in {"sync", "lock"} /\ kpc[t] = "idle" /\ key'[t] = <<>>
          /\ UNCHANGED <<keygen, offset, seed, drawn, mutex, hit>>
      BY <1>0, <2>2 DEF Begin, KeyGoto, KeyTypeOK, gen
    <3>2. MutexHeld' /\ KeygenIsOwn'
      <4>1. ~Inside(t)' /\ kpc'[t] \notin {"seed", "skip", "draw"}
        BY <3>1 DEF Inside
      <4>2. MutexHeld'
        BY <1>0, <2>1, <3>1, <4>1 DEF MutexHeld, Inside
      <4>3. KeygenIsOwn'
        BY <1>0, <2>1, <3>1, <4>1 DEF KeygenIsOwn
      <4> QED
        BY <4>2, <4>3
    <3>3. KeySoFar'
      <4>1. kpc'[t] \notin {"skip", "draw"} /\ key'[t] = <<>>
        BY <3>1
      <4>2. \A u \in Thread : u # t => /\ kpc'[u] = kpc[u] /\ want'[u] = want[u]
                                       /\ sync'[u] = sync[u] /\ key'[u] = key[u]
                                       /\ (u \in hit' <=> u \in hit)
        BY <2>1, <3>1
      <4>3. seed' = seed /\ drawn' = drawn
        BY <3>1
      <4> QED
        BY <1>0, <4>1, <4>2, <4>3 DEF KeySoFar
    <3>4. OnlyBornSpoils'
      BY <1>0, <2>1, <3>1 DEF OnlyBornSpoils, RightKey
    <3> QED
      BY <3>2, <3>3, <3>4
  <2>3. CASE BornSeed(t) \/ BornRand(t)
    <3>1. /\ kpc'[t] \in {"rand", "bornrand", "lock", "idle"}
          /\ kpc[t] \in {"sync", "born", "rand", "bornrand"}
          /\ kpc'[t] \in {"rand", "lock"} => kpc[t] \in {"sync", "rand"}
          /\ hit' = hit \cup Drawing
          /\ UNCHANGED <<keygen, offset, mutex, want, key>>
      BY <1>0, <2>3 DEF BornSeed, BornRand, KeyGoto, KeyTypeOK
    <3>2. MutexHeld' /\ KeygenIsOwn'
      BY <1>0, <2>1, <3>1 DEF Drawing, MutexHeld, Inside, KeygenIsOwn
    <3>3. KeySoFar'
      BY <1>0, <2>1, <3>1 DEF Drawing, KeySoFar
    <3>4. OnlyBornSpoils'
      BY <1>0, <2>1, <3>1 DEF Drawing, OnlyBornSpoils, RightKey
    <3> QED
      BY <3>2, <3>3, <3>4
  <2>4. CASE Lock(t)
    <3>1. /\ kpc'[t] = "set" /\ kpc[t] = "lock" /\ mutex = NOBODY /\ mutex' = t
          /\ UNCHANGED <<keygen, offset, seed, drawn, want, sync, key, hit>>
      BY <1>0, <2>4 DEF Lock, KeyGoto, KeyTypeOK, gen
    <3> QED
      BY <1>0, <2>1, <3>1, KeyConstants DEF MutexHeld, Inside, KeygenIsOwn, KeySoFar,
          OnlyBornSpoils, RightKey
  <2>5. CASE SetKeygen(t)
    <3>1. /\ kpc'[t] = "seed" /\ kpc[t] = "set" /\ keygen' = want[t] /\ offset' = 0
          /\ UNCHANGED <<seed, drawn, mutex, want, sync, key, hit>>
      BY <1>0, <2>5 DEF SetKeygen, KeyGoto, KeyTypeOK, gen
    <3> QED
      BY <1>0, <2>1, <3>1 DEF MutexHeld, Inside, KeygenIsOwn, KeySoFar,
          OnlyBornSpoils, RightKey
  <2>6. CASE RequestSeed(t)
    <3>1. /\ kpc'[t] = "skip" /\ kpc[t] = "seed" /\ seed' = <<sync[t], keygen>> /\ drawn' = 0
          /\ hit' = hit \ {t}
          /\ UNCHANGED <<keygen, offset, mutex, want, sync, key>>
      BY <1>0, <2>6 DEF RequestSeed, KeyGoto, KeyTypeOK
    <3> QED
      BY <1>0, <2>1, <3>1 DEF MutexHeld, Inside, KeygenIsOwn, KeySoFar,
          OnlyBornSpoils, RightKey
  <2>7. CASE RequestSkip(t)
    <3>1. /\ kpc'[t] = "draw" /\ kpc[t] = "skip" /\ drawn' = drawn + offset
          /\ UNCHANGED <<keygen, offset, seed, mutex, want, sync, key, hit>>
      BY <1>0, <2>7 DEF RequestSkip, KeyGoto, KeyTypeOK
    <3>2. key[t] = <<>> /\ offset = 0 /\ Len(key[t]) = 0
      BY <1>0, <3>1 DEF KeySoFar, KeygenIsOwn
    <3> QED
      BY <1>0, <2>1, <3>1, <3>2, KeyConstants DEF MutexHeld, Inside, KeygenIsOwn, KeySoFar,
          OnlyBornSpoils, RightKey, KeyTypeOK
  <2>8. CASE RequestDraw(t)
    <3>1. /\ kpc' = kpc /\ kpc[t] = "draw" /\ drawn' = drawn + 1 /\ Len(key[t]) < KeyLen
          /\ key'[t] = Append(key[t], <<seed, drawn>>)
          /\ UNCHANGED <<keygen, offset, seed, mutex, want, sync, hit>>
      BY <1>0, <2>8 DEF RequestDraw, KeyTypeOK
    <3>2. /\ Len(key[t]) \in Nat /\ Len(key'[t]) = Len(key[t]) + 1
          /\ key'[t][Len(key[t]) + 1] = <<seed, drawn>>
          /\ \A i \in 1 .. Len(key[t]) : key'[t][i] = key[t][i]
      BY <1>0, <3>1 DEF KeyTypeOK
    <3>3. MutexHeld' /\ KeygenIsOwn' /\ OnlyBornSpoils'
      BY <1>0, <2>1, <3>1 DEF MutexHeld, Inside, KeygenIsOwn, KeySoFar,
          OnlyBornSpoils, RightKey
    <3>4. KeySoFar'
      <4>1. \A u \in Thread : u # t => kpc[u] \notin {"skip", "draw"}
        BY <1>0, <3>1 DEF MutexHeld, Inside
      <4>2. Len(key'[t]) <= KeyLen
        BY <3>1, <3>2, KeyConstants
      <4>3. ASSUME t \notin hit, NEW i \in 1 .. Len(key'[t])
            PROVE  key'[t][i] = <<<<sync[t], want[t]>>, i - 1>>
        <5>1. CASE i \in 1 .. Len(key[t])
          BY <1>0, <3>1, <3>2, <4>3, <5>1 DEF KeySoFar
        <5>2. CASE i = Len(key[t]) + 1
          <6>1. seed = <<sync[t], want[t]>> /\ drawn = i - 1
            BY <1>0, <3>1, <3>2, <4>3, <5>2 DEF KeySoFar
          <6> QED
            BY <3>2, <5>2, <6>1
        <5> QED
          BY <3>2, <5>1, <5>2
      <4>4. t \notin hit => drawn' = Len(key'[t])
        BY <1>0, <3>1, <3>2 DEF KeySoFar
      <4>5. t \notin hit => seed = <<sync[t], want[t]>>
        BY <1>0, <3>1 DEF KeySoFar
      <4>6. \A u \in Thread : u # t =>
                (kpc[u] \in {"sync", "rand", "lock", "set", "seed", "skip"} => key[u] = <<>>)
        BY <1>0 DEF KeySoFar
      <4> QED
        BY <2>1, <3>1, <4>1, <4>2, <4>3, <4>4, <4>5, <4>6 DEF KeySoFar
    <3> QED
      BY <3>3, <3>4
  <2>9. CASE RequestEnd(t)
    <3>1. /\ kpc'[t] = "unlock" /\ kpc[t] = "draw" /\ Len(key[t]) = KeyLen
          /\ UNCHANGED <<keygen, seed, drawn, mutex, want, sync, key, hit>>
      BY <1>0, <2>9 DEF RequestEnd, KeyGoto, KeyTypeOK, gen
    <3>2. t \notin hit => key[t] = RightKey(t)
      <4>1. key[t] = [i \in 1 .. KeyLen |-> key[t][i]]
        BY <1>0, <3>1, LenProperties DEF KeyTypeOK
      <4> QED
        BY <1>0, <3>1, <4>1 DEF KeySoFar, RightKey
    <3>3. OnlyBornSpoils'
      <4>1. \A u \in Thread : RightKey(u)' = RightKey(u)
        BY <3>1 DEF RightKey
      <4> QED
        BY <1>0, <2>1, <3>1, <3>2, <4>1 DEF OnlyBornSpoils
    <3>4. MutexHeld' /\ KeygenIsOwn'
      BY <1>0, <2>1, <3>1 DEF MutexHeld, Inside, KeygenIsOwn
    <3>5. KeySoFar'
      BY <1>0, <2>1, <3>1 DEF KeySoFar
    <3> QED
      BY <3>3, <3>4, <3>5
  <2>10. CASE Unlock(t)
    <3>1. /\ kpc'[t] \in {"born", "idle"} /\ kpc[t] = "unlock" /\ mutex' = NOBODY
          /\ UNCHANGED <<keygen, offset, seed, drawn, want, sync, key, hit>>
      BY <1>0, <2>10 DEF Unlock, KeyGoto, KeyTypeOK, gen
    <3> QED
      BY <1>0, <2>1, <3>1 DEF MutexHeld, Inside, KeygenIsOwn, KeySoFar,
          OnlyBornSpoils, RightKey
  <2> QED
    BY <1>2, <2>0, <2>2, <2>3, <2>4, <2>5, <2>6, <2>7, <2>8, <2>9, <2>10 DEF KeyStep
<1> QED
  BY <1>1, <1>2 DEF KeyNext

\* While a thread is in request_key the static keygen and offset are its own: the
\* mutex that enc_send_srv, enc_rcv_srv and keygen_send take is enough for those.
THEOREM KeygenStaysOwn == KeySpec => []KeygenIsOwn
<1>1. KeyInv => KeygenIsOwn
  BY DEF KeyInv
<1> QED
  BY <1>1, InitKeyInv, NextKeyInv, PTL DEF KeySpec

\* A message's key is wrong only if a born_sync or born_keygen of another thread
\* fell into its request_key.
THEOREM OnlyBornEverSpoils == KeySpec => []OnlyBornSpoils
<1>1. KeyInv => OnlyBornSpoils
  BY DEF KeyInv
<1> QED
  BY <1>1, InitKeyInv, NextKeyInv, PTL DEF KeySpec
=============================================================================
