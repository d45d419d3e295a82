------------------------- MODULE ChatServerHistory --------------------------
(***************************************************************************)
(* ChatServer with history variables that record when two threads met      *)
(* where no lock keeps them apart, so that what the code does promise      *)
(* otherwise can be stated.                                                *)
(***************************************************************************)
EXTENDS ChatServer

VARIABLES
    raced,      \* names two connections were both about to add
    shared,     \* names two connections, neither of them signed off, had at once
    left,       \* names a connection was signed on as when it tried another
    moved       \* descriptor -> those closed since its thread's select

history == <<raced, shared, left, moved>>
hvars == <<vars, history>>

Adding == {f \in Fd : pc[f] = "add"}
TwoAdding == {u \in User : \E f, g \in Adding : f # g /\ req[f].name = u /\ req[g].name = u}

Present == {f \in Fd : pc[f] \notin {"close", "closed"}}
TwoPresent == {u \in User : \E f, g \in Present : f # g /\ name[f] = u /\ name[g] = u}

\* func's name follows the last login tried, the table the last that succeeded.
Leaving == {u \in User : \E f \in Present : logged[f] = u /\ name[f] # u}

HInit == Init /\ raced = {} /\ shared = {} /\ left = {} /\ moved = [f \in Fd |-> {}]

HNext ==
    /\ Next
    /\ raced' = raced \cup TwoAdding'
    /\ shared' = shared \cup TwoPresent'
    /\ left' = left \cup Leaving'
    /\ moved' = [f \in Fd |-> IF pc'[f] # "send" THEN {}
                              ELSE moved[f] \cup {g \in Fd : Open(g) /\ ~Open(g)'}]

HSpec == HInit /\ [][HNext]_hvars

-----------------------------------------------------------------------------
\* "user regist success!" (regist): what a client is told it registered is what the
\* table holds, unless another was registering that name between the test and the
\* insert; a name once in the table is never taken over.
RegistUnlessRaced ==
    \A r \in acked : r.name \notin raced => r.name \in Registered /\ db[r.name].passwd = r.data

\* "1: online" (db_user_if_online): as long as the server has not been restarted, a
\* user the table has on a descriptor has an open connection there, whose thread
\* signed that user on last, unless the connection tried another name: a connection
\* that closes signs off one name only.
FdLiveUnlessLeft ==
    restarts = 0 =>
        \A u \in Registered :
            (db[u].fd # OFF /\ u \notin left) => Open(db[u].fd) /\ logged[db[u].fd] = u

\* "-1: not online" (db_user_if_online): a user who is logged in is not taken for one
\* who is not, unless a second connection tried that name meanwhile, in which case
\* its disconnect signs the first one off, or this connection tried another name.  A
\* restart cannot bring it about.
ListedUnlessShared ==
    \A f \in Fd :
        (pc[f] = "read" /\ logged[f] # NULL /\ logged[f] \notin shared \cup left)
            => db[logged[f]].fd = f

\* "the keygen of the user who receives the message" (db_broadcast, db_private): a
\* message written to an open connection is written to its user, under that
\* connection's keygen, unless the descriptor was closed between the select and the
\* write, two connections had the user's name at once, the user's connection tried
\* another name, or the table is of an earlier run.
SentUnlessMoved ==
    [][\A f \in Fd : \A r \in rows[f] \ rows'[f] :
            (/\ pc[f] = "send" /\ r.fd # OFF /\ Open(r.fd)
             /\ r.fd \notin moved[f] /\ r.to \notin shared \cup left /\ restarts = 0)
                => logged[r.fd] = r.to /\ conn[r.fd] = r.keygen]_vars
=============================================================================
