---------------------------- MODULE MCChatServer ----------------------------
(***************************************************************************)
(* ChatServerHistory for TLC.                                              *)
(***************************************************************************)
EXTENDS ChatServerHistory, TLC

CONSTANTS alice, bob, p, q

Types(u, w) == [name |-> u, data |-> w]

\* The first connection may be two users; the second may be the first of them at the
\* same time, and register that name with another password; the third is on the
\* descriptor of one that has gone.
TheTyped ==
    1 :> {Types(alice, p), Types(bob, p)}
    @@ 2 :> {Types(alice, p), Types(alice, q)}
    @@ 3 :> {Types(bob, p)}

Anything == [c \in 1 .. MaxConn |-> Request]

\* A thread's locals when they are read again: states that differ only in
\* others, which are set before they are read, are one.
Kept(f) ==
    IF pc[f] = "closed" THEN <<>>
    ELSE <<pc[f], conn[f], name[f], logged[f], login_f[f],
           IF pc[f] \in {"add", "online", "keygen", "on"} THEN req[f] ELSE NULL,
           IF pc[f] = "send" THEN <<rows[f], moved[f] \cap {r.fd : r \in rows[f]}>> ELSE <<>>,
           IF pc[f] \in {"select", "send"} THEN after[f] ELSE NULL>>

ReadView == <<db, [f \in Fd |-> Kept(f)], acked, conns, restarts, raced, shared, left>>
=============================================================================
