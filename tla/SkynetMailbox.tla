--------------------------- MODULE SkynetMailbox ----------------------------
(***************************************************************************)
(* What skynet promises its services: each has a mailbox that keeps every  *)
(* message in the order it was sent, and handles one message at a time.    *)
(* A service ends only between two messages; what is left in its mailbox   *)
(* is dropped, and nothing arrives any more.  SkynetServer implements it   *)
(* with worker threads and queues.                                         *)
(***************************************************************************)
EXTENDS Naturals, Sequences

CONSTANTS
    Handle,
    Mail,       \* the messages
    First       \* the services there are at the start

VARIABLES
    box,        \* service -> its messages, oldest first
    status,     \* service -> "none", "up" or "dead"
    busy        \* the services that handle a message

vars == <<box, status, busy>>

Init ==
    /\ box = [h \in Handle |-> <<>>]
    /\ status = [h \in Handle |-> IF h \in First THEN "up" ELSE "none"]
    /\ busy = {}

Launch(h) ==
    /\ status[h] = "none"
    /\ status' = [status EXCEPT ![h] = "up"]
    /\ UNCHANGED <<box, busy>>

Send(h, m) ==
    /\ status[h] = "up"
    /\ box' = [box EXCEPT ![h] = Append(@, m)]
    /\ UNCHANGED <<status, busy>>

Take(h) ==
    /\ status[h] = "up" /\ h \notin busy /\ box[h] # <<>>
    /\ box' = [box EXCEPT ![h] = Tail(@)]
    /\ busy' = busy \cup {h}
    /\ UNCHANGED status

Finish(h) ==
    /\ h \in busy
    /\ busy' = busy \ {h}
    /\ UNCHANGED <<box, status>>

End(h) ==
    /\ status[h] = "up" /\ h \notin busy
    /\ status' = [status EXCEPT ![h] = "dead"]
    /\ UNCHANGED <<box, busy>>

Drop(h) ==
    /\ status[h] = "dead" /\ box[h] # <<>>
    /\ box' = [box EXCEPT ![h] = Tail(@)]
    /\ UNCHANGED <<status, busy>>

Clear(h) ==
    /\ status[h] = "dead" /\ box[h] = <<>>
    /\ status' = [status EXCEPT ![h] = "none"]
    /\ UNCHANGED <<box, busy>>

Next ==
    \E h \in Handle :
        \/ Launch(h) \/ Take(h) \/ Finish(h) \/ End(h) \/ Drop(h) \/ Clear(h)
        \/ \E m \in Mail : Send(h, m)

Spec == Init /\ [][Next]_vars
=============================================================================
