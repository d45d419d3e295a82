------------------------------- MODULE MibMap -------------------------------
(***************************************************************************)
(* What the MIB registry promises: a map from MIBs to their descriptions,  *)
(* and the list of all MIBs that were ever registered, each once, in the   *)
(* order of their first registration.  EcosRegistry implements it with a   *)
(* chained hash table.                                                     *)
(***************************************************************************)
EXTENDS Naturals, Sequences, Functions, SequencesExt

CONSTANTS Mib, Desc

VARIABLES
    open,       \* the registry has been initialised
    map,        \* registered MIB -> its description
    order       \* MIBs in the order of their first registration

vars == <<open, map, order>>

Init == ~open /\ map = [m \in {} |-> {}] /\ order = <<>>

Open ==
    /\ ~open
    /\ open' = TRUE
    /\ UNCHANGED <<map, order>>

Register(m, d) ==
    /\ open /\ m \notin DOMAIN map
    /\ map' = [n \in DOMAIN map \cup {m} |-> IF n = m THEN d ELSE map[n]]
    /\ order' = IF m \in ToSet(order) THEN order ELSE Append(order, m)
    /\ UNCHANGED open

Unregister(m) ==
    /\ m \in DOMAIN map
    /\ map' = Restrict(map, DOMAIN map \ {m})
    /\ UNCHANGED <<open, order>>

Close == open /\ open' = FALSE /\ map' = [m \in {} |-> {}] /\ order' = <<>>

Next ==
    \/ Open \/ Close
    \/ \E m \in Mib : Unregister(m) \/ \E d \in Desc : Register(m, d)

Spec == Init /\ [][Next]_vars
=============================================================================
