---------------------------- MODULE MCEcosTimer -----------------------------
(***************************************************************************)
(* EcosTimer for TLC.                                                      *)
(***************************************************************************)
EXTENDS EcosTimer, TLC

OnceOrForever == {1, COUNT_FOREVER}

\* Addresses are interchangeable, and what a freed node holds is never read
\* (PassOnList and ListInOrder), so states that differ only in it are one.
AddrSymmetry == Permutations(Addr)

LiveView ==
    <<live, head, tail, uptime, pass, added,
      [a \in live |-> <<hnd[a], body[a], prev[a], next[a], ord[a]>>]>>
=============================================================================
