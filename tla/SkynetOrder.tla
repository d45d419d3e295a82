---------------------------- MODULE SkynetOrder ----------------------------
(***************************************************************************)
(* The part of a sequence that is in a set.  SelectSeq says the same, but  *)
(* the proof system has no definition of it.                               *)
(***************************************************************************)
EXTENDS Naturals, Sequences

\* The elements of s that are in S, in their order.
Among(s, S) ==
    LET pick[i \in 0 .. Len(s)] ==
            IF i = 0 THEN <<>>
            ELSE IF s[i] \in S THEN Append(pick[i - 1], s[i])
            ELSE pick[i - 1]
    IN  pick[Len(s)]
=============================================================================
