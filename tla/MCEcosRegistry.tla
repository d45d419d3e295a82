--------------------------- MODULE MCEcosRegistry ---------------------------
(***************************************************************************)
(* EcosRegistry for TLC: MIBs 1, 3 and 5 share a row; 1 and 5 have one     *)
(* description, and 5 is neither saved nor loaded.                         *)
(***************************************************************************)
EXTENDS EcosRegistry, TLC

TheDescs == 1 :> {"name"} @@ 3 :> {"ip"} @@ 5 :> {"name"}
TheTypes == 1 :> "string" @@ 3 :> "ip" @@ 5 :> "string"
TheDefault == 1 :> <<Char>> @@ 3 :> <<1, 0, 0, 0>> @@ 5 :> <<>>
TheData ==
    1 :> {<<Char>>, <<Char, Backslash>>, <<Char, Break, ValTag, Quote>>, <<Quote, Break, KeyTag, Quote>>}
    @@ 3 :> {<<1, 0, 0, 0>>, <<4, 3, 2, 1>>}
    @@ 5 :> {<<>>}

\* Texts without a quote.
QuotelessData ==
    1 :> {<<Char>>, <<KeyTag>>, <<Char, Break, Char>>}
    @@ 3 :> {<<1, 0, 0, 0>>}
    @@ 5 :> {<<>>}

\* Which address a registration has does not matter, a leaked one is never read,
\* and the last key line is read only in a load, which begins with one.
RegistryView ==
    <<up, [i \in DOMAIN rows |-> [k \in DOMAIN rows[i] |-> <<rows[i][k].key, reg[rows[i][k].arg]>>]],
      order, failed, Cardinality({a \in Addr : reg[a] # NULL}), config, file, todo, loading,
      IF loading THEN info ELSE NoInfo>>
=============================================================================
