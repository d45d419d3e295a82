---------------------------- MODULE MCEcosConfig ----------------------------
(***************************************************************************)
(* EcosConfig for TLC.                                                     *)
(***************************************************************************)
EXTENDS EcosConfig

TheFuncs == {"root_config", "link_monitor"}
TheIntervals == {0, RootDelay}
TheCounts == {0, 1, COUNT_FOREVER}
TheNames == {"tank", "pond"}
TheIPs == {"10.0.0.1", "10.0.0.2"}

Write(m, v) == [req |-> "WRITE", mib |-> m, val |-> v]

\* Writes of the address and its type: what root_config acts on.
NetWrites ==
    {Write("inIPAddress", v) : v \in TheIPs} \cup {Write("ulIPType", v) : v \in IPType}

\* One request for each path through parser_mib_root and the parsers.
AllPaths ==
    {Write("ProductName", v) : v \in {"tank", "pond", "long", Huge}}
    \cup {Write("inIPAddress", v) : v \in {"10.0.0.2", "short", "invalid"}}
    \cup {[req |-> r, mib |-> "ProductName", val |-> NULL] :
            r \in {"FIELD_INFO", "READ", "REMOVE", "HIT", "PERMISSION"}}
    \cup {[req |-> "READ", mib |-> UnknownMib, val |-> NULL]}
=============================================================================
