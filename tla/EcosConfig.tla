----------------------------- MODULE EcosConfig -----------------------------
(***************************************************************************)
(* The configuration server of 041_ecos_mib and its clients.  A client     *)
(* (lib/common/ecos_mib_comm.c, ConfigExchange) sends one MIB request over *)
(* UDP and blocks for the response.  The server (apps/ecos) is one thread: *)
(* each turn of oem_main_loop answers at most one request, then makes one  *)
(* pass over the timers of TimerService.  A write changes g_ConfigSet and  *)
(* re-arms the root timer; root_config, run by that timer two seconds      *)
(* after the last write, compares g_ConfigSet with its backup and sets the *)
(* address of the interface.                                               *)
(*                                                                         *)
(* Left out: the link monitor's print (its timer is kept), the formats of  *)
(* names and addresses (a request that fails a length or format test is    *)
(* one of the values of Malformed), and exec_memcmp's byte layout.  A name *)
(* is written whole, with its terminating NUL.                             *)
(***************************************************************************)
EXTENDS TimerService, Sequences

CONSTANTS
    Client,         \* client processes
    Request,        \* requests clients make, a subset of RequestType
    Name, IP,       \* product names; addresses that pass IsValidIP
    FileName,       \* the product name loaded from the configuration file
    DefaultIP,      \* "192.168.70.185"
    RcvBuf,         \* requests the server's socket can hold
    MaxRequest,     \* bound: requests sent
    MaxRestart      \* bound: restarts of the server

Mib == {"ProductName", "ulIPType", "inIPAddress"}
UnknownMib == "unregistered"
Huge == "huge"                  \* more than 64k and at most MAX_EXCHANGE_SIZE bytes
IPType == {"static", "dhcp"}

\* The values each parser takes, and what its length and format tests refuse.
Value == [ProductName |-> Name, ulIPType |-> IPType, inIPAddress |-> IP]
Malformed == [ProductName |-> {"long"},
              ulIPType    |-> {"short", "long"},
              inIPAddress |-> {"short", "long", "invalid"}]

RequestType ==
    [req : {"FIELD_INFO", "READ", "WRITE", "REMOVE", "HIT", "PERMISSION"},
     mib : Mib \cup {UnknownMib},
     val : Name \cup IP \cup IPType \cup UNION {Malformed[m] : m \in Mib} \cup {Huge, NULL}]

ASSUME EcosConstants ==
    /\ {"root_config", "link_monitor"} \subseteq Func
    /\ MAX_TIMER_NUM >= 2
    /\ Request \subseteq RequestType /\ NULL \notin Request
    /\ \A q \in Request : (q.req = "WRITE" /\ q.mib \in Mib) =>
            q.val \in Value[q.mib] \cup Malformed[q.mib] \cup {Huge}
    /\ FileName \in Name /\ DefaultIP \in IP
    /\ RcvBuf \in Nat /\ MaxRequest \in Nat /\ MaxRestart \in Nat

Root == HANDLE_BEGIN            \* s_timer_root_config
Link == HANDLE_BEGIN + 1        \* s_link_integrity_timer
RootDelay == 2                  \* seconds, ecos_mib_root_exec

VARIABLES
    cfg, backup,        \* g_ConfigSet and g_ConfigSetBackup
    dev, setOK,         \* the interface's address; did the last attempt to set it succeed
    turn,               \* the server: "boot", "select" or "timers" of oem_main_loop
    inbox,              \* datagrams in the server's socket
    cli,                \* client -> the request it is blocked on, or NULL
    reply,              \* client -> the response in its socket, or NULL
    lastWrite,          \* history: when a write was last accepted
    sent, restarts      \* what the bounds count

server == <<cfg, backup, dev, setOK, lastWrite>>
net == <<inbox, cli, reply, sent>>
evars == <<vars, server, turn, net, restarts>>

ConfigSet == [ProductName : Name, ulIPType : IPType, inIPAddress : IP]

Result == {"OK", "MIB_UNKNOWN", "REQUEST_DENY", "REQUEST_NOT_HANDLE",
           "DATA_TOO_SHORT", "DATA_TOO_LONG", "DATA_INVALID"}
Response == [mib : Mib \cup {UnknownMib}, result : Result,
             data : Name \cup IPType \cup IP \cup {NULL}]

ETypeOK ==
    /\ TypeOK
    /\ cfg \in ConfigSet /\ backup \in ConfigSet
    /\ dev \in IP \cup {NULL} /\ setOK \in BOOLEAN
    /\ turn \in {"boot", "select", "timers"}
    /\ inbox \in Seq([cli : Client, q : Request])
    /\ cli \in [Client -> Request \cup {NULL}]
    /\ reply \in [Client -> Response \cup {NULL}]
    /\ lastWrite \in Nat /\ sent \in 0 .. MaxRequest /\ restarts \in 0 .. MaxRestart

-----------------------------------------------------------------------------
\* parser_mib_root and the three parsers: the result of request q on g, the data
\* of the response, the configuration it leaves, and whether it calls
\* ecos_mib_root_exec.
Answer(result, data, g, exec) ==
    [result |-> result, data |-> data, cfg |-> g, exec |-> exec]

LengthError == [short |-> "DATA_TOO_SHORT", long |-> "DATA_TOO_LONG", invalid |-> "DATA_INVALID"]

ParserWrite(q, g) ==
    IF q.val \in Malformed[q.mib] THEN Answer(LengthError[q.val], NULL, g, FALSE)
    ELSE IF q.val # g[q.mib] THEN Answer("OK", NULL, [g EXCEPT ![q.mib] = q.val], TRUE)
    ELSE Answer(IF q.mib = "ProductName" THEN "OK" ELSE "REQUEST_NOT_HANDLE", NULL, g, FALSE)

parser_mib_root(q, g) ==
    CASE q.mib \notin Mib -> Answer("MIB_UNKNOWN", NULL, g, FALSE)
      [] q.mib \in Mib /\ q.req = "HIT" -> Answer("REQUEST_DENY", NULL, g, FALSE)
      [] q.mib \in Mib /\ q.req = "FIELD_INFO" -> Answer("OK", NULL, g, FALSE)
      [] q.mib \in Mib /\ q.req = "READ" -> Answer("OK", g[q.mib], g, FALSE)
      [] q.mib \in Mib /\ q.req = "WRITE" -> ParserWrite(q, g)
      [] OTHER -> Answer("REQUEST_NOT_HANDLE", NULL, g, FALSE)

\* Mutant of NetExec: a change of ulIPType alone does not count as a change.
NetExecIPOnly(g, b, first) ==
    \/ /\ g.ulIPType = "static"
       /\ first \/ g.inIPAddress # b.inIPAddress
       /\ \/ dev' = g.inIPAddress /\ setOK' = TRUE
          \/ dev' = dev /\ setOK' = FALSE
    \/ /\ g.ulIPType # "static" \/ (~first /\ g.inIPAddress = b.inIPAddress)
       /\ UNCHANGED <<dev, setOK>>

\* ecos_mib_net_exec: under a static address, and when the address settings
\* changed or this is the first run, InterfaceIPSet tries up to five times.
NetExec(g, b, first) ==
    \/ /\ g.ulIPType = "static"
       /\ first \/ g.ulIPType # b.ulIPType \/ g.inIPAddress # b.inIPAddress
       /\ \/ dev' = g.inIPAddress /\ setOK' = TRUE
          \/ dev' = dev /\ setOK' = FALSE
    \/ /\ \/ g.ulIPType # "static"
          \/ ~first /\ g.ulIPType = b.ulIPType /\ g.inIPAddress = b.inIPAddress
       /\ UNCHANGED <<dev, setOK>>

\* Mutant of RootConfig: the backup is not brought up to date.
RootConfigNoBackup(g, b, first) == NetExec(g, b, first) /\ backup' = b

\* root_config: ecos_mib_system_exec only prints; then the backup is brought up
\* to date, whether or not the address could be set.
RootConfig(g, b, first) == NetExec(g, b, first) /\ backup' = g

-----------------------------------------------------------------------------
EInit ==
    /\ Init
    /\ cfg = [ProductName |-> FileName, ulIPType |-> "static", inIPAddress |-> DefaultIP]
    /\ backup = cfg
    /\ dev = NULL /\ setOK = TRUE
    /\ turn = "boot"
    /\ inbox = <<>>
    /\ cli = [c \in Client |-> NULL]
    /\ reply = [c \in Client |-> NULL]
    /\ lastWrite = 0 /\ sent = 0 /\ restarts = 0

\* oem_main_init: the root timer, the configuration of the file and the default
\* address (ulIPType, which nothing loads, is 0: static), the link timer, and the
\* first ecos_mib_root_exec, which runs root_config at once and arms the timer.
OemMainInit ==
    LET g == [ProductName |-> FileName, ulIPType |-> "static", inIPAddress |-> DefaultIP]
    IN  /\ turn = "boot"
        /\ cfg' = g
        /\ RootConfig(g, backup, TRUE)
        /\ timers' = [h \in {Root, Link} |->
                        IF h = Root
                        THEN [body |-> Armed("root_config", RootDelay, 1, uptime), ord |-> 1]
                        ELSE [body |-> Armed("link_monitor", 2, COUNT_FOREVER, uptime), ord |-> 2]]
        /\ added' = 2
        /\ lastWrite' = uptime
        /\ turn' = "select"
        /\ UNCHANGED <<uptime, s_current_uptime, cursor, pc, net, restarts>>

\* Mutants of RootExec: the timer is re-armed without a new start; or with no
\* interval, which ecos_timer_function_loop takes for a timer not to run.
RootExecKeepsStart(h) == timers' = WithBody(h, [timers[h].body EXCEPT !.count = 1])

RootExecNoInterval(h) ==
    timers' = WithBody(h, Rearmed(timers[h].body, "root_config", 0, 1, uptime))

\* ecos_mib_root_exec after the first time.
RootExec(h) ==
    timers' = WithBody(h, Rearmed(timers[h].body, "root_config", RootDelay, 1, uptime))

\* Mutant of Respond: only a request that succeeds is answered.
RespondIfOK(m, r) ==
    reply' = IF r.result = "OK"
             THEN [reply EXCEPT ![m.cli] = [mib |-> m.q.mib, result |-> r.result, data |-> r.data]]
             ELSE reply

Respond(m, r) ==
    reply' = [reply EXCEPT ![m.cli] = [mib |-> m.q.mib, result |-> r.result, data |-> r.data]]

\* One turn of the select loop: a request, if there is one, is parsed and
\* answered (ecos_mib_parser_fd_read, ECosMibCommServerExchange).
Exchange ==
    LET m == Head(inbox)
        r == parser_mib_root(m.q, cfg)
    IN  /\ turn = "select"
        /\ inbox # <<>>
        /\ inbox' = Tail(inbox)
        /\ cfg' = r.cfg
        /\ IF r.exec THEN RootExec(Root) /\ lastWrite' = uptime
                     ELSE UNCHANGED <<timers, lastWrite>>
        /\ Respond(m, r)
        /\ turn' = "timers"
        /\ UNCHANGED <<uptime, s_current_uptime, cursor, pc, added, backup, dev, setOK,
                       cli, sent, restarts>>

SelectTimeout ==
    /\ turn = "select"
    /\ inbox = <<>>
    /\ turn' = "timers"
    /\ UNCHANGED <<vars, server, net, restarts>>

\* ecos_timer_function_loop with the two callbacks of the server.
PassBegin ==
    /\ turn = "timers"
    /\ LoopBegin
    /\ UNCHANGED <<server, turn, net, restarts>>

PassCall ==
    /\ LoopCall
    /\ IF cursor = Root THEN RootConfig(cfg, backup, FALSE)
                        ELSE UNCHANGED <<backup, dev, setOK>>
    /\ UNCHANGED <<cfg, lastWrite, turn, net, restarts>>

PassNext == LoopNext /\ UNCHANGED <<server, turn, net, restarts>>

PassEnd ==
    /\ LoopEnd
    /\ turn' = "select"
    /\ UNCHANGED <<server, net, restarts>>

\* The server process ends and is started again.  What it held in memory and in
\* its socket is gone; the interface keeps its address.  Nothing was saved.
Restart ==
    /\ turn # "boot"
    /\ restarts < MaxRestart
    /\ uptime + RootDelay < MaxUptime
    /\ restarts' = restarts + 1
    /\ turn' = "boot"
    /\ timers' = [h \in {} |-> NULL]
    /\ cursor' = NULL /\ pc' = "idle" /\ added' = 0
    /\ inbox' = <<>>
    /\ UNCHANGED <<uptime, s_current_uptime, server, cli, reply, sent>>

-----------------------------------------------------------------------------
\* ConfigExchange: send, then recvfrom without a timeout.  A datagram that finds
\* no socket or a full one is gone, and the client is not told; a Huge one passes
\* the test against MAX_EXCHANGE_SIZE, cannot be sent over UDP, and the result of
\* sendto is not looked at.
\* Bounds: clients start after the server first did (a request sent earlier is
\* lost as one sent during a restart is), and send nothing in the last RootDelay
\* seconds of the clock.
ConfigSend(c, q) ==
    /\ turn # "boot" \/ restarts > 0
    /\ cli[c] = NULL
    /\ sent < MaxRequest
    /\ uptime + RootDelay < MaxUptime
    /\ cli' = [cli EXCEPT ![c] = q]
    /\ inbox' = IF turn # "boot" /\ Len(inbox) < RcvBuf /\ q.val # Huge
                THEN Append(inbox, [cli |-> c, q |-> q])
                ELSE inbox
    /\ sent' = sent + 1
    /\ UNCHANGED <<vars, server, turn, reply, restarts>>

\* Mutant of ConfigReturn: the client returns and leaves the response behind.
ConfigReturnLeavesReply(c) ==
    /\ cli[c] # NULL
    /\ reply[c] # NULL
    /\ cli' = [cli EXCEPT ![c] = NULL]
    /\ UNCHANGED <<vars, server, turn, inbox, reply, sent, restarts>>

ConfigReturn(c) ==
    /\ cli[c] # NULL
    /\ reply[c] # NULL
    /\ cli' = [cli EXCEPT ![c] = NULL]
    /\ reply' = [reply EXCEPT ![c] = NULL]
    /\ UNCHANGED <<vars, server, turn, inbox, sent, restarts>>

\* Bound: the clock enters its last RootDelay seconds only when the server has
\* started and answered what it was sent, so that the last write can be applied.
ClockTick ==
    /\ Tick
    /\ uptime + 1 + RootDelay > MaxUptime => turn # "boot" /\ inbox = <<>>
    /\ UNCHANGED <<server, turn, net, restarts>>

Server == OemMainInit \/ Exchange \/ SelectTimeout \/ PassBegin \/ PassCall \/ PassNext \/ PassEnd

ENext ==
    \/ ClockTick
    \/ Server
    \/ Restart
    \/ \E c \in Client : ConfigReturn(c) \/ \E q \in Request : ConfigSend(c, q)

\* The main loop runs forever and the clock with it; clients return from recvfrom
\* when there is a response.  Nothing makes a client send or the server restart.
ESpec ==
    /\ EInit /\ [][ENext]_evars
    /\ WF_evars(Server)
    /\ WF_evars(ClockTick)
    /\ \A c \in Client : WF_evars(ConfigReturn(c))

-----------------------------------------------------------------------------
RootPending == timers[Root].body.count # 0

\* When no run of root_config is pending, a static address of the configuration
\* is the interface's, unless the last attempt to set it failed: through writes
\* back and forth within the two seconds and changes of ulIPType, the comparison
\* with the backup never takes a change for already applied.
AppliedWhenQuiet ==
    (turn # "boot" /\ ~RootPending /\ setOK /\ cfg.ulIPType = "static")
        => dev = cfg.inIPAddress

\* A configuration that differs from its backup has a run of root_config coming.
ChangeIsPending == (turn # "boot" /\ cfg # backup) => RootPending

\* The timer never runs root_config less than RootDelay seconds after the write
\* that armed it, however many writes came before.
RootConfigDebounced ==
    [][(pc = "scan" /\ pc' = "callback" /\ cursor = Root)
            => s_current_uptime >= lastWrite + RootDelay]_evars

\* What clients configured reaches the interface in the end (writes stop, by the
\* bound), unless setting it failed.
ConfigSettles == <>[](cfg.ulIPType = "static" => dev = cfg.inIPAddress \/ ~setOK)

\* The response in a client's socket is for the request the client is blocked on,
\* although ConfigExchange compares nothing but the MIB: no response outlives its
\* request.
ReplyMatches ==
    \A c \in Client : reply[c] # NULL => cli[c] # NULL /\ reply[c].mib = cli[c].mib

\* Every client whose request could be sent gets a response.  Holds for a server
\* that is not restarted and whose socket has room for a request of each client.
EveryRequestAnswered ==
    \A c \in Client : (cli[c] # NULL /\ cli[c].val # Huge) ~> cli[c] = NULL
=============================================================================
