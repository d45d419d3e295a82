-------------------------- MODULE EcosConfigProofs --------------------------
(***************************************************************************)
(* EcosConfig proved for any number of clients, requests, addresses and    *)
(* restarts and any length of run: a change of the configuration is never  *)
(* lost on its way to the interface, root_config never runs too early, and *)
(* a client is never answered what it did not ask.                         *)
(***************************************************************************)
EXTENDS EcosConfig, SequenceTheorems, TLAPS

\* The timers of oem_main_init are there from then on: the root timer, pending or
\* not, never suspended, and the link timer.  A pass stands on one of them, and
\* only in its part of the main loop.
TimersSet ==
    /\ turn # "boot" =>
        /\ timers \in [{Root, Link} -> [body : Body, ord : Nat]]
        /\ timers[Root].body.count \in {0, 1}
        /\ timers[Root].body.interval = RootDelay
    /\ turn = "boot" => timers = [h \in {} |-> NULL]
    /\ pc # "idle" => turn = "timers"
    /\ pc # "idle" => cursor \in {Root, Link, NULL}

\* A pending run counts from the last write.
PendingSince ==
    (turn # "boot" /\ RootPending) => timers[Root].body.last_time = lastWrite

\* A static address of the backup is the interface's, unless setting it failed: what
\* makes the comparison with the backup the right one.
BackupIsSet ==
    (turn # "boot" /\ backup.ulIPType = "static" /\ setOK) => dev = backup.inIPAddress

\* A request in the server's socket is the one its client is blocked on, the only
\* one of that client, and has not been answered.
InboxIsAwaited ==
    /\ \A i \in 1 .. Len(inbox) :
          /\ cli[inbox[i].cli] = inbox[i].q /\ reply[inbox[i].cli] = NULL
          /\ inbox[i].q.val # Huge
    /\ \A i, j \in 1 .. Len(inbox) : inbox[i].cli = inbox[j].cli => i = j

IInv ==
    /\ ETypeOK /\ TimersSet /\ PendingSince /\ BackupIsSet /\ ChangeIsPending
    /\ InboxIsAwaited /\ ReplyMatches

-----------------------------------------------------------------------------
\* The two timers of the server have handles of their own.
LEMMA Handles == /\ {Root, Link} \subseteq Handle /\ Root # Link
                 /\ Root \in Int /\ Link \in Int /\ NULL \notin {Root, Link}
  BY TimerConstants, EcosConstants DEF Root, Link, Handle

\* What oem_main_init starts with.
LEMMA DefaultConfig ==
    [ProductName |-> FileName, ulIPType |-> "static", inIPAddress |-> DefaultIP] \in ConfigSet
  BY EcosConstants DEF ConfigSet, IPType

\* A parser leaves a configuration, and one it changes it schedules root_config for.
LEMMA ParserKeeps ==
    ASSUME NEW q \in Request, q.val # Huge, NEW g \in ConfigSet
    PROVE  /\ parser_mib_root(q, g).cfg \in ConfigSet
           /\ parser_mib_root(q, g).exec \in BOOLEAN
           /\ ~parser_mib_root(q, g).exec => parser_mib_root(q, g).cfg = g
           /\ parser_mib_root(q, g).result \in Result
           /\ parser_mib_root(q, g).data \in Name \cup IPType \cup IP \cup {NULL}
<1> DEFINE Data == Name \cup IPType \cup IP \cup {NULL}
           Good(r) == /\ r.cfg \in ConfigSet /\ r.exec \in BOOLEAN
                      /\ ~r.exec => r.cfg = g
                      /\ r.result \in Result /\ r.data \in Data
<1>1. \A result \in Result, data \in Data : Good(Answer(result, data, g, FALSE))
  BY DEF Answer
<1>2. ASSUME q.mib \in Mib, q.req = "WRITE"
      PROVE  Good(ParserWrite(q, g))
  <2>1. CASE q.val \in Malformed[q.mib]
    <3>1. q.val \in {"short", "long", "invalid"}
      BY <1>2, <2>1 DEF Malformed, Mib
    <3>2. LengthError[q.val] \in Result
      BY <3>1 DEF LengthError, Result
    <3>3. ParserWrite(q, g) = Answer(LengthError[q.val], NULL, g, FALSE)
      BY <2>1 DEF ParserWrite
    <3> HIDE DEF Good
    <3> QED
      BY <1>1, <3>2, <3>3
  <2>2. CASE q.val \notin Malformed[q.mib] /\ q.val = g[q.mib]
    <3>1. \E result \in Result : ParserWrite(q, g) = Answer(result, NULL, g, FALSE)
      BY <2>2 DEF ParserWrite, Result
    <3> HIDE DEF Good
    <3> QED
      BY <1>1, <3>1
  <2>3. CASE q.val \notin Malformed[q.mib] /\ q.val # g[q.mib]
    <3>1. q.val \in Value[q.mib]
      BY <1>2, <2>3, EcosConstants
    <3>2. [g EXCEPT ![q.mib] = q.val] \in ConfigSet
      <4>1. CASE q.mib = "ProductName"
        BY <3>1, <4>1 DEF Value, ConfigSet
      <4>2. CASE q.mib = "ulIPType"
        BY <3>1, <4>2 DEF Value, ConfigSet
      <4>3. CASE q.mib = "inIPAddress"
        BY <3>1, <4>3 DEF Value, ConfigSet
      <4> QED
        BY <1>2, <4>1, <4>2, <4>3 DEF Mib
    <3>3. ParserWrite(q, g) = Answer("OK", NULL, [g EXCEPT ![q.mib] = q.val], TRUE)
      BY <2>3 DEF ParserWrite
    <3> QED
      BY <3>2, <3>3 DEF Answer, Result
  <2> QED
    BY <2>1, <2>2, <2>3
<1>3. CASE q.mib \in Mib /\ q.req = "WRITE"
  <2>1. parser_mib_root(q, g) = ParserWrite(q, g)
    BY <1>3 DEF parser_mib_root
  <2> HIDE DEF Good
  <2>2. Good(parser_mib_root(q, g))
    BY <1>2, <1>3, <2>1
  <2> QED
    BY <2>2 DEF Good
<1>4. CASE ~(q.mib \in Mib /\ q.req = "WRITE")
  <2>1. q.mib \in Mib => g[q.mib] \in Data
    BY DEF Mib, ConfigSet
  <2>2. \E result \in Result, data \in Data :
            parser_mib_root(q, g) = Answer(result, data, g, FALSE)
    <3>1. CASE q.mib \in Mib /\ q.req = "READ"
      <4>1. parser_mib_root(q, g) = Answer("OK", g[q.mib], g, FALSE)
        BY <3>1 DEF parser_mib_root
      <4> QED
        BY <2>1, <3>1, <4>1 DEF Result
    <3>2. CASE ~(q.mib \in Mib /\ q.req = "READ")
      <4>1. \E result \in Result : parser_mib_root(q, g) = Answer(result, NULL, g, FALSE)
        BY <1>4, <3>2 DEF parser_mib_root, Result
      <4> QED
        BY <4>1
    <3> QED
      BY <3>1, <3>2
  <2> HIDE DEF Good, Data
  <2>3. Good(parser_mib_root(q, g))
    BY <1>1, <2>2
  <2> QED
    BY <2>3 DEF Good, Data
<1> QED
  BY <1>3, <1>4

\* At the start the server has not booted and nobody has asked.
LEMMA InitIInv == EInit => IInv
<1> SUFFICES ASSUME EInit PROVE IInv
  OBVIOUS
<1> USE TimerConstants, EcosConstants DEF EInit, Init
<1>1. TypeOK
  <2>1. timers \in [{} -> [body : Body, ord : Nat]] /\ {} \in SUBSET Handle
    OBVIOUS
  <2> QED
    BY <2>1 DEF TypeOK
<1>2. ETypeOK
  BY <1>1, DefaultConfig DEF ETypeOK
<1>3. TimersSet /\ PendingSince /\ BackupIsSet /\ ChangeIsPending
  BY DEF TimersSet, PendingSince, BackupIsSet, ChangeIsPending
<1>4. InboxIsAwaited /\ ReplyMatches
  BY DEF InboxIsAwaited, ReplyMatches
<1> QED
  BY <1>2, <1>3, <1>4 DEF IInv

-----------------------------------------------------------------------------
\* The part of the invariant about the exchange with clients.
ClientPart == InboxIsAwaited /\ ReplyMatches

\* A write to the fields of one timer changes those alone.
LEMMA OneTimer ==
    ASSUME timers \in [{Root, Link} -> [body : Body, ord : Nat]],
           NEW h \in {Root, Link}, NEW b \in Body
    PROVE  /\ WithBody(h, b) \in [{Root, Link} -> [body : Body, ord : Nat]]
           /\ WithBody(h, b)[h].body = b
           /\ \A k \in {Root, Link} \ {h} : WithBody(h, b)[k] = timers[k]
  BY DEF WithBody

\* ecos_mib_net_exec leaves the interface with the address, or records the failure.
LEMMA RootConfigSets ==
    ASSUME NEW g \in ConfigSet, NEW b \in ConfigSet, NEW first \in BOOLEAN,
           dev \in IP \cup {NULL}, setOK \in BOOLEAN, RootConfig(g, b, first),
           ~first => (b.ulIPType = "static" /\ setOK => dev = b.inIPAddress)
    PROVE  /\ backup' = g /\ dev' \in IP \cup {NULL} /\ setOK' \in BOOLEAN
           /\ (g.ulIPType = "static" /\ setOK') => dev' = g.inIPAddress
<1>1. backup' = g /\ NetExec(g, b, first)
  BY DEF RootConfig
<1>2. CASE /\ g.ulIPType = "static"
           /\ \/ dev' = g.inIPAddress /\ setOK' = TRUE
              \/ dev' = dev /\ setOK' = FALSE
  BY <1>1, <1>2 DEF ConfigSet
<1>3. CASE /\ \/ g.ulIPType # "static"
              \/ ~first /\ g.ulIPType = b.ulIPType /\ g.inIPAddress = b.inIPAddress
           /\ dev' = dev /\ setOK' = setOK
  BY <1>1, <1>3
<1> QED
  BY <1>1, <1>2, <1>3 DEF NetExec

\* oem_main_init arms both timers and sets the address whatever it was.
LEMMA BootIInv ==
    ASSUME IInv, OemMainInit
    PROVE  IInv'
<1> DEFINE g == [ProductName |-> FileName, ulIPType |-> "static", inIPAddress |-> DefaultIP]
<1>0. ETypeOK /\ TimersSet /\ ClientPart /\ TypeOK
  BY DEF IInv, ClientPart, ETypeOK
<1>1. /\ cfg' = g /\ RootConfig(g, backup, TRUE) /\ lastWrite' = uptime /\ turn' = "select"
      /\ added' = 2 /\ turn = "boot"
      /\ UNCHANGED <<uptime, s_current_uptime, cursor, pc, inbox, cli, reply, sent, restarts>>
  BY DEF OemMainInit, net
<1>2. /\ timers' = [h \in {Root, Link} |->
                      IF h = Root
                      THEN [body |-> Armed("root_config", RootDelay, 1, uptime), ord |-> 1]
                      ELSE [body |-> Armed("link_monitor", 2, COUNT_FOREVER, uptime), ord |-> 2]]
  BY DEF OemMainInit
<1>3. g \in ConfigSet /\ backup \in ConfigSet
  BY <1>0, DefaultConfig DEF ETypeOK
<1>4. /\ backup' = g /\ dev' \in IP \cup {NULL} /\ setOK' \in BOOLEAN
      /\ setOK' => dev' = g.inIPAddress
  BY <1>0, <1>1, <1>3, RootConfigSets DEF ETypeOK
<1>5. /\ timers' \in [{Root, Link} -> [body : Body, ord : Nat]]
      /\ timers'[Root].body = Armed("root_config", RootDelay, 1, uptime)
  <2>1. uptime \in Nat
    BY <1>0 DEF TypeOK
  <2>2. /\ Armed("root_config", RootDelay, 1, uptime) \in Body
        /\ Armed("link_monitor", 2, COUNT_FOREVER, uptime) \in Body
    BY <2>1, EcosConstants DEF Armed, Body, RootDelay, COUNT_FOREVER
  <2> QED
    BY <1>2, <2>2
<1>6. TypeOK'
  <2>1. {Root, Link} \in SUBSET Handle
    BY Handles
  <2> QED
    BY <1>0, <1>1, <1>5, <2>1 DEF TypeOK
<1>7. ETypeOK'
  BY <1>0, <1>1, <1>3, <1>4, <1>6 DEF ETypeOK, TypeOK
<1>8. TimersSet'
  BY <1>0, <1>1, <1>5 DEF TimersSet, Armed
<1>9. PendingSince' /\ BackupIsSet' /\ ChangeIsPending'
  BY <1>1, <1>4, <1>5 DEF PendingSince, BackupIsSet, ChangeIsPending, Armed
<1>10. ClientPart'
  BY <1>0, <1>1 DEF ClientPart, InboxIsAwaited, ReplyMatches
<1> QED
  BY <1>7, <1>8, <1>9, <1>10 DEF IInv, ClientPart

\* A request changes the configuration only together with the root timer, and the
\* client it came from has exactly this answer.
LEMMA ExchangeIInv ==
    ASSUME IInv, Exchange
    PROVE  IInv'
<1> DEFINE m == Head(inbox)
           r == parser_mib_root(m.q, cfg)
<1>0. ETypeOK /\ TimersSet /\ PendingSince /\ BackupIsSet /\ ChangeIsPending /\ ClientPart /\ TypeOK
  BY DEF IInv, ClientPart, ETypeOK
<1>1. /\ turn = "select" /\ inbox # <<>> /\ inbox' = Tail(inbox) /\ cfg' = r.cfg
      /\ IF r.exec THEN RootExec(Root) /\ lastWrite' = uptime
                   ELSE UNCHANGED <<timers, lastWrite>>
      /\ reply' = [reply EXCEPT ![m.cli] = [mib |-> m.q.mib, result |-> r.result, data |-> r.data]]
      /\ turn' = "timers"
      /\ UNCHANGED <<uptime, s_current_uptime, cursor, pc, added, backup, dev, setOK,
                     cli, sent, restarts>>
  BY DEF Exchange, Respond
<1>2. /\ m = inbox[1] /\ 1 \in 1 .. Len(inbox) /\ m \in [cli : Client, q : Request]
      /\ Len(Tail(inbox)) = Len(inbox) - 1 /\ inbox' \in Seq([cli : Client, q : Request])
      /\ \A i \in 1 .. Len(Tail(inbox)) : Tail(inbox)[i] = inbox[i + 1]
  <2>1. inbox \in Seq([cli : Client, q : Request]) /\ inbox # <<>>
    BY <1>0, <1>1 DEF ETypeOK
  <2>2. Len(inbox) \in Nat /\ Len(inbox) # 0
    BY <2>1
  <2>3. /\ Len(Tail(inbox)) = Len(inbox) - 1 /\ Tail(inbox) \in Seq([cli : Client, q : Request])
        /\ \A i \in 1 .. Len(Tail(inbox)) : Tail(inbox)[i] = inbox[i + 1]
    BY <2>1, <2>2, HeadTailProperties
  <2>4. Head(inbox) = inbox[1] /\ inbox[1] \in [cli : Client, q : Request]
    <3>1. 1 \in 1 .. Len(inbox)
      BY <2>2
    <3>2. inbox[1] \in [cli : Client, q : Request]
      BY <2>1, <3>1, ElementOfSeq
    <3> QED
      BY <2>1, <3>2
  <2> QED
    BY <1>1, <2>2, <2>3, <2>4
<1>3. m.q \in Request /\ m.q.val # Huge /\ m.cli \in Client /\ cli[m.cli] = m.q
  BY <1>0, <1>2 DEF ClientPart, InboxIsAwaited
<1>4. /\ cfg \in ConfigSet /\ r.cfg \in ConfigSet /\ r.exec \in BOOLEAN
      /\ ~r.exec => r.cfg = cfg
      /\ r.result \in Result /\ r.data \in Name \cup IPType \cup IP \cup {NULL}
  BY <1>0, <1>3, ParserKeeps DEF ETypeOK
<1> HIDE DEF m, r
<1>5. /\ timers \in [{Root, Link} -> [body : Body, ord : Nat]]
      /\ timers[Root].body \in Body /\ uptime \in Nat
  BY <1>0, <1>1 DEF TimersSet, TypeOK
<1>6. /\ timers' \in [{Root, Link} -> [body : Body, ord : Nat]]
      /\ r.exec => timers'[Root].body = Rearmed(timers[Root].body, "root_config", RootDelay, 1, uptime)
      /\ ~r.exec => timers' = timers
  <2>1. CASE r.exec
    <3>1. Rearmed(timers[Root].body, "root_config", RootDelay, 1, uptime) \in Body
      BY <1>5, EcosConstants DEF Rearmed, Body, RootDelay, COUNT_FOREVER
    <3> QED
      BY <1>1, <1>5, <2>1, <3>1, OneTimer DEF RootExec
  <2>2. CASE ~r.exec
    BY <1>1, <1>5, <2>2
  <2> QED
    BY <2>1, <2>2
<1>7. r.exec => /\ timers'[Root].body.count = 1 /\ timers'[Root].body.interval = RootDelay
                /\ timers'[Root].body.last_time = uptime
  BY <1>5, <1>6, ZenonT(60) DEF Rearmed, Body
<1>8. TypeOK'
  <2>1. {Root, Link} \in SUBSET Handle
    BY Handles
  <2> QED
    BY <1>0, <1>1, <1>6, <2>1 DEF TypeOK
<1>9. ETypeOK'
  <2>1. reply[m.cli] = NULL
    BY <1>0, <1>2 DEF ClientPart, InboxIsAwaited
  <2>2. m.q.mib \in Mib \cup {UnknownMib}
    BY <1>3, EcosConstants DEF RequestType
  <2>3. lastWrite' \in Nat
    BY <1>0, <1>1, <1>5 DEF ETypeOK
  <2>4. [mib |-> m.q.mib, result |-> r.result, data |-> r.data] \in Response
    BY <1>4, <2>2 DEF Response
  <2>5. reply' \in [Client -> Response \cup {NULL}]
    BY <1>0, <1>1, <2>4 DEF ETypeOK
  <2>6. inbox' \in Seq([cli : Client, q : Request])
    BY <1>2
  <2>8. cfg' \in ConfigSet
    BY <1>1, <1>4
  <2>7. turn' \in {"boot", "select", "timers"}
    BY <1>1
  <2> QED
    BY <1>0, <1>1, <1>8, <2>3, <2>5, <2>6, <2>7, <2>8 DEF ETypeOK
<1>10. TimersSet'
  BY <1>0, <1>1, <1>6, <1>7 DEF TimersSet
<1>11. PendingSince' /\ BackupIsSet' /\ ChangeIsPending'
  <2>1. CASE r.exec
    BY <1>0, <1>1, <1>7, <2>1 DEF PendingSince, BackupIsSet, ChangeIsPending, RootPending
  <2>2. CASE ~r.exec
    <3>1. /\ UNCHANGED <<timers, lastWrite, cfg, backup, dev, setOK>>
          /\ turn # "boot"
      <4>1. cfg' = cfg
        BY <1>1, <1>4, <2>2
      <4> QED
        BY <1>1, <1>6, <2>2, <4>1
    <3> QED
      BY <1>0, <3>1 DEF PendingSince, BackupIsSet, ChangeIsPending, RootPending
  <2> QED
    BY <2>1, <2>2
<1>12. InboxIsAwaited'
  <2>1. \A i \in 1 .. Len(inbox') : i + 1 \in 1 .. Len(inbox) /\ inbox'[i] = inbox[i + 1]
    BY <1>0, <1>1, <1>2 DEF ETypeOK
  <2>2. \A i \in 1 .. Len(inbox') : inbox'[i].cli # m.cli /\ inbox'[i].cli \in Client
    <3> SUFFICES ASSUME NEW i \in 1 .. Len(inbox')
                 PROVE  inbox'[i].cli # m.cli /\ inbox'[i].cli \in Client
      OBVIOUS
    <3>1. inbox[i + 1].cli = inbox[1].cli => i + 1 = 1
      BY <1>0, <1>2, <2>1 DEF ClientPart, InboxIsAwaited
    <3>2. i \in Int /\ i >= 1
      BY <1>1, <1>2
    <3>3. inbox'[i] \in [cli : Client, q : Request]
      <4>1. inbox' \in Seq([cli : Client, q : Request])
        BY <1>2
      <4> QED
        BY <4>1, ElementOfSeq
    <3> QED
      BY <1>2, <2>1, <3>1, <3>2, <3>3
  <2>3. \A c \in Client : c # m.cli => reply'[c] = reply[c]
    BY <1>1
  <2>4. \A i \in 1 .. Len(inbox') : /\ cli'[inbox'[i].cli] = inbox'[i].q
                                   /\ reply'[inbox'[i].cli] = NULL /\ inbox'[i].q.val # Huge
    BY <1>0, <1>1, <2>1, <2>2, <2>3 DEF ClientPart, InboxIsAwaited
  <2>5. \A i, j \in 1 .. Len(inbox') : inbox'[i].cli = inbox'[j].cli => i = j
    BY <1>0, <2>1 DEF ClientPart, InboxIsAwaited
  <2> QED
    BY <2>4, <2>5 DEF InboxIsAwaited
<1>13. ReplyMatches'
  <2>1. m.q # NULL
    BY <1>3, EcosConstants
  <2> QED
    BY <1>0, <1>1, <1>3, <2>1 DEF ClientPart, ReplyMatches
<1> QED
  BY <1>9, <1>10, <1>11, <1>12, <1>13 DEF IInv

\* A client sends and is answered: only its own request, and the copy of it in
\* the server's socket, change.
LEMMA SendIInv ==
    ASSUME IInv, NEW c \in Client, NEW q \in Request, ConfigSend(c, q)
    PROVE  IInv'
<1> DEFINE D == [cli : Client, q : Request]
           d == [cli |-> c, q |-> q]
<1>0. ETypeOK /\ TimersSet /\ PendingSince /\ BackupIsSet /\ ChangeIsPending /\ InboxIsAwaited
      /\ ReplyMatches /\ TypeOK
  BY DEF IInv, ETypeOK
<1>1. /\ cli[c] = NULL /\ sent < MaxRequest /\ cli' = [cli EXCEPT ![c] = q]
      /\ \/ inbox' = inbox
         \/ inbox' = Append(inbox, d) /\ q.val # Huge
      /\ sent' = sent + 1
      /\ UNCHANGED <<timers, uptime, s_current_uptime, cursor, pc, added,
                     cfg, backup, dev, setOK, lastWrite, turn, reply, restarts>>
  BY DEF ConfigSend, vars, server
<1>2. inbox \in Seq(D) /\ d \in D
  BY <1>0 DEF ETypeOK
<1>3. TypeOK'
  BY <1>0, <1>1 DEF TypeOK
<1>4. ETypeOK'
  <2>1. inbox' \in Seq(D)
    <3>1. Append(inbox, d) \in Seq(D)
      BY <1>2, AppendProperties
    <3> HIDE DEF D, d
    <3> QED
      BY <1>1, <1>2, <3>1
  <2>2. cli' \in [Client -> Request \cup {NULL}] /\ sent' \in 0 .. MaxRequest
    BY <1>0, <1>1, EcosConstants DEF ETypeOK
  <2> QED
    BY <1>0, <1>1, <1>3, <2>1, <2>2 DEF ETypeOK
<1>5. TimersSet' /\ PendingSince' /\ BackupIsSet' /\ ChangeIsPending'
  BY <1>0, <1>1 DEF TimersSet, PendingSince, BackupIsSet, ChangeIsPending, RootPending
<1>6. reply[c] = NULL
  BY <1>0, <1>1 DEF ReplyMatches
<1>7. \A i \in 1 .. Len(inbox) : inbox[i].cli \in Client /\ inbox[i].cli # c
  <2> SUFFICES ASSUME NEW i \in 1 .. Len(inbox)
               PROVE  inbox[i].cli \in Client /\ inbox[i].cli # c
    OBVIOUS
  <2>1. inbox[i] \in D
    BY <1>2, ElementOfSeq
  <2>2. cli[inbox[i].cli] = inbox[i].q
    BY <1>0 DEF InboxIsAwaited
  <2> QED
    BY <1>1, <2>1, <2>2, EcosConstants
<1>8. InboxIsAwaited'
  <2>1. \A e \in Client : e # c => cli'[e] = cli[e]
    BY <1>0, <1>1 DEF ETypeOK
  <2>2. cli'[c] = q
    BY <1>0, <1>1 DEF ETypeOK
  <2>3. CASE inbox' = inbox
    BY <1>0, <1>1, <1>7, <2>1, <2>3 DEF InboxIsAwaited
  <2>4. CASE inbox' = Append(inbox, d) /\ q.val # Huge
    <3>1. /\ Len(inbox') = Len(inbox) + 1 /\ Len(inbox) \in Nat
          /\ \A i \in 1 .. Len(inbox) : inbox'[i] = inbox[i]
          /\ inbox'[Len(inbox) + 1] = d
      BY <1>2, <2>4, AppendProperties
    <3>2. \A i \in 1 .. Len(inbox') : i \in 1 .. Len(inbox) \/ i = Len(inbox) + 1
      BY <3>1
    <3>3. \A i \in 1 .. Len(inbox) :
              /\ cli'[inbox'[i].cli] = inbox'[i].q /\ reply'[inbox'[i].cli] = NULL
              /\ inbox'[i].q.val # Huge /\ inbox'[i].cli # c
      BY <1>0, <1>1, <1>7, <2>1, <3>1 DEF InboxIsAwaited
    <3>4. \A i, j \in 1 .. Len(inbox) : inbox'[i].cli = inbox'[j].cli => i = j
      BY <1>0, <3>1 DEF InboxIsAwaited
    <3>5. /\ inbox'[Len(inbox) + 1].cli = c /\ inbox'[Len(inbox) + 1].q = q
          /\ reply'[c] = NULL
      BY <1>1, <1>6, <3>1
    <3> QED
      BY <2>2, <2>4, <3>2, <3>3, <3>4, <3>5 DEF InboxIsAwaited
  <2> QED
    BY <1>1, <2>3, <2>4
<1>9. ReplyMatches'
  BY <1>0, <1>1, <1>6 DEF ReplyMatches, ETypeOK
<1> QED
  BY <1>4, <1>5, <1>8, <1>9 DEF IInv

LEMMA ReturnIInv ==
    ASSUME IInv, NEW c \in Client, ConfigReturn(c)
    PROVE  IInv'
<1>0. ETypeOK /\ TimersSet /\ PendingSince /\ BackupIsSet /\ ChangeIsPending /\ InboxIsAwaited
      /\ ReplyMatches /\ TypeOK
  BY DEF IInv, ETypeOK
<1>1. /\ reply[c] # NULL /\ cli' = [cli EXCEPT ![c] = NULL] /\ reply' = [reply EXCEPT ![c] = NULL]
      /\ UNCHANGED <<timers, uptime, s_current_uptime, cursor, pc, added,
                     cfg, backup, dev, setOK, lastWrite, turn, inbox, sent, restarts>>
  BY DEF ConfigReturn, vars, server
<1>2. TypeOK'
  BY <1>0, <1>1 DEF TypeOK
<1>3. ETypeOK'
  <2>1. cli' \in [Client -> Request \cup {NULL}] /\ reply' \in [Client -> Response \cup {NULL}]
    BY <1>0, <1>1 DEF ETypeOK
  <2> QED
    BY <1>0, <1>1, <1>2, <2>1 DEF ETypeOK
<1>4. TimersSet' /\ PendingSince' /\ BackupIsSet' /\ ChangeIsPending'
  BY <1>0, <1>1 DEF TimersSet, PendingSince, BackupIsSet, ChangeIsPending, RootPending
<1>5. InboxIsAwaited'
  <2>1. \A i \in 1 .. Len(inbox) : inbox[i].cli \in Client /\ inbox[i].cli # c
    <3> SUFFICES ASSUME NEW i \in 1 .. Len(inbox)
                 PROVE  inbox[i].cli \in Client /\ inbox[i].cli # c
      OBVIOUS
    <3>1. inbox[i] \in [cli : Client, q : Request]
      BY <1>0, ElementOfSeq DEF ETypeOK
    <3> QED
      BY <1>0, <1>1, <3>1 DEF InboxIsAwaited
  <2>2. \A e \in Client : e # c => cli'[e] = cli[e] /\ reply'[e] = reply[e]
    BY <1>0, <1>1 DEF ETypeOK
  <2> QED
    BY <1>0, <1>1, <2>1, <2>2 DEF InboxIsAwaited
<1>6. ReplyMatches'
  BY <1>0, <1>1 DEF ReplyMatches, ETypeOK
<1> QED
  BY <1>3, <1>4, <1>5, <1>6 DEF IInv

\* Steps that leave the configuration, the timers and the clients alone: the clock,
\* and the moves of the main loop between and along timers.
LEMMA MoveIInv ==
    ASSUME IInv, ClockTick \/ SelectTimeout \/ PassBegin \/ PassNext \/ PassEnd
    PROVE  IInv'
<1>0. ETypeOK /\ TimersSet /\ PendingSince /\ BackupIsSet /\ ChangeIsPending /\ InboxIsAwaited
      /\ ReplyMatches /\ TypeOK
  BY DEF IInv, ETypeOK
<1>1. UNCHANGED <<timers, added, cfg, backup, dev, setOK, lastWrite, inbox, cli, reply, sent, restarts>>
  BY DEF ClockTick, SelectTimeout, PassBegin, PassNext, PassEnd, Tick, LoopBegin, LoopNext, LoopEnd,
         vars, server, net
<1>2. /\ uptime' \in Nat /\ s_current_uptime' \in Nat /\ pc' \in {"idle", "scan", "callback"}
      /\ turn' \in {"boot", "select", "timers"} /\ (turn' = "boot" <=> turn = "boot")
      /\ pc' # "idle" => turn' = "timers"
  <2>1. CASE ClockTick
    BY <1>0, <2>1 DEF ClockTick, Tick, TypeOK, ETypeOK, TimersSet
  <2>2. CASE SelectTimeout
    BY <1>0, <2>2 DEF SelectTimeout, vars, TypeOK, ETypeOK, TimersSet
  <2>3. CASE PassBegin
    BY <1>0, <2>3 DEF PassBegin, LoopBegin, TypeOK, ETypeOK, TimersSet
  <2>4. CASE PassNext
    BY <1>0, <2>4 DEF PassNext, LoopNext, TypeOK, ETypeOK, TimersSet
  <2>5. CASE PassEnd
    BY <1>0, <2>5 DEF PassEnd, LoopEnd, TypeOK, ETypeOK, TimersSet
  <2> QED
    BY <2>1, <2>2, <2>3, <2>4, <2>5
<1>3. cursor' \in Handle \cup {NULL} /\ (pc' # "idle" => cursor' \in {Root, Link, NULL})
  <2>1. CASE ClockTick \/ SelectTimeout \/ PassEnd
    BY <1>0, <2>1 DEF ClockTick, Tick, SelectTimeout, vars, PassEnd, LoopEnd, TypeOK, TimersSet
  <2>2. CASE PassBegin \/ PassNext
    <3>1. turn # "boot"
      BY <1>0, <2>2 DEF PassBegin, PassNext, LoopNext, TimersSet
    <3>2. DOMAIN timers = {Root, Link}
      BY <1>0, <3>1 DEF TimersSet
    <3>3. \E h \in Handle \cup {NULL} : \E n : IsNextAfter(h, n, timers) /\ cursor' = h
      BY <2>2 DEF PassBegin, LoopBegin, PassNext, LoopNext
    <3> QED
      BY <3>2, <3>3 DEF IsNextAfter
  <2> QED
    BY <2>1, <2>2
<1>4. ETypeOK'
  BY <1>0, <1>1, <1>2, <1>3 DEF ETypeOK, TypeOK
<1>5. TimersSet'
  BY <1>0, <1>1, <1>2, <1>3 DEF TimersSet
<1>6. PendingSince' /\ BackupIsSet' /\ ChangeIsPending'
  BY <1>0, <1>1, <1>2 DEF PendingSince, BackupIsSet, ChangeIsPending, RootPending
<1>7. InboxIsAwaited' /\ ReplyMatches'
  BY <1>0, <1>1 DEF InboxIsAwaited, ReplyMatches
<1> QED
  BY <1>4, <1>5, <1>6, <1>7 DEF IInv

\* A timer that is called: the root timer brings the interface and the backup up to
\* date before its count is gone; the link timer goes on forever.
LEMMA CallIInv ==
    ASSUME IInv, PassCall
    PROVE  IInv'
<1>0. ETypeOK /\ TimersSet /\ PendingSince /\ BackupIsSet /\ ChangeIsPending /\ InboxIsAwaited
      /\ ReplyMatches /\ TypeOK
  BY DEF IInv, ETypeOK
<1> DEFINE b == timers[cursor].body
<1>1. /\ pc = "scan" /\ cursor # NULL /\ Due(b, s_current_uptime)
      /\ timers' = WithBody(cursor, Ran(b, s_current_uptime)) /\ pc' = "callback"
      /\ IF cursor = Root THEN RootConfig(cfg, backup, FALSE)
                          ELSE UNCHANGED <<backup, dev, setOK>>
      /\ UNCHANGED <<uptime, s_current_uptime, cursor, added, cfg, lastWrite, turn,
                     inbox, cli, reply, sent, restarts>>
  BY DEF PassCall, LoopCall, net
<1>2. /\ turn = "timers" /\ cursor \in {Root, Link}
      /\ timers \in [{Root, Link} -> [body : Body, ord : Nat]]
      /\ b \in Body /\ s_current_uptime \in Nat
  BY <1>0, <1>1 DEF TimersSet, TypeOK
<1>3. Ran(b, s_current_uptime) \in Body
  <2>1. b.count \in Nat \cup {-1} /\ b.count # 0
    BY <1>1, <1>2 DEF Due, Body, COUNT_FOREVER
  <2>2. (IF b.count = COUNT_FOREVER THEN b.count ELSE b.count - 1) \in Nat \cup {-1}
    BY <2>1 DEF COUNT_FOREVER
  <2> QED
    BY <1>2, <2>2 DEF Ran, Body, COUNT_FOREVER
<1>4. /\ timers' \in [{Root, Link} -> [body : Body, ord : Nat]]
      /\ timers'[cursor].body = Ran(b, s_current_uptime)
      /\ cursor = Link => timers'[Root] = timers[Root]
  BY <1>1, <1>2, <1>3, OneTimer, Handles
<1>5. cursor = Root => /\ timers'[Root].body.count = 0
                       /\ timers'[Root].body.interval = RootDelay
  <2>1. SUFFICES ASSUME cursor = Root
                 PROVE  Ran(b, s_current_uptime).count = 0
                        /\ Ran(b, s_current_uptime).interval = RootDelay
    BY <1>4
  <2>2. b.count = 1 /\ b.interval = RootDelay
    BY <1>0, <1>1, <1>2, <2>1 DEF TimersSet, Due
  <2> QED
    BY <1>2, <2>2 DEF Ran, Body, COUNT_FOREVER
<1>6. cursor = Root => /\ backup' = cfg /\ dev' \in IP \cup {NULL} /\ setOK' \in BOOLEAN
                       /\ (cfg.ulIPType = "static" /\ setOK') => dev' = cfg.inIPAddress
  BY <1>0, <1>1, <1>2, RootConfigSets DEF ETypeOK, BackupIsSet
<1>7. cursor = Link => UNCHANGED <<backup, dev, setOK>>
  BY <1>1, Handles
<1>8. TypeOK'
  <2>1. {Root, Link} \in SUBSET Handle
    BY Handles
  <2> QED
    BY <1>0, <1>1, <1>4, <2>1 DEF TypeOK
<1>9. ETypeOK'
  BY <1>0, <1>1, <1>2, <1>6, <1>7, <1>8 DEF ETypeOK
<1>10. TimersSet'
  BY <1>0, <1>1, <1>2, <1>4, <1>5 DEF TimersSet
<1>11. PendingSince' /\ BackupIsSet' /\ ChangeIsPending'
  <2>1. CASE cursor = Root
    BY <1>1, <1>5, <1>6, <2>1 DEF PendingSince, BackupIsSet, ChangeIsPending, RootPending
  <2>2. CASE cursor = Link
    BY <1>0, <1>1, <1>4, <1>7, <2>2 DEF PendingSince, BackupIsSet, ChangeIsPending, RootPending
  <2> QED
    BY <1>2, <2>1, <2>2
<1>12. InboxIsAwaited' /\ ReplyMatches'
  BY <1>0, <1>1 DEF InboxIsAwaited, ReplyMatches
<1> QED
  BY <1>9, <1>10, <1>11, <1>12 DEF IInv

\* A restart forgets the timers and the requests; oem_main_init makes all of it anew.
LEMMA RestartIInv ==
    ASSUME IInv, Restart
    PROVE  IInv'
<1>0. ETypeOK /\ TimersSet /\ InboxIsAwaited /\ ReplyMatches /\ TypeOK
  BY DEF IInv, ETypeOK
<1>1. /\ restarts < MaxRestart /\ restarts' = restarts + 1 /\ turn' = "boot"
      /\ timers' = [h \in {} |-> NULL] /\ cursor' = NULL /\ pc' = "idle" /\ added' = 0
      /\ inbox' = <<>>
      /\ UNCHANGED <<uptime, s_current_uptime, cfg, backup, dev, setOK, lastWrite, cli, reply, sent>>
  BY DEF Restart, server
<1>2. TypeOK'
  <2>1. timers' \in [{} -> [body : Body, ord : Nat]] /\ {} \in SUBSET Handle
    BY <1>1
  <2> QED
    BY <1>0, <1>1, <2>1 DEF TypeOK
<1>3. ETypeOK'
  <2>1. restarts' \in 0 .. MaxRestart
    BY <1>0, <1>1, EcosConstants DEF ETypeOK
  <2> QED
    BY <1>0, <1>1, <1>2, <2>1 DEF ETypeOK
<1>4. TimersSet' /\ PendingSince' /\ BackupIsSet' /\ ChangeIsPending'
  BY <1>1 DEF TimersSet, PendingSince, BackupIsSet, ChangeIsPending
<1>5. InboxIsAwaited' /\ ReplyMatches'
  BY <1>0, <1>1 DEF InboxIsAwaited, ReplyMatches
<1> QED
  BY <1>3, <1>4, <1>5 DEF IInv

-----------------------------------------------------------------------------
\* Every step keeps the invariant.
LEMMA NextIInv == IInv /\ [ENext]_evars => IInv'
<1> SUFFICES ASSUME IInv, [ENext]_evars PROVE IInv'
  OBVIOUS
<1>1. CASE ClockTick \/ SelectTimeout \/ PassBegin \/ PassNext \/ PassEnd
  BY <1>1, MoveIInv
<1>2. CASE OemMainInit \/ Exchange \/ PassCall \/ Restart
  BY <1>2, BootIInv, ExchangeIInv, CallIInv, RestartIInv
<1>3. ASSUME NEW c \in Client, ConfigReturn(c) \/ \E q \in Request : ConfigSend(c, q)
      PROVE  IInv'
  BY <1>3, ReturnIInv, SendIInv
<1>4. CASE UNCHANGED evars
  BY <1>4 DEF evars, vars, server, net, IInv, ETypeOK, TypeOK, TimersSet, PendingSince, BackupIsSet,
              ChangeIsPending, RootPending, InboxIsAwaited, ReplyMatches
<1> QED
  BY <1>1, <1>2, <1>3, <1>4 DEF ENext, Server

LEMMA ConfigInv == ESpec => []IInv
  BY InitIInv, NextIInv, PTL DEF ESpec

\* The configuration, the interface, the sockets and the timers keep their types,
\* however the server is restarted and whatever clients send.
THEOREM TypeCorrect == ESpec => []ETypeOK
<1>1. IInv => ETypeOK
  BY DEF IInv
<1> QED
  BY <1>1, ConfigInv, PTL

\* A configuration that differs from its backup has a run of root_config coming:
\* the two sides of the comparison are never apart with nothing to bring them
\* together.
THEOREM ChangesArePending == ESpec => []ChangeIsPending
<1>1. IInv => ChangeIsPending
  BY DEF IInv
<1> QED
  BY <1>1, ConfigInv, PTL

\* When no run is pending the interface has the static address of the configuration,
\* unless the last attempt to set it failed: the backup equals the configuration
\* then, and a static address of the backup has been set.
THEOREM QuietIsApplied == ESpec => []AppliedWhenQuiet
<1>1. IInv => AppliedWhenQuiet
  BY DEF IInv, AppliedWhenQuiet, ChangeIsPending, BackupIsSet
<1> QED
  BY <1>1, ConfigInv, PTL

\* A response is for the request its client is blocked on, for any number of clients
\* and any size of the server's socket.
THEOREM RepliesMatch == ESpec => []ReplyMatches
<1>1. IInv => ReplyMatches
  BY DEF IInv
<1> QED
  BY <1>1, ConfigInv, PTL

\* root_config never runs less than two seconds after the last accepted write.
THEOREM Debounced == ESpec => RootConfigDebounced
<1>1. IInv /\ [ENext]_evars
        => [(pc = "scan" /\ pc' = "callback" /\ cursor = Root)
                => s_current_uptime >= lastWrite + RootDelay]_evars
  <2> SUFFICES ASSUME IInv, ENext, pc = "scan", pc' = "callback", cursor = Root
               PROVE  s_current_uptime >= lastWrite + RootDelay
    OBVIOUS
  <2>1. PassCall
    BY DEF ENext, Server, ClockTick, Tick, OemMainInit, Exchange, SelectTimeout, vars, PassBegin,
           LoopBegin, PassNext, LoopNext, PassEnd, LoopEnd, Restart, ConfigReturn, ConfigSend
  <2>2. Due(timers[Root].body, s_current_uptime)
    BY <2>1 DEF PassCall, LoopCall
  <2>3. /\ turn # "boot" /\ timers[Root].body.interval = RootDelay
        /\ timers[Root].body.last_time = lastWrite
    BY <2>2 DEF IInv, TimersSet, PendingSince, RootPending, Due
  <2> QED
    BY <2>2, <2>3 DEF Due
<1> QED
  BY <1>1, ConfigInv, PTL DEF ESpec, RootConfigDebounced

=============================================================================
