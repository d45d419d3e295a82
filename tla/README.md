# A TLA+ verification of linux_code

The repository is a collection of independent Linux programs, most of them small
exercises. This directory models the ones whose correctness depends on more than
one step of one actor: the timer list, the configuration server, the MIB registry and
the configuration file of `041_ecos_mib`; the chat server of `008_chat`; the game of
`009_skynet_demo`, and the message dispatch and the timer of the skynet it runs on; and
the message-queue handshake of `014_ipc_message_queue`. TLC checks every module on small instances; TLAPS proves
the main safety properties for all values of the constants.

`PROJECT.json` lists components, runs, mutants, findings, hazards and theorems, and
maps every definition to the lines it models.

Run a check with `tlc -config X.cfg M`, a proof with `tlapm M.tla`.

## 1. Inventory

### 041_ecos_mib: timer list (`apps/ecos/ecos_timer.c`)

*State*: a doubly linked list of timers between `s_p_ecos_timer_function_list_head`
and `_tail`; a timer has a handle, a function, an interval, a count, the time it last
ran and a suspend flag. A pass also keeps `s_p_timer` and `s_current_uptime`.
*Operations*: add, del, set, suspend, resume, free, init, and
`ecos_timer_function_loop`, which walks the list and calls what is due.
*Interaction*: single threaded; callbacks call back into the list during the walk.
*Hard*: a pointer kept across callbacks, four cases of unlinking, handles that are
reused, a due timer that must not be skipped.
*Correct if*: the list is exactly the timers, in order; handles are unique; a pass never
leaves the list and never calls a timer twice; a due timer is called.

### 041_ecos_mib: configuration server and its clients

*State*: `g_ConfigSet`, `g_ConfigSetBackup`, the interface's address, the root and link
timers, one UDP socket; on the client side, the request it is blocked on.
*Operations*: `oem_main_init`; each turn of `oem_main_loop` answers at most one request
(`ECosMibCommServerExchange`, `parser_mib_root`, the three parsers) and makes one timer
pass; `ecos_mib_root_exec` re-arms the root timer, `root_config` applies the difference to
the backup; `ConfigExchange` sends and waits.
*Hard*: writes in any rhythm around the two seconds, setting the address may fail,
restart, lost datagrams, no timeout.
*Correct if*: what was written last reaches the interface; nothing is applied early;
every request gets its own answer.

### 041_ecos_mib: MIB registry (`ecos_mib_reg.c`, `ecos_shash32.c`) and configuration file (`ecos_config_file.c`, `ecos_oem_database.c`)

*State*: a hash table with chained nodes, each pointing to a registration; the list of all
MIBs in the order of registration; `g_ConfigSet`; a text file of key and value lines; the
reader's static `s_line_info`.
*Operations*: init, register, unregister, free, search by MIB and by description; save key
and value lines, load a file line by line into the variables the registrations point to.
*Interaction*: the loader finds its target through the registry; registrations own memory
that unregister and free give back.
*Hard*: collisions, a failed registration, a MIB registered again, quotes in texts, lines
told apart by tags found anywhere in them, values that break their line, byte order, a file
cut off, a restart between save and load.
*Correct if*: the table is a map; nothing but failed registrations leaks; what was saved is
what is loaded.

### 008_chat: server (`server.c`, `data.c`, `key.c`) and client

*State*: table `user` (name, password, fd or -1, keygen) in an SQLite file; per thread a
descriptor, the name of the last login tried, and a keygen; per process the static
`keygen` and `offset`, the random generator, and `db_mutex`.
*Operations*: register, log in, broadcast, private message, list, disconnect; every
message is encrypted with a key stream drawn from the generator.
*Interaction*: threads share the table one SQL statement at a time and write to each
other's sockets by descriptor; `db_mutex` guards the key stream only.
*Hard*: check then act over several statements, a user marked online before the answer is
written, a second login on one connection, descriptors closed and reused, a database that
outlives the process, a generator everybody may reseed.
*Correct if*: the table says who is online where; messages reach their users; both ends
draw the same key.

### 014_ipc_message_queue: program_1 and program_2

*State*: one named queue, a notification registration, a signal disposition.
*Hard*: the answer may come at any point of program_1's path from `mq_send` to `sigwait`;
both programs read and write one queue and both unlink it.
*Correct if*: program_1 reads the answer and not its own message, its wait ends, and the
name does not stay behind.

### 009_skynet_demo: skynet's dispatch and timer (`skynet-src`)

*State*: per service a context with a reference count and a ring buffer of messages; a
global queue of the buffers that have messages; a table of handles that doubles when it is
full; the number of services; the sleeping workers. The timer is a wheel of five levels.
*Operations*: launch, send, kill; a worker takes a buffer, dispatches some of its messages
and puts it back; the timer thread ticks, delivers timeouts, wakes a worker and ends the
program when no service is left.
*Interaction*: every structure has its own lock and calls leave one before taking another.
*Hard*: a buffer must be in exactly one place; a service is killed while others send to it
or dispatch it, or while it is being launched; a sleeping worker must hear of the end; the
time wraps after 2^32 ticks.
*Correct if*: each service handles its messages once, in order and one at a time; nothing is
used after it is freed; no message stays; timeouts come on their tick.

### 009_skynet_demo: guessing game (`game/*.lua`)

*State*: an agent per connection (name, the room it plays in, commands in progress); in the
hall, the waiting clients and the `ready` calls still to answer; per room the players, whose
turn it is, the number and its range; in redis, each user's room.
*Operations*: login, ready, guess, quit; the hall matches players and starts a room; a room
takes guesses, players leave and come back, the game ends.
*Interaction*: services call each other; a caller's coroutine waits, the agent goes on with
the next command. The hall serves one request at a time, also while it waits for a room.
*Hard*: everything a client can do between a call and its answer; rooms that are gone.
*Correct if*: waiting clients and waiting calls agree; nobody is in two games; the number
stays in the range.

### Not modelled, and why

| part | reason |
|---|---|
| rest of `009_skynet_demo/skynet` (sockets, harbors, modules, Lua library, `3rd/jemalloc`, `3rd/lua`), mongoose of `041`, `020_lua_demo` | vendored upstream projects; the repository's own programs meet them only at the calls that are modelled. They are more than nine tenths of the lines of the repository, which is why the map covers a small share of it |
| `007_epoll_reactor_server` | one callback loop over `epoll`; its two defects (a slot that is removed on every turn once it is idle, a null slot that is used when the table is full) are visible in single functions |
| chat client's two threads | they share the generator, `keygen` and `offset` without a lock: every outcome is possible, so there is nothing for a property to promise |
| `006_tinyfs` | a kernel module; which of its operations may interleave is decided by the kernel, outside the repository |
| `016`, `019`, `023`-`025`, `028`, `042` | textbook structures and pure functions in single-threaded demos, plain to test |
| `035_ecos_loop`, `040_ecos_button`, `031_reg_mib`, `045_read_content` | earlier versions of the code of `041` |
| `002`, `036`, `011`-`013`, `026`, `022`, `037`, `039` | thin wrappers of system calls, with little state |
| the rest | compiler, build system and kernel-module examples |

Within the modelled parts: in `ecos_config_file.c` the types u32, mac and hex, indices,
comments, hand-edited lines, lines too long for their buffer, a value's text that spells a
description, a type or an index, and `ecos_config_file_check_version`, which nothing calls; in
skynet, names (`skynet_handle_namehandle` may bind a name to a handle retired meanwhile),
harbors, logging, the overload warning, the monitor and socket threads, and the wrap of
handles after 2^24 launches; in the game, what is only printed to a client.

## 2. Plan

Order: the most heavily interleaved code first.

1. *(done)* TimerBase, TimerService, EcosTimer, refinement and proofs.
2. *(done)* EcosConfig, which composes the server and its clients with TimerService.
3. *(done)* MqHandshake and proofs; ChatServer and proofs; ChatKey.
4. *(done)* SkynetTimer and SkynetServer with the specifications they implement,
   SkynetAlarm and SkynetMailbox.
5. *(done)* GuessGame, on the mailboxes SkynetServer implements.
6. *(done)* EcosRegistry with MibMap, which it implements.
7. *(done)* Proofs of the safety properties of EcosConfig, ChatKey, ChatServerHistory,
   GuessGame and the hash table of EcosRegistry.
8. *(done)* Proofs of the safety properties of SkynetServer and of its refinement, and of
   the configuration file of EcosRegistry.
9. *(done)* Proofs of the places of the events in the wheel of SkynetTimer and of its
   refinement. Liveness is left to TLC.

## 3. Modules

| module | models | notes |
|---|---|---|
| `TimerBase` | the fields of a timer and what each operation does to them | shared by the next two |
| `TimerService` | what `ecos_timer.c` promises: a map from handles to timers, visited in the order of adding | abstract specification |
| `EcosTimer` | `ecos_timer.c` itself: nodes at addresses, `prev`, `next`, head, tail, and the pass | implements `TimerService` |
| `EcosConfig` | configuration server, clients, interface | extends `TimerService` |
| `MqHandshake` | program_1 and program_2 over a model of the kernel's queues | kernel part marked external |
| `ChatServer` | threads, table `user`, descriptors, restart | |
| `ChatServerHistory` | `ChatServer` with history variables that record its races | |
| `ChatKey` | key streams, `db_mutex` | |
| `MibMap` | what the registry promises: a map from MIBs to descriptions and the order of first registrations | abstract specification |
| `EcosRegistry` | hash table, registrations, configuration file, loader | implements `MibMap` |
| `SkynetOrder` | the part of a sequence that is in a set, in its order | used by the next two |
| `SkynetAlarm` | what `skynet_timeout` promises: an event on its tick, in the order asked for | abstract specification |
| `SkynetTimer` | the timing wheel of `skynet_timer.c` | implements `SkynetAlarm` |
| `SkynetMailbox` | what skynet promises a service about its messages | abstract specification |
| `SkynetRing`, `SkynetHandle` | ring buffer and handle table as values | used by the next |
| `SkynetServer` | workers, global queue, contexts, timer thread | implements `SkynetMailbox` |
| `GuessGame` | agents, hall, rooms, redis | services take messages as `SkynetMailbox` says |
| `MC*` | constants, symmetry, views for TLC | |
| `*Proofs` | theorems | |

**EcosTimer.** A node is an address; `live` is what is malloc'ed. `Add`, `Del`, `Set`,
`Suspend`, `Resume`, `Free` are the API; they run when no pass is running
(`pc = "idle"`) or inside a callback (`pc = "callback"`). A pass is `LoopBegin` (reads
the clock and head), `LoopCall` (updates the timer, enters its callback), `LoopNext`
(follows `next`), `LoopEnd`. A callback that deletes its own timer frees the node
`LoopNext` reads from: `CallerKeeps` excludes it, as a condition on callers; no callback
in the repository does it. Handles are looked up in the set `live`; the invariant
`WalkIsList` shows that the list walk of the C code meets exactly that set. `ord` and
`added` are history.

**EcosConfig.** `turn` is the position in `oem_main_loop`: `Exchange` or `SelectTimeout`,
then a timer pass, which is TimerService's with the two callbacks. `OemMainInit` is the
start with its first `root_config`. `NetExec` may fail to set the address (`setOK`).
`ConfigSend` covers the lost and the oversized datagram. Only the two timers of the
server exist, so `Add`, `Del` and so on of TimerService are not steps of `ENext`.

**MqHandshake.** One step per call. `Signalled` says what SIGUSR1 does at each point of
program_1: it kills before `sigaction`, is swallowed by the handler before `sigwait`, and
wakes inside it. A message is the run of program_1 it came from and whether program_2 has
turned it to upper case; a text that is upper case already cannot be told apart in the
program and is kept apart in the model, which is what "own message" means.

**ChatServer.** One step per SQL statement and per write. A descriptor names a thread;
`Accept` takes the lowest free one, as the kernel does. A connection's number stands for
its keygen, so two connections never have the same one; in the program they may, when two
clients connect in the same second. `acked` is history. Writes that block because a client
does not read are not modelled.
`login_f` is the client's: its menu offers register and login until the client has read
that a login succeeded. `Hears` says what it reads: the first bytes on the socket, which
are the answer as long as there is one connection, and may say either once there are others,
because a broadcast of another thread may come first or the answer be spoiled. `LoginOn`
marks the user online, `LoginReply` answers; between them others find the descriptor in the
table. The server asks nowhere whether a connection is signed on, so that it may log in
again; `logged` is the user it last signed on, `name` the last it tried.

**ChatKey.** One step per call of `srand` and `rand`. A key byte is the pair (seed, number
of the draw), so equal keys are keys drawn alike. The static keygen, the offset and the
generator are shared by all threads.

The properties of the chat server that its code breaks under a race are stated in two
forms. `RegistSuccess`, `FdIsLive`, `OnlineIsListed`, `SentToItsUser` (ChatServer) and
`KeyIsRight` (ChatKey) say what comments and messages say, and do not hold.
`RegistUnlessRaced`, `FdLiveUnlessLeft`, `ListedUnlessShared`, `SentUnlessMoved`
(ChatServerHistory) and `OnlyBornSpoils` say that what each names is the only way to break
it. The history variables record whether that has happened: `raced`, two connections about
to add one name; `shared`, two connections whose last tried name is the same; `left`, a
connection signed on as a user that has tried another name; `moved`, a descriptor closed
between a select and the write; `hit`, a reseeding within a key.

**EcosRegistry.** A row is the sequence of its nodes; registrations live at addresses, so
that a leak or a dangling pointer shows. `Register` and `RegisterUsed` are the two ends of
`ecos_mib_register`. A text is a sequence of symbols: quote, backslash, line break, the tag
of a key line (`<key `), the tag of a value line, any other. An ip is its
four bytes in memory, which saving prints from the last and loading turns with `ntohl`. An
entry of `file` is what one call of `save_key` or `save_val` wrote. `LoadValLine` reads all
the lines this makes: `Starts` and `LineFrom` split them as `fgets` does, `Rekeyed` are those
`file_get_line` takes for key lines because the tag is somewhere in them, `Valued` those it
takes for value lines, and `TextRead` is the value that stays. After a line of the value was
taken for a key line, `s_line_info` names no MIB until the next real key line: a text that
spells a description after the tag is not modelled. No
code of the repository saves all MIBs; `SaveFile` writes the lines `save_key` and `save_val`
make, and stops after any of them. `ecos_oem_root_init` sets its own address after loading
the file, so the loaded one never reaches the interface (EcosConfig starts from there); here
it is a `Write` like others.

**SkynetTimer.** Each list of the wheel is a sequence. The timer thread's steps are those
between taking and letting go of the lock; `skynet_timeout` may come whenever the lock is
free. Levels and digits are those of the code, with one bit per level instead of eight and
six, so that the time wraps at 32 and every level is used. `InNear` and `InLevel` say which
list `add_node` links a node to. `move_list` calls `add_node` for one node after the other,
all at the same time, so that every list gets its nodes at its end in the order they had:
`Deal` says this of all lists at once. `Among` is `SelectSeq` for a set, written so that it
can be reasoned about.

**SkynetServer.** A thread has a program counter and a stack of return points, and a step is
one section under a lock or one atomic operation. A callback does any sequence of sends,
kills and launches and may end at any time; so does the init function of a service, which
may also fail. A context is named by its handle. `known` holds the contexts whose
`ctx->handle` has been set, which happens only after `skynet_handle_register` has put them
into the table; until then they hash to 0. A failed assert ends the program: after
`H.clash` no thread takes a step. Handles that start again at 1 are beyond the bound
`MaxHandle`, so that a handle names one context.

**GuessGame.** One step per message handled. A command of a client starts a coroutine
(`co`), which waits at the call it has made; `Resumed` goes on with it when the answer is
the agent's next message. An agent that is logged in may log in again as another user, as
in the code. `cs` is the hall's `skynet.queue`: the request that holds it, and
those waiting. Redis keeps what it was sent, in order. `GameOver` has the path on which the
call for an offline player throws, because it passes `"hset"` as the protocol's name.

## 4. Runs

| run | checks | shows |
|---|---|---|
| `timer_list` | `TypeOK`, `HandlesDistinct`, `WalkIsList`, `ListInOrder`, `PassOnList`, `PassMovesForward` | the list under all operations, within callbacks too |
| `timer_refinement` | `ImplementsTimerService`, `DueIsCalled` | the list implements the map, fairness included, and so a due timer is called |
| `config_apply` | `AppliedWhenQuiet`, `ChangeIsPending`, `RootConfigDebounced`, `ConfigSettles` | writes reach the interface, not early |
| `config_answer` | `ReplyMatches`, `EveryRequestAnswered` | each request that fits a datagram gets its answer |
| `mq_handshake` | `NeverOwnMessage`, `NameIsCleanedUp`, `TimelyReplyWakes` | the handshake's safety; the wait ends when the answer comes after it began |
| `chat_server` | `FdLiveUnlessLeft`, `ListedUnlessShared`, `RegistUnlessRaced`, `SentUnlessMoved`, `LoginKnewPasswd` | who the table says is online, what is written to whom and what is registered, but for what each names; passwords, over restarts too |
| `chat_key` | `OnlyBornSpoils`, `MutexReleased` | a key is right unless a reseeding outside the mutex falls into its drawing; the mutex comes free |
| `registry` | `OnlyFailedLeak`, `EscapedIsRead`, `SavedIsLoaded`, `ImplementsMap` | the registry is a map; save and load agree |
| `skynet_timer` | `NodesInPlace`, `ImplementsAlarm`, `TimeoutFires` | every timeout on its tick and in order, over wraps of the time |
| `skynet_server` | `QueueInOnePlace`, `RefCounts`, `QuitIsLast`, `ImplementsMailbox`, `MessagesHandled`, `AllThreadsEnd` | messages once, in order, one at a time; nothing lost, nothing used after free; the program ends |
| `game` | `QueueHasCalls`, `NumberInRange`, `HallServesAll` | the hall's two structures agree and it never blocks; the range |
| `game_twice` | `InOneGame` | finds a user in two games, see below |

The modules' type invariants hold on the same instances; only the timer list's, which is
also proved, is part of a run.

`TimelyReplyWakes` asks for the queue to hold one message and for no other answer to be
on its way. Without that it is false: a message left by an earlier, killed run of
program_1 keeps the queue from being empty when the answer comes, and `mq_notify` only
reports a message that arrives at an empty queue.

### Disagreements with the source's own words

`game_twice` (listed under `findings`): the agent says "in a game, cannot get ready" and the
hall "getting ready twice", and both look at stale state. The hall forgets a user when it
answers, the agent learns of the room only when it handles the answer; a `ready` in between
joins a second game.

These configurations are not part of the run list. Each checks one property that restates a
comment or a message of the source, and TLC finds it violated:

| configuration | property | counterexample |
|---|---|---|
| `MqHandshakeWait.cfg` (MqHandshake) | `WaitEndsWhenReceived`: "wait for the other process to receive our message" (`program_1.c:53`) | the answer comes before `mq_notify`, before `sigaction` or before `sigwait` |
| `MCChatServerRegist.cfg` (MCChatServer) | `RegistSuccess`: "user %s regist success!" (`server.c:155`) | two registrations of one name both succeed |
| `MCChatServerOnline.cfg` | `OnlineIsListed`: "-1: not online" (`data.c:67`) | a failed login and a disconnect put another session offline |
| `MCChatServerReuse.cfg` | `SentToItsUser`: "the keygen of the user who receives the message" (`data.c:293`) | a descriptor is reused between select and write |
| `MCChatServerTwice.cfg` | `FdIsLive`: "delete from the online list" (`server.c:294`), "1: online" (`data.c:66`) | a connection signs on as one user, tries another name and goes |
| `MCEcosRegistryQuoteless.cfg` (MCEcosRegistry) | `QuotelessIsLoaded`: "if you need add character ", please set escape code \"" (`ecos_config_file.c:409`) | a text with the tag of a key line, or with a line break |
| `ChatKeyStream.cfg` (ChatKey) | `KeyIsRight`: "lock: several clients may be scheduled in between" (`server.c:54`) | `born_sync` reseeds outside the mutex |
| `MCSkynetServerClash.cfg` (MCSkynetServer) | `NoSlotClash`: `assert(new_slot[hash] == NULL)` (`skynet_handle.c:65`) | the table is doubled while a context in it has no handle yet, and hashes to the slot of another |

Of these, two are longer stories. A user is marked online (`server.c:202`) before the answer
is written (207), and the client takes the first bytes it reads for the answer
(`client.c:261`): a broadcast that comes in between looks like a failed login, and the client
tries another name. When the connection goes, only that name is signed off. The first user
keeps the closed descriptor, counts as online and cannot log in, and whoever gets the
descriptor next gets that user's messages. And the head of the configuration file asks for
an escape before a quote only, but the loader takes every line that contains `<key ` for a
key line (`ecos_config_file.c:189`), and `fgets` ends a value at its line break (182): a
product name with either, and the parser accepts any bytes, is saved and not loaded back.

Met while modelling, visible in the models, and stated in the conditions of the
properties instead of in runs of their own:

- `FdIsLive` and `FdLiveUnlessLeft` stop at a restart. `database_init` keeps `fd` from
  the last run, so users stay online without a connection and cannot log in.
- `EveryRequestAnswered` leaves out requests above 64k. `ConfigExchange` admits up to
  `MAX_EXCHANGE_SIZE`, 100 * 1024, which UDP does not carry; `sendto`'s result is ignored
  and `recvfrom` waits for ever.
- `NameIsCleanedUp` excepts a killed program_1. SIGUSR1 between `mq_notify` and
  `sigaction` has its default action.
- Two logins to one name that both find it offline interleave `db_update_keygen` and
  `db_user_on_off`: a second way to break `SentToItsUser`.

Every property of a passing run has a mutant: a definition changed the way a bug would,
under which TLC finds the property violated. The mutants stand next to the definitions
they change.

### Bounds

- Timers: three handles and three nodes with four adds, so that the list can be full,
  every case of unlinking occurs, and a freed node and handle are used again; a clock of
  one or two ticks, so that a timer is due in one pass and not in another, or after being
  re-armed. Intervals of more than a second behave as longer waits.
- Configuration: three requests of one client for `config_apply` (write, write back,
  change of type), six seconds, which is room for a run of the timer between writes, and
  one restart; two clients and a socket for two requests for `config_answer`. Clients stop
  writing two seconds before the clock does.
- Message queue: three runs of each program; later runs meet what earlier ones left.
- Chat: two users, two passwords, two descriptors, three connections and one restart.
  `Typed` says what the user at each connection types: at the first, either name; at the
  second, the first of the two names with its password or another; at the third, the second
  name. So a connection may be two users and go, two may be one user, two may register one
  name with different passwords, and a descriptor is reused while the connection on it is
  written to. With every name and password at every connection the states are too many.
- Registry: three MIBs on one of two rows, two of them with the same description, one failed
  registration; texts with a backslash at the end, and two that break their line: one goes on
  like a value line, the other begins with a quote and goes on like a key line.
- skynet timer: one bit per level, a time of 32 ticks that wraps, two events that are asked
  for again and again with every delay.
- skynet dispatch: two workers, one that takes a message at a time and one that takes all,
  one service at the start and one more to launch, rings and a handle table so small that
  both are doubled; two messages besides error answers. A handle given back is not given
  out again within the bound.
- Game: rooms of two players instead of three and numbers up to three, so that two rooms
  fit; two users logged in and a third connection that logs in as one of them or anew; one of
  the two may log in again under the new name (`Typed` says which names each connection
  tries); two commands for each of the two and one for the third.
- Key streams: two threads, two values of sync, keys of two bytes, so that the generator
  can be disturbed within a key.

Symmetry is used for addresses (`timer_list`), in a run without liveness properties.
`timer_list`, `chat_server` and `registry` use a `VIEW` that leaves out values that are set
again before they are read. `CHECK_DEADLOCK FALSE` stands where the programs end or
wait for clients, or where a bound ends the run.

### Fairness

- Timer pass (`WF(Loop)`): the main loop calls it again and again and the walk is a plain
  loop. Callbacks return.
- Configuration server: `WF(Server)`, an endless loop around `select` with a 10 ms
  timeout; `WF(ClockTick)`; `WF(ConfigReturn)`, a client with a datagram in its socket.
  Nothing makes a client send or a server restart.
- Message queue: weak fairness of each running process; no fairness for starting one.
- SkynetServer: weak fairness of each thread: threads are scheduled and callbacks return;
  the timer thread goes round every 2.5 ms. SkynetTimer: weak fairness of the timer thread.
- GuessGame: weak fairness of the services together, which is what `MessagesHandled` of
  SkynetServer gives; clients need do nothing.
- ChatServer and EcosRegistry have none: their properties are safety. ChatKey: weak fairness of each thread's
  own steps; clients do as they like. Mutex acquisition is only weakly fair: a given thread may wait for ever, and no property says
  otherwise.

## 5. Proofs

Each theorem holds for every value of the constants that meets the named `ASSUME`s of the
modules: `TimerConstants`, `AddrAssumption`, `EcosConstants`, `RegistryAssumption`,
`MqConstants`, `ChatConstants`, `TypedAssumption`, `KeyConstants`, `GameAssumption`, `ServerAssumption`,
`RingAssumption`, `HandleAssumption`, `TimerAssumption`. They say that bounds are natural numbers and sizes
positive, that a null value is none of the others, that names of different kinds differ,
that the requests, values and defaults are of the types the program declares, that MIBs
with one description have one type, that a quote, a line break and the tag of a key line are
no other symbol and no symbol is a number, and that the services
skynet starts with are in slots of their own. There are
finitely many addresses for timers (`AddrAssumption`): a walk is cut off at their number, so
that a cycle would show. TLC evaluates the assumptions on every run.

Every safety proof has one inductive invariant, `IInv`, a conjunction of named parts, with
one lemma per action or group of actions. That of ChatKey is called `KeyInv`, that of the
chat server's history `HInv`, and EcosRegistry has a second one, `FInv`, on top of `IInv`.
TLC, too, finds each of them invariant on the instances of the runs.

- **EcosTimerProofs**: `TypeCorrect`, `HandlesStayDistinct`, `ListStaysInOrder`,
  `PassStaysOnList`, `PassAlwaysMovesForward`. The inductive invariant is the conjunction
  of these with `OrdFresh` (the numbers of the adds are distinct and at most `added`). List
  order needs it: without it nothing says that an appended node is later than the tail,
  and neighbours could not be told from the order. The unlinking cases share one lemma,
  `UnlinkKeepsOrder`. `WalksMeetAll`: the walk of the C code meets every timer once and
  stops. It follows from the order alone, in two inductions: the live nodes in the order of
  their adds are a chain of links, and the walk along a chain is that chain
  (`WalkFollows`). This justifies that the model looks handles up in the
  set `live`. `ListImplementsMap`: `EcosTimer`'s specification implies the safety part of
  `TimerService` under `AbsTimers` and `AbsCursor`, action by action.
- **EcosConfigProofs**: `TypeCorrect`, `ChangesArePending`, `QuietIsApplied`, `Debounced`,
  `RepliesMatch`. The server's half of the invariant is `TimersSet` (the root timer is
  always in the list with its interval, pending or not), `PendingSince` (a pending run counts
  from the last write), `BackupIsSet` (a static address of the backup is the interface's,
  unless setting it failed) and `ChangeIsPending`; what is applied when all is quiet follows
  from the last two, and that nothing runs early from the second. The clients' half,
  `InboxIsAwaited`, says that a datagram in the socket is the one request its client is
  blocked on, so that no answer can be for another.
- **EcosRegistryProofs**: `NothingElseLeaks`, `TableImplementsMap`, `TypeCorrect`,
  `EscapesUndone` and `LoadRestores`. The invariant: a node
  is in the row of its key and no key is in a row twice (`RowsOK`); a node points to a
  registration of its own key (`NodesOK`); what is allocated and not pointed to is as many as
  the failed registrations (`LeakOK`); a registry that is closed is empty
  (`ClosedIsEmpty`). Counting what is allocated then needs only that different nodes point to
  different registrations, which is `NodesOK` and `RowsOK`. The refinement shows for each
  step how the set of MIBs the search finds changes. The file has an invariant of its own,
  `FInv`: every variable is a value of its type (`ConfigOK`), a value line follows its key
  line and is what a value of its type prints as, wherever the file was cut off
  (`WellFormed`), and a load that has read `pos` lines has `s_line_info` from the last key
  line and has put back every value before `pos` (`LoadOK`). A value cannot overwrite one
  loaded before it, because a description that is in the file once and in the table once
  leads to one MIB. `read_content` is a recursion from the end of the line: `ReaderExists`
  and `ReaderUnique` show that it defines a function, `ReadAlong` that a reader which passes
  the symbols of a text has read that text, and `ReadPlain` and `ReadEscaped` that it does
  so on a saved line and on an escaped text of any length. `OneLine` and `ReadAlone` add what
`file_get_line` does first: a text without a line break and without the tag of a key line is
the one line that its value line makes, and that line is read as a value line. `PartsExist` and
  `FlattenIsParts` do the same for `FlattenSeq`, in which the nodes of the table and the
  lines of the file are listed.
- **MqHandshakeProofs**: `OwnMessageNeverRead`. The invariant says that only the queue
  program_1 has open notifies, only while it is registered (`NotifiesP1`), and that once
  `sigwait` has returned its own message is gone from the queue (`OwnMessageGone`): a
  notification needs an empty queue. `NameNeverLeftBehind` goes through separately.
- **ChatServerProofs**: `PasswdAlwaysKnown`, an action property, from `LoginInProgress` (a
  login past the password test still has the row's password: rows are never replaced). The
  others are about ChatServerHistory. `FdAlwaysLive` is from `FdIsHeld`: before the first
  restart, a thread whose descriptor is in the table has still to mark that user offline, or
  the user is in `left`. `RegistHolds`, `ListedHolds` and `SentHolds`: what each names is the
  only way to break it. They need that the history sees all that is still possible
  (`RaceSeen`, `SharedSeen`, `LeftSeen`), that a connection stays listed until it signs off
  (`ListedWhilePresent`), that a listed descriptor has its connection's keygen
  (`KeygenOfFd`), and that rows read by a select are still true of the descriptors that have
  not been closed since (`RowsFresh`).
- **ChatServerProofs**, its last part, about ChatKey: `KeygenStaysOwn`, that the mutex is enough for the static keygen and
  offset, and `OnlyBornEverSpoils`, that for the generator it is enough but for `born_sync`
  and `born_keygen`. The second adds `KeySoFar`: as long as nothing has hit a thread in
  `request_key`, the bytes drawn are the first of its own stream and the generator stands
  behind them.
- **GuessGameProofs**: `TypeCorrect`, `HallKeepsCalls`, `NumberStaysInRange`. The type
  invariant carries the protocol: which messages may be on their way to which service, and
  that an answer names a coroutine of the agent it goes to. `HallInv` adds that no user waits
  twice, that exactly the waiting users have a call to answer, and that the list is full only
  while the hall waits for a room; `RoomInv`, that a room is started once and a room not
  started has the whole range.
- **SkynetServerProofs**: `RefsAreCounted`, `QueuesInOnePlace`, `QuitAfterLast` and
  `ThreadsImplementMailbox`. The first two hold only together with each other and with
  `Control` (which return points may be on a thread's stack, and which of its locals are in
  use there), `Storage` (a context is in one slot, and a handle not given out yet is nowhere),
  `Life` (a context has its queue from the time its handle is set, its queue is not marked
  while it is referred to, and until its handle is set only its launcher has it), `Uses` (what
  a thread uses has its handle set; what it deletes has no reference left and is deleted by
  nobody else) and `Totals` (`G_NODE.total` counts the services made and not yet deleted).
  References and places are sets of tagged pairs, so that a step of one thread changes their
  size by what its own locals gain or lose (`HoldersStep`, `PlacesStep`); the lemma `StepInv`
  puts the parts together, and each action shows what its locals, references and places
  become. `QuitAfterLast` follows because a service without a handle has a launcher, and the
  service that launches it is counted. For the refinement, `PushContents` and `PopContents`
  say what a ring's contents become, when the buffer is doubled too; that a service handles
  one message at a time is that its queue is with one worker (`OneDispatcher`), and that it is
  not deleted in the middle of one is that its worker has a reference (`MarkMail`).

- **SkynetTimerProofs**: `TypeCorrect`, `NodesStayInPlace` and `WheelImplementsAlarm`. The
  invariant says of every list that it is the part of `asked` that belongs there now
  (`NearInOrder`, `LevelsInOrder`), so places and order are one fact; of the list being
  delivered likewise (`ListInOrder`); that this list is delivered without the lock and that
  nothing else is due meanwhile (`Delivery`); and that what is on the wheel is less than half
  of the width ahead (`AllAhead`). The last is needed because the time wraps: only for such
  events do equal digits mean that the event is still to come. What a tick does is arithmetic:
  a tick that is a multiple of the span of level `l` but not of level `l + 1` (`Turn`; the wrap
  is one of level 3) changes the block of the time at the levels up to `l` and at no other,
  and the events whose block of level `l` begins to agree with it are those of the one list
  `timer_shift` deals out (`TurnPlaces`). The solver does not decide products of variables, so
  `DivMod` and five lemmas after it state division for a variable divisor, and `SpanFacts` and
  `BlkFacts` what a level adds. `TimerAssumption` states that the two powers of two are above 1,
  which follows from the shifts' being positive but would take an induction over exponents.
  For the refinement, an event has `(expire - time) % Word` ticks left; a list taken by
  `timer_execute` has none left, and `AmongFirst` gives that its head is the first of those
  due.

### Only model-checked

- Liveness (`DueIsCalled`, `ConfigSettles`, `EveryRequestAnswered`, `TimelyReplyWakes`,
  `MutexReleased`, `TimeoutFires`, `MessagesHandled`, `AllThreadsEnd`, `HallServesAll`, and
  the fairness of `ImplementsTimerService`): out of the prover's reach.
- `InOneGame`, `FdIsLive` and `QuotelessIsLoaded` do not hold.

The induction theorems of the library take an operator as a parameter, which the provers do
not instantiate. Where a proof needs induction over the naturals, it is stated for a set
(`SetInduction`, from the well-foundedness of the order).
