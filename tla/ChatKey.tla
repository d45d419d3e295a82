------------------------------ MODULE ChatKey -------------------------------
(***************************************************************************)
(* How the threads of the chat server of 008_chat draw key streams         *)
(* (server.c, key.c): from the C library's one random generator, seeded    *)
(* with sync ^ keygen, through the static variables keygen and offset.     *)
(* db_mutex is held around set_keygen and request_key.  born_sync and      *)
(* born_keygen, which seed the same generator with the time, are called    *)
(* without it.                                                             *)
(*                                                                         *)
(* A draw is the pair of the seed it comes from and its number, so two     *)
(* keys are equal when they are drawn alike.  srand and rand are atomic.   *)
(* The names are apart from ChatServer's, whose threads these are, so that *)
(* one module can prove about both.                                        *)
(***************************************************************************)
EXTENDS Integers, Sequences

CONSTANTS
    Thread,         \* connections, each standing for its own keygen
    Sync,           \* values of sync, which travel with the message
    TIME,           \* the seed srand(time(&t)) uses
    DEFAULT,        \* default_keygen
    NOBODY,         \* no thread: db_mutex is free
    KeyLen          \* bytes of key a message takes

ASSUME KeyConstants ==
    /\ KeyLen \in Nat \ {0}
    /\ DEFAULT \notin Thread \cup {0} /\ 0 \notin Thread
    /\ NOBODY \notin Thread \cup Sync \cup {DEFAULT}

VARIABLES
    keygen, offset,     \* the static variables of key.c
    seed, drawn,        \* the generator: its seed and how often rand was called since
    mutex,              \* the holder of db_mutex, or NOBODY
    kpc,                \* thread -> what it does next
    op,                 \* thread -> "send", "rcv" or "hello" (keygen_send)
    want,               \* thread -> the keygen it means to use
    sync,               \* thread -> sync of its message
    key,                \* thread -> the key drawn so far
    hit                 \* history: threads whose request_key another's born_* fell into

gen == <<seed, drawn>>
keyvars == <<keygen, offset, gen, mutex, kpc, op, want, sync, key, hit>>

Keygen == Thread \cup {DEFAULT, 0}
Seed == (Sync \X Keygen) \cup {TIME}

KeyTypeOK ==
    /\ keygen \in Keygen /\ offset \in Nat
    /\ seed \in Seed /\ drawn \in Nat
    /\ mutex \in Thread \cup {NOBODY}
    /\ kpc \in [Thread -> {"idle", "sync", "rand", "lock", "set", "seed", "skip", "draw",
                          "unlock", "born", "bornrand"}]
    /\ op \in [Thread -> {"send", "rcv", "hello"}]
    /\ want \in [Thread -> Keygen]
    /\ sync \in [Thread -> Sync]
    /\ key \in [Thread -> Seq(Seed \X Nat)]
    /\ hit \subseteq Thread

KeyInit ==
    /\ keygen = 0 /\ offset = 0
    /\ seed = TIME /\ drawn = 0
    /\ mutex = NOBODY
    /\ kpc = [t \in Thread |-> "idle"]
    /\ op = [t \in Thread |-> "hello"]
    /\ want = [t \in Thread |-> DEFAULT]
    /\ sync \in [Thread -> Sync]
    /\ key = [t \in Thread |-> <<>>]
    /\ hit = {}

-----------------------------------------------------------------------------
KeyGoto(t, l) == kpc' = [kpc EXCEPT ![t] = l]

\* A thread welcomes its client (keygen_send), under the default keygen; reads
\* from it (enc_rcv_srv), under the client's keygen and the sync that came with
\* the message; or writes to any client (enc_send_srv), under that one's keygen.
Begin(t) ==
    /\ kpc[t] = "idle"
    /\ \/ /\ op' = [op EXCEPT ![t] = "hello"]
          /\ want' = [want EXCEPT ![t] = DEFAULT]
          /\ KeyGoto(t, "sync")
          /\ UNCHANGED sync
       \/ /\ op' = [op EXCEPT ![t] = "rcv"]
          /\ want' = [want EXCEPT ![t] = t]
          /\ \E s \in Sync : sync' = [sync EXCEPT ![t] = s]
          /\ KeyGoto(t, "lock")
       \/ /\ op' = [op EXCEPT ![t] = "send"]
          /\ \E u \in Thread : want' = [want EXCEPT ![t] = u]
          /\ KeyGoto(t, "sync")
          /\ UNCHANGED sync
    /\ key' = [key EXCEPT ![t] = <<>>]
    /\ UNCHANGED <<keygen, offset, gen, mutex, hit>>

\* Threads between the srand and the last rand of request_key.
Drawing == {t \in Thread : kpc[t] \in {"skip", "draw"}}

\* born_sync and born_keygen: srand ...
BornSeed(t) ==
    /\ \/ kpc[t] = "sync" /\ KeyGoto(t, "rand")
       \/ kpc[t] = "born" /\ KeyGoto(t, "bornrand")
    /\ seed' = TIME /\ drawn' = 0
    /\ hit' = hit \cup Drawing
    /\ UNCHANGED <<keygen, offset, mutex, op, want, sync, key>>

\* ... and rand, whose value is some sync.
BornRand(t) ==
    /\ \/ kpc[t] = "rand" /\ KeyGoto(t, "lock") /\ \E s \in Sync : sync' = [sync EXCEPT ![t] = s]
       \/ kpc[t] = "bornrand" /\ KeyGoto(t, "idle") /\ UNCHANGED sync
    /\ drawn' = drawn + 1
    /\ hit' = hit \cup Drawing
    /\ UNCHANGED <<keygen, offset, seed, mutex, op, want, key>>

Lock(t) ==
    /\ kpc[t] = "lock"
    /\ mutex = NOBODY
    /\ mutex' = t
    /\ KeyGoto(t, "set")
    /\ UNCHANGED <<keygen, offset, gen, op, want, sync, key, hit>>

\* set_keygen, or reset_keygen.
SetKeygen(t) ==
    /\ kpc[t] = "set"
    /\ keygen' = want[t]
    /\ offset' = 0
    /\ KeyGoto(t, "seed")
    /\ UNCHANGED <<gen, mutex, op, want, sync, key, hit>>

\* request_key: srand(born_seed(sync, keygen)), offset draws thrown away, ...
RequestSeed(t) ==
    /\ kpc[t] = "seed"
    /\ seed' = <<sync[t], keygen>> /\ drawn' = 0
    /\ hit' = hit \ {t}
    /\ KeyGoto(t, "skip")
    /\ UNCHANGED <<keygen, offset, mutex, op, want, sync, key>>

\* Mutant of RequestSkip: one draw too many is thrown away.
RequestSkipOneMore(t) ==
    /\ kpc[t] = "skip"
    /\ drawn' = drawn + offset + 1
    /\ KeyGoto(t, "draw")
    /\ UNCHANGED <<keygen, offset, seed, mutex, op, want, sync, key, hit>>

RequestSkip(t) ==
    /\ kpc[t] = "skip"
    /\ drawn' = drawn + offset
    /\ KeyGoto(t, "draw")
    /\ UNCHANGED <<keygen, offset, seed, mutex, op, want, sync, key, hit>>

\* ... KeyLen draws.
RequestDraw(t) ==
    /\ kpc[t] = "draw"
    /\ Len(key[t]) < KeyLen
    /\ key' = [key EXCEPT ![t] = Append(@, <<seed, drawn>>)]
    /\ drawn' = drawn + 1
    /\ UNCHANGED <<keygen, offset, seed, mutex, kpc, op, want, sync, hit>>

RequestEnd(t) ==
    /\ kpc[t] = "draw"
    /\ Len(key[t]) = KeyLen
    /\ offset' = offset + KeyLen
    /\ KeyGoto(t, "unlock")
    /\ UNCHANGED <<keygen, gen, mutex, op, want, sync, key, hit>>

\* Mutant of Unlock: the mutex stays locked.
UnlockForgotten(t) ==
    /\ kpc[t] = "unlock"
    /\ KeyGoto(t, IF op[t] = "hello" THEN "born" ELSE "idle")
    /\ UNCHANGED <<keygen, offset, gen, mutex, op, want, sync, key, hit>>

\* keygen_send draws the client's keygen after it has unlocked.
Unlock(t) ==
    /\ kpc[t] = "unlock"
    /\ mutex' = NOBODY
    /\ KeyGoto(t, IF op[t] = "hello" THEN "born" ELSE "idle")
    /\ UNCHANGED <<keygen, offset, gen, op, want, sync, key, hit>>

KeyStep(t) ==
    \/ BornSeed(t) \/ BornRand(t) \/ Lock(t) \/ SetKeygen(t) \/ RequestSeed(t)
    \/ RequestSkip(t) \/ RequestDraw(t) \/ RequestEnd(t) \/ Unlock(t)

KeyNext == \E t \in Thread : Begin(t) \/ KeyStep(t)

\* Threads run on.  Who of several waiting threads gets the mutex is open.
KeySpec == KeyInit /\ [][KeyNext]_keyvars /\ \A t \in Thread : WF_keyvars(KeyStep(t))

-----------------------------------------------------------------------------
\* While a thread is in request_key, the static keygen is that of its own client
\* and no draws are skipped: the mutex keeps other clients' set_keygen away.
KeygenIsOwn ==
    \A t \in Thread :
        /\ kpc[t] \in {"seed", "skip", "draw"} => keygen = want[t]
        /\ kpc[t] \in {"seed", "skip"} => offset = 0

\* db_mutex is always released again, so messages of all clients wait for it but
\* never for good.
MutexReleased == mutex # NOBODY ~> mutex = NOBODY

RightKey(t) == [i \in 1 .. KeyLen |-> <<<<sync[t], want[t]>>, i - 1>>]

\* The key of a message is the one its sync and keygen determine, which the other
\* end draws, unless a born_sync or born_keygen of another thread fell between the
\* srand and the last rand of request_key: no order of the calls made under
\* db_mutex can spoil a key, only those two calls made outside it.
OnlyBornSpoils == \A t \in Thread : (kpc[t] = "unlock" /\ t \notin hit) => key[t] = RightKey(t)

\* "Lock! With several clients there is some chance of being scheduled" (enc_send_srv):
\* the key is always right.
KeyIsRight == \A t \in Thread : kpc[t] = "unlock" => key[t] = RightKey(t)
=============================================================================
