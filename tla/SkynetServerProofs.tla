------------------------- MODULE SkynetServerProofs -------------------------
(***************************************************************************)
(* SkynetServer proved for any number of workers, services, messages and   *)
(* sizes of rings and tables: every queue is in one place, every reference *)
(* is counted, the program ends after its last service, and the threads    *)
(* and queues implement the mailboxes of SkynetMailbox.                    *)
(***************************************************************************)
EXTENDS SkynetServer, FiniteSetTheorems, FunctionTheorems, SequenceTheorems, TLAPS

(* The control of a thread: program counters with the return points below. *)

WorkerPC == {"top", "pop", "repop", "grab", "first", "next", "length", "callback", "last",
             "put_back", "sleep", "wait", "woken", "registered", "init", "launched",
             "failed", "done"}
PC == WorkerPC \cup {"grab_dest", "push", "release", "mark", "dec", "mq_release", "drop", "update", "exit"}
SendStacks == {<<"callback">>, <<"init">>, <<"drop", "callback">>, <<"drop", "repop">>}
ReleaseStacks ==
    SendStacks \cup {<<"launched">>, <<"failed">>, <<"repop">>, <<"top">>, <<"mq_release", "callback">>}

WorkerControl(r) ==
    \/ r.pc \in WorkerPC /\ r.stk = <<>>
    \/ r.pc \in {"grab_dest", "push"} /\ r.stk \in SendStacks
    \/ r.pc \in {"release", "mark", "dec"} /\ r.stk \in ReleaseStacks
    \/ r.pc \in {"mq_release", "drop"} /\ r.stk \in {<<"callback">>, <<"repop">>}

TimerControl(r) ==
    \/ r.pc \in {"update", "exit", "done"} /\ r.stk = <<>>
    \/ r.pc \in {"grab_dest", "push", "release", "mark", "dec"} /\ r.stk = <<"update">>

Launching == {"registered", "init", "launched", "failed"}
Dispatching == {"first", "next", "length", "callback", "last", "put_back"} \cup Launching

\* The thread has a queue to release: skynet_mq_release is what it does or goes back to.
Dropping(r) ==
    r.pc \in {"mq_release", "drop"} \/ (r.stk # <<>> /\ Head(r.stk) \in {"mq_release", "drop"})

\* It has seen the mark on that queue.
InDrop(r) == r.pc = "drop" \/ (r.stk # <<>> /\ Head(r.stk) = "drop")

\* It is in delete_context.
Deleting(r) == r.pc \in {"mark", "dec"}

\* Which locals are in use where.
Locals(r) ==
    /\ r.ctx # 0 <=> Base(r) \in Dispatching
    /\ r.ctx # 0 => r.q = r.ctx
    /\ r.q # 0 => Base(r) \in Dispatching \cup {"top", "grab", "done"}
    /\ Base(r) = "grab" => r.q # 0
    /\ r.new # 0 <=> Base(r) \in Launching
    /\ r.dq # 0 <=> Dropping(r)
    /\ r.pc \in {"grab_dest", "push", "release", "mark", "dec", "put_back"} => r.obj # 0
    /\ r.pc \in {"grab_dest", "push"} => r.msg \in Message

Control ==
    /\ TimerControl(th[Timer])
    /\ \A w \in Worker : WorkerControl(th[w]) /\ (At(w, "length") => Weight[w] >= 0)
    /\ \A t \in Thread : Locals(th[t])

-----------------------------------------------------------------------------
(* Types.  A record is given by its fields. *)

ThreadRec == [pc : PC, stk : Seq(PC), q : {0} \cup Handle, ctx : {0} \cup Handle, left : Int,
              obj : {0} \cup Handle, msg : Message \cup {None}, new : {0} \cup Handle,
              dq : {0} \cup Handle]

Cell == Message \cup {None, NoMessage}
Ring == [cap : Nat, head : Nat, tail : Nat, queue : UNION {[0 .. n - 1 -> Cell] : n \in Nat}]
RingShape(r) ==
    /\ r \in Ring
    /\ r.cap \in Nat \ {0}
    /\ r.head \in 0 .. r.cap - 1 /\ r.tail \in 0 .. r.cap - 1
    /\ r.queue \in [0 .. r.cap - 1 -> Cell]

\* What is in a ring is messages.
RingOK(r) == RingShape(r) /\ Contents(r) \in Seq(Message)

QueueOK(m) ==
    /\ m = [ring |-> m.ring, in_global |-> m.in_global, release |-> m.release, freed |-> m.freed]
    /\ m.in_global \in BOOLEAN /\ m.release \in BOOLEAN /\ m.freed \in BOOLEAN
    /\ RingOK(m.ring)
    /\ m.freed => m = NoQueue

Typed ==
    /\ known \subseteq Handle
    /\ ref \in [Handle -> Nat]
    /\ mq \in [Handle -> {mq[h] : h \in Handle}]
    /\ \A h \in Handle : QueueOK(mq[h])
    /\ gq \in Seq(Handle)
    /\ total \in Nat /\ quit \in BOOLEAN /\ sent \in 0 .. MaxMessage
    /\ th \in [Thread -> ThreadRec]

\* A handle is in at most one slot, and those not given yet are the ones from index on.
Storage ==
    /\ H = [size |-> H.size, index |-> H.index, slot |-> H.slot, clash |-> H.clash]
    /\ H.size \in Nat \ {0} /\ H.index \in Nat \ {0} /\ H.clash \in BOOLEAN
    /\ H.slot \in [0 .. H.size - 1 -> {0} \cup Handle]
    /\ \A i, j \in 0 .. H.size - 1 : (H.slot[i] = H.slot[j] /\ H.slot[i] # 0) => i = j
    /\ \A h \in Handle : h >= H.index => h \notin known /\ h \notin Contexts(H) /\ ref[h] = 0

-----------------------------------------------------------------------------
(* The life of a service. *)

\* A context has its queue from the time its handle is set, and while it is referred
\* to nobody marks that queue.  Until its handle is set only its launcher has it.
Life ==
    \A h \in Handle :
        /\ h \notin known => mq[h].freed
        /\ (h \in known /\ ref[h] > 0) => ~mq[h].freed /\ ~mq[h].release
        /\ (h \notin known /\ ref[h] > 0) => \E t \in Thread : At(t, "registered") /\ th[t].new = h

\* What a thread with locals r uses has its handle set, and what it deletes has no
\* reference left; K, R and Q are known, ref and mq.
UsesOf(r, K, R, Q) ==
    /\ r.ctx # 0 => r.ctx \in K
    /\ r.pc \in {"push", "release", "mark", "dec"} => r.obj \in K
    /\ r.new # 0 => (r.new \in K <=> r.pc # "registered")
    /\ Deleting(r) => R[r.obj] = 0
    /\ r.pc = "mark" => ~Q[r.obj].freed /\ ~Q[r.obj].release
    /\ InDrop(r) => Q[r.dq].release

Uses ==
    /\ \A t \in Thread : UsesOf(th[t], known, ref, mq)
    /\ \A t, u \in Thread :
        (Deleting(th[t]) /\ Deleting(th[u]) /\ th[t].obj = th[u].obj) => t = u
    /\ \A t, u \in Thread :
        (At(t, "registered") /\ At(u, "registered") /\ th[t].new = th[u].new) => t = u

\* The services G_NODE.total counts: made and not yet deleted.
Counted ==
    {h \in Handle : \/ h \in known /\ ref[h] > 0
                    \/ \E t \in Thread : Deleting(th[t]) /\ th[t].obj = h}

Totals ==
    /\ total = Cardinality(Counted)
    /\ quit \/ At(Timer, "exit") => total = 0

IInv ==
    /\ Typed /\ Control /\ Storage /\ Life /\ Uses
    /\ RefCounts /\ QueueInOnePlace /\ Totals

-----------------------------------------------------------------------------
(* Counting. *)

\* How many references to h a thread with locals r has, and how many places for its
\* queue.
One(b) == IF b THEN 1 ELSE 0
RefsOf(r, h) ==
    One(r.ctx = h) + One(r.obj = h /\ r.pc \in {"push", "release"})
        + One(r.new = h /\ Base(r) \in {"registered", "init"})
PlacesOf(r, h) ==
    One(r.q = h) + One(r.pc = "put_back" /\ r.obj = h) + One(r.dq = h)
        + One(r.new = h /\ r.pc # "registered")

LEMMA ThreadsFinite == IsFiniteSet(Thread)
  BY ServerAssumption, FS_AddElement DEF Thread

\* A set of threads of which one joins or leaves.
LEMMA OneThread ==
    ASSUME NEW S \in SUBSET Thread, NEW T \in SUBSET Thread, NEW t \in Thread,
           \A u \in Thread \ {t} : u \in S <=> u \in T
    PROVE  /\ Cardinality(S) \in Nat /\ Cardinality(T) \in Nat
           /\ Cardinality(T) = Cardinality(S) + One(t \in T) - One(t \in S)
<1>1. IsFiniteSet(S) /\ IsFiniteSet(T)
  BY ThreadsFinite, FS_Subset
<1>2. Cardinality(S) \in Nat /\ Cardinality(T) \in Nat
  BY <1>1, FS_CardinalityType
<1>3. S \ {t} = T \ {t}
  OBVIOUS
<1>4. /\ Cardinality(S \ {t}) = IF t \in S THEN Cardinality(S) - 1 ELSE Cardinality(S)
      /\ Cardinality(T \ {t}) = IF t \in T THEN Cardinality(T) - 1 ELSE Cardinality(T)
  BY <1>1, FS_RemoveElement
<1>5. /\ Cardinality(S \ {t}) = Cardinality(T \ {t})
      /\ One(t \in S) = IF t \in S THEN 1 ELSE 0
      /\ One(t \in T) = IF t \in T THEN 1 ELSE 0
  BY <1>3 DEF One
<1> QED
  BY <1>2, <1>4, <1>5

LEMMA Tagged ==
    ASSUME NEW S, IsFiniteSet(S), NEW a
    PROVE  IsFiniteSet({a} \X S) /\ Cardinality({a} \X S) = Cardinality(S)
<1>1. IsFiniteSet({a}) /\ Cardinality({a}) = 1
  BY FS_Singleton
<1>2. Cardinality(S) \in Nat
  BY FS_CardinalityType
<1> QED
  BY <1>1, <1>2, FS_Product

LEMMA Disjoint ==
    ASSUME NEW S, IsFiniteSet(S), NEW T, IsFiniteSet(T), S \cap T = {}
    PROVE  IsFiniteSet(S \cup T) /\ Cardinality(S \cup T) = Cardinality(S) + Cardinality(T)
<1>1. Cardinality(S) \in Nat /\ Cardinality(T) \in Nat /\ Cardinality({}) = 0
  BY FS_CardinalityType, FS_EmptySet
<1>2. /\ IsFiniteSet(S \cup T)
      /\ Cardinality(S \cup T) = Cardinality(S) + Cardinality(T) - Cardinality(S \cap T)
  BY FS_Union
<1>3. Cardinality(S \cap T) = 0
  BY <1>1
<1> QED
  BY <1>1, <1>2, <1>3

LEMMA TwoMembers ==
    ASSUME NEW S, IsFiniteSet(S), NEW x \in S, NEW y \in S, x # y
    PROVE  Cardinality(S) >= 2
<1>1. IsFiniteSet({x}) /\ Cardinality({x}) = 1 /\ IsFiniteSet({y}) /\ Cardinality({y}) = 1
  BY FS_Singleton
<1>2. Cardinality({x} \cup {y}) = 1 + 1
  BY <1>1, Disjoint
<1>3. {x} \cup {y} \subseteq S /\ Cardinality(S) \in Nat
  BY FS_CardinalityType
<1> QED
  BY <1>2, <1>3, FS_Subset

-----------------------------------------------------------------------------
(* Rings *)

LEMMA RingLengthInt ==
    ASSUME NEW r, RingShape(r)
    PROVE  RingLength(r) \in Nat /\ RingLength(r) < r.cap
  BY DEF RingShape, RingLength

\* Where the i-th message is.
LEMMA CellIndex ==
    ASSUME NEW c \in Nat \ {0}, NEW h \in 0 .. c - 1, NEW i \in 1 .. c
    PROVE  /\ (h + i - 1) % c = IF h + i - 1 < c THEN h + i - 1 ELSE h + i - 1 - c
           /\ (h + i - 1) % c \in 0 .. c - 1
<1>1. CASE h + i - 1 < c
  BY <1>1
<1>2. CASE h + i - 1 >= c
  BY <1>2
<1> QED
  BY <1>1, <1>2

LEMMA ContentsSeq ==
    ASSUME NEW r, RingShape(r)
    PROVE  /\ Contents(r) \in Seq(Cell) /\ Len(Contents(r)) = RingLength(r)
           /\ \A i \in 1 .. RingLength(r) : Contents(r)[i] = r.queue[(r.head + i - 1) % r.cap]
<1>1. RingLength(r) \in Nat /\ RingLength(r) < r.cap
  BY RingLengthInt
<1>2. \A i \in 1 .. RingLength(r) : r.queue[(r.head + i - 1) % r.cap] \in Cell
  <2> TAKE i \in 1 .. RingLength(r)
  <2>1. r.cap \in Nat \ {0} /\ r.head \in 0 .. r.cap - 1 /\ i \in 1 .. r.cap
    BY <1>1 DEF RingShape
  <2>2. (r.head + i - 1) % r.cap \in 0 .. r.cap - 1
    BY <2>1, CellIndex
  <2> QED
    BY <2>2 DEF RingShape
<1> QED
  BY <1>1, <1>2 DEF Contents

\* The oldest message is taken.
LEMMA PopContents ==
    ASSUME NEW r, RingShape(r), RingLength(r) > 0
    PROVE  /\ RingShape(RingPop(r)) /\ Contents(RingPop(r)) = Tail(Contents(r))
           /\ Contents(r) # <<>> /\ RingHead(r) = Head(Contents(r))
<1> DEFINE k == IF r.head + 1 >= r.cap THEN 0 ELSE r.head + 1
           q == [r.queue EXCEPT ![r.head] = NoMessage]
           p == [r EXCEPT !.queue = q, !.head = k]
           n == RingLength(r)
<1>1. /\ k \in 0 .. r.cap - 1 /\ k \in Nat
      /\ q \in [0 .. r.cap - 1 -> Cell]
      /\ q \in UNION {[0 .. m - 1 -> Cell] : m \in Nat}
      /\ \A j \in 0 .. r.cap - 1 : j # r.head => q[j] = r.queue[j]
  BY DEF RingShape, Cell
<1>2. RingPop(r) = p
  BY DEF RingPop
<1>3. k = IF r.head + 1 >= r.cap THEN 0 ELSE r.head + 1
  OBVIOUS
<1> HIDE DEF k, q
<1>4. p \in Ring /\ p.cap = r.cap /\ p.head = k /\ p.tail = r.tail /\ p.queue = q
  BY <1>1 DEF Ring, RingShape
<1> HIDE DEF p
<1>5. RingShape(p)
  BY <1>1, <1>4 DEF RingShape
<1>6. n \in Nat /\ n < r.cap /\ n > 0
  BY RingLengthInt
<1>7. RingLength(p) = n - 1
  BY <1>3, <1>4 DEF RingLength, RingShape
<1> HIDE DEF n
<1>8. /\ Contents(r) \in Seq(Cell) /\ Len(Contents(r)) = n
      /\ \A i \in 1 .. n : Contents(r)[i] = r.queue[(r.head + i - 1) % r.cap]
  BY ContentsSeq DEF n
<1>9. /\ Contents(p) \in Seq(Cell) /\ Len(Contents(p)) = n - 1
      /\ \A i \in 1 .. n - 1 : Contents(p)[i] = q[(k + i - 1) % r.cap]
  BY <1>4, <1>5, <1>7, ContentsSeq
<1>10. \A i \in 1 .. n - 1 : q[(k + i - 1) % r.cap] = r.queue[(r.head + (i + 1) - 1) % r.cap]
  <2> SUFFICES ASSUME NEW i \in 1 .. n - 1
               PROVE  q[(k + i - 1) % r.cap] = r.queue[(r.head + (i + 1) - 1) % r.cap]
    OBVIOUS
  <2> DEFINE a == (k + i - 1) % r.cap
             b == (r.head + (i + 1) - 1) % r.cap
  <2>1. r.cap \in Nat \ {0} /\ r.head \in 0 .. r.cap - 1 /\ i \in 1 .. r.cap /\ i + 1 \in 1 .. r.cap
    BY <1>6 DEF RingShape
  <2>2. a = IF k + i - 1 < r.cap THEN k + i - 1 ELSE k + i - 1 - r.cap
    BY <1>1, <2>1, CellIndex
  <2>3. b = IF r.head + (i + 1) - 1 < r.cap THEN r.head + (i + 1) - 1 ELSE r.head + (i + 1) - 1 - r.cap
    BY <2>1, CellIndex
  <2>4. a = b /\ b # r.head /\ b \in 0 .. r.cap - 1
    <3> HIDE DEF a, b
    <3> QED
      BY <1>3, <1>6, <2>1, <2>2, <2>3
  <2> QED
    BY <1>1, <2>4
<1>11. Contents(p) = Tail(Contents(r))
  <2>1. Tail(Contents(r)) \in Seq(Cell) /\ Len(Tail(Contents(r))) = n - 1
    BY <1>6, <1>8
  <2>2. \A i \in 1 .. n - 1 : Tail(Contents(r))[i] = Contents(r)[i + 1]
    BY <1>6, <1>8
  <2>3. ASSUME NEW i \in 1 .. n - 1 PROVE Contents(p)[i] = Tail(Contents(r))[i]
    <3>1. i + 1 \in 1 .. n
      BY <1>6
    <3>2. Contents(r)[i + 1] = r.queue[(r.head + (i + 1) - 1) % r.cap]
      BY <1>8, <3>1
    <3> QED
      BY <1>9, <1>10, <2>2, <3>2
  <2> QED
    BY <1>9, <2>1, <2>3, SeqEqual
<1>12. Contents(r) # <<>> /\ RingHead(r) = Head(Contents(r))
  <2>1. r.cap \in Nat \ {0} /\ r.head \in 0 .. r.cap - 1 /\ 1 \in 1 .. r.cap /\ r.head + 1 - 1 < r.cap
    BY DEF RingShape
  <2>2. (r.head + 1 - 1) % r.cap = r.head + 1 - 1
    BY <2>1, CellIndex
  <2>3. (r.head + 1 - 1) % r.cap = r.head
    BY <2>1, <2>2
  <2> QED
    BY <1>6, <1>8, <2>3 DEF RingHead
<1> QED
  BY <1>2, <1>5, <1>11, <1>12

\* A message is added, in a buffer that is doubled when it is full.
LEMMA PushContents ==
    ASSUME NEW r, RingShape(r), NEW m \in Cell
    PROVE  RingShape(RingPush(r, m)) /\ Contents(RingPush(r, m)) = Append(Contents(r), m)
<1> DEFINE k == IF r.tail + 1 >= r.cap THEN 0 ELSE r.tail + 1
           q == [r.queue EXCEPT ![r.tail] = m]
           s == [r EXCEPT !.queue = q, !.tail = k]
           n == RingLength(r)
<1>1. /\ k \in 0 .. r.cap - 1 /\ k \in Nat
      /\ q \in [0 .. r.cap - 1 -> Cell]
      /\ q \in UNION {[0 .. j - 1 -> Cell] : j \in Nat}
      /\ \A j \in 0 .. r.cap - 1 : j # r.tail => q[j] = r.queue[j]
      /\ q[r.tail] = m
  BY DEF RingShape
<1>2. RingPush(r, m) = IF s.head = s.tail THEN expand_queue(s) ELSE s
  BY DEF RingPush
<1>3. k = IF r.tail + 1 >= r.cap THEN 0 ELSE r.tail + 1
  OBVIOUS
<1> HIDE DEF k, q
<1>4. s \in Ring /\ s.cap = r.cap /\ s.head = r.head /\ s.tail = k /\ s.queue = q
  BY <1>1 DEF Ring, RingShape
<1> HIDE DEF s
<1>5. RingShape(s)
  BY <1>1, <1>4 DEF RingShape
<1>6. n \in Nat /\ n < r.cap
  BY RingLengthInt
<1>7. n = IF r.head <= r.tail THEN r.tail - r.head ELSE r.tail + r.cap - r.head
  BY DEF RingLength
<1> HIDE DEF n
<1>8. /\ Contents(r) \in Seq(Cell) /\ Len(Contents(r)) = n
      /\ \A i \in 1 .. n : Contents(r)[i] = r.queue[(r.head + i - 1) % r.cap]
  BY ContentsSeq DEF n
<1>9. r.cap \in Nat \ {0} /\ r.head \in 0 .. r.cap - 1 /\ r.tail \in 0 .. r.cap - 1
  BY DEF RingShape
\* The cells of the old messages are left alone, and the next one is the tail.
<1>10. /\ \A i \in 1 .. n : q[(r.head + i - 1) % r.cap] = r.queue[(r.head + i - 1) % r.cap]
       /\ q[(r.head + (n + 1) - 1) % r.cap] = m
  <2>1. ASSUME NEW i \in 1 .. n
        PROVE  q[(r.head + i - 1) % r.cap] = r.queue[(r.head + i - 1) % r.cap]
    <3> DEFINE a == (r.head + i - 1) % r.cap
    <3>1. i \in 1 .. r.cap
      BY <1>6, <1>9
    <3>2. /\ a = IF r.head + i - 1 < r.cap THEN r.head + i - 1 ELSE r.head + i - 1 - r.cap
          /\ a \in 0 .. r.cap - 1
      BY <1>9, <3>1, CellIndex
    <3>3. a # r.tail
      <4> HIDE DEF a
      <4> QED
        BY <1>6, <1>7, <1>9, <3>1, <3>2
    <3> QED
      BY <1>1, <3>2, <3>3
  <2>2. (r.head + (n + 1) - 1) % r.cap = r.tail
    <3> DEFINE a == (r.head + (n + 1) - 1) % r.cap
    <3>1. n + 1 \in 1 .. r.cap
      BY <1>6, <1>9
    <3>2. a = IF r.head + (n + 1) - 1 < r.cap THEN r.head + (n + 1) - 1 ELSE r.head + (n + 1) - 1 - r.cap
      BY <1>9, <3>1, CellIndex
    <3> HIDE DEF a
    <3>3. a = r.tail
      BY <1>6, <1>7, <1>9, <3>2
    <3> QED
      BY <3>3 DEF a
  <2> QED
    BY <1>1, <2>1, <2>2
<1>11. ASSUME NEW p, RingShape(p), RingLength(p) = n + 1,
              \A i \in 1 .. n + 1 : p.queue[(p.head + i - 1) % p.cap] = q[(r.head + i - 1) % r.cap]
       PROVE  Contents(p) = Append(Contents(r), m)
  <2>1. /\ Contents(p) \in Seq(Cell) /\ Len(Contents(p)) = n + 1
        /\ \A i \in 1 .. n + 1 : Contents(p)[i] = q[(r.head + i - 1) % r.cap]
    BY <1>11, ContentsSeq
  <2>2. /\ Append(Contents(r), m) \in Seq(Cell) /\ Len(Append(Contents(r), m)) = n + 1
        /\ \A i \in 1 .. n : Append(Contents(r), m)[i] = Contents(r)[i]
        /\ Append(Contents(r), m)[n + 1] = m
    BY <1>6, <1>8
  <2>3. \A i \in 1 .. n : Contents(p)[i] = Append(Contents(r), m)[i]
    <3> TAKE i \in 1 .. n
    <3>1. i \in 1 .. n + 1
      BY <1>6
    <3>2. Contents(p)[i] = q[(r.head + i - 1) % r.cap]
      BY <2>1, <3>1
    <3>3. Contents(r)[i] = r.queue[(r.head + i - 1) % r.cap]
      BY <1>8
    <3>4. q[(r.head + i - 1) % r.cap] = r.queue[(r.head + i - 1) % r.cap]
      BY <1>10
    <3> QED
      BY <2>2, <3>2, <3>3, <3>4
  <2>4. Contents(p)[n + 1] = m
    BY <1>6, <1>10, <2>1
  <2>5. \A i \in 1 .. n + 1 : Contents(p)[i] = Append(Contents(r), m)[i]
    BY <1>6, <2>2, <2>3, <2>4
  <2> QED
    BY <2>1, <2>2, <2>5, SeqEqual
<1>12. CASE s.head # s.tail
  <2>1. RingLength(s) = n + 1
    BY <1>3, <1>4, <1>7, <1>9, <1>12 DEF RingLength
  <2>2. Contents(s) = Append(Contents(r), m)
    BY <1>4, <1>5, <1>11, <2>1
  <2> QED
    BY <1>2, <1>5, <1>12, <2>2
<1>13. CASE s.head = s.tail
  <2> DEFINE c == 2 * r.cap
             f == [i \in 0 .. c - 1 |-> IF i < r.cap THEN q[(r.head + i) % r.cap] ELSE NoMessage]
             p == [cap |-> c, head |-> 0, tail |-> r.cap, queue |-> f]
  <2>1. expand_queue(s) = p
    BY <1>4 DEF expand_queue
  <2>2. c \in Nat \ {0} /\ r.cap \in 0 .. c - 1 /\ c > r.cap
    BY <1>9
  <2> HIDE DEF c
  <2>3. \A i \in 0 .. r.cap - 1 : (r.head + i) % r.cap \in 0 .. r.cap - 1
    BY <1>9
  <2>4. f \in [0 .. c - 1 -> Cell]
    <3>1. ASSUME NEW i \in 0 .. c - 1
          PROVE  (IF i < r.cap THEN q[(r.head + i) % r.cap] ELSE NoMessage) \in Cell
      <4>1. CASE i < r.cap
        <5>1. (r.head + i) % r.cap \in 0 .. r.cap - 1
          BY <1>9, <2>2, <2>3, <4>1
        <5> QED
          BY <1>1, <4>1, <5>1
      <4>2. CASE ~(i < r.cap)
        BY <4>2 DEF Cell
      <4> QED
        BY <4>1, <4>2
    <3> QED
      BY <3>1
  <2>5. f \in UNION {[0 .. j - 1 -> Cell] : j \in Nat}
    BY <2>2, <2>4
  <2>6. \A i \in 0 .. r.cap - 1 : f[i] = q[(r.head + i) % r.cap]
    BY <1>9, <2>2
  <2> HIDE DEF f
  <2>7. p.cap = c /\ p.head = 0 /\ p.tail = r.cap /\ p.queue = f /\ p \in Ring
    BY <1>9, <2>2, <2>5 DEF Ring
  <2> HIDE DEF p
  <2>8. RingShape(p)
    BY <1>9, <2>2, <2>4, <2>7 DEF RingShape
  <2>9. n + 1 = r.cap
    BY <1>3, <1>4, <1>6, <1>7, <1>9, <1>13
  <2>10. RingLength(p) = n + 1
    BY <1>9, <2>7, <2>9 DEF RingLength
  <2>11. \A i \in 1 .. n + 1 : p.queue[(p.head + i - 1) % p.cap] = q[(r.head + i - 1) % r.cap]
    <3> SUFFICES ASSUME NEW i \in 1 .. n + 1
                 PROVE  f[(0 + i - 1) % c] = q[(r.head + i - 1) % r.cap]
      BY <2>7
    <3>1. i \in 1 .. r.cap /\ i - 1 \in 0 .. r.cap - 1 /\ i - 1 < c /\ r.head + (i - 1) = r.head + i - 1
      BY <1>9, <2>2, <2>9
    <3>2. (0 + i - 1) % c = i - 1
      BY <2>2, <3>1
    <3>3. f[i - 1] = q[(r.head + (i - 1)) % r.cap]
      BY <2>6, <3>1
    <3> QED
      BY <3>1, <3>2, <3>3
  <2>12. Contents(p) = Append(Contents(r), m)
    BY <1>11, <2>8, <2>10, <2>11
  <2> QED
    BY <1>2, <1>13, <2>1, <2>8, <2>12
<1> QED
  BY <1>12, <1>13

-----------------------------------------------------------------------------
(* References *)

DispatchRefs(h) == {t \in Thread : th[t].ctx = h}
CallRefs(h) == {t \in Thread : th[t].obj = h /\ th[t].pc \in {"push", "release"}}
LaunchRefs(h) == {t \in Thread : th[t].new = h /\ Base(th[t]) \in {"registered", "init"}}
SlotRefs(h) == {c \in Contexts(H) : c = h}

\* The references are counted by kind.
RefsByKind ==
    \A h : /\ IsFiniteSet(Holders(h))
           /\ Cardinality(Holders(h)) = Cardinality(DispatchRefs(h)) + Cardinality(CallRefs(h))
                    + Cardinality(LaunchRefs(h)) + One(h \in Contexts(H))
LEMMA HoldersSum == RefsByKind
<1> SUFFICES ASSUME NEW h
             PROVE  /\ IsFiniteSet(Holders(h))
                    /\ Cardinality(Holders(h)) = Cardinality(DispatchRefs(h)) + Cardinality(CallRefs(h))
                            + Cardinality(LaunchRefs(h)) + One(h \in Contexts(H))
  BY DEF RefsByKind
<1> DEFINE A == {"dispatch"} \X DispatchRefs(h)
           B == {"call"} \X CallRefs(h)
           C == {"launch"} \X LaunchRefs(h)
           D == {"slot"} \X SlotRefs(h)
<1>1. IsFiniteSet(DispatchRefs(h)) /\ IsFiniteSet(CallRefs(h)) /\ IsFiniteSet(LaunchRefs(h))
  BY ThreadsFinite, FS_Subset DEF DispatchRefs, CallRefs, LaunchRefs
<1>2. IsFiniteSet(SlotRefs(h)) /\ Cardinality(SlotRefs(h)) = One(h \in Contexts(H))
  <2>1. CASE h \in Contexts(H)
    <3>1. SlotRefs(h) = {h}
      BY <2>1 DEF SlotRefs
    <3> QED
      BY <2>1, <3>1, FS_Singleton DEF One
  <2>2. CASE h \notin Contexts(H)
    <3>1. SlotRefs(h) = {}
      BY <2>2 DEF SlotRefs
    <3> QED
      BY <2>2, <3>1, FS_EmptySet DEF One
  <2> QED
    BY <2>1, <2>2
<1>3. /\ IsFiniteSet(A) /\ IsFiniteSet(B) /\ IsFiniteSet(C) /\ IsFiniteSet(D)
      /\ Cardinality(A) = Cardinality(DispatchRefs(h)) /\ Cardinality(B) = Cardinality(CallRefs(h))
      /\ Cardinality(C) = Cardinality(LaunchRefs(h)) /\ Cardinality(D) = One(h \in Contexts(H))
  BY <1>1, <1>2, Tagged
<1>4. /\ A \cap B = {} /\ (A \cup B) \cap C = {} /\ (A \cup B \cup C) \cap D = {}
  OBVIOUS
<1>5. IsFiniteSet(A \cup B) /\ Cardinality(A \cup B) = Cardinality(A) + Cardinality(B)
  BY <1>3, <1>4, Disjoint
<1>6. /\ IsFiniteSet(A \cup B \cup C)
      /\ Cardinality(A \cup B \cup C) = Cardinality(A \cup B) + Cardinality(C)
  BY <1>3, <1>4, <1>5, Disjoint
<1>7. /\ IsFiniteSet(A \cup B \cup C \cup D)
      /\ Cardinality(A \cup B \cup C \cup D) = Cardinality(A \cup B \cup C) + Cardinality(D)
  BY <1>3, <1>4, <1>6, Disjoint
<1>8. Holders(h) = A \cup B \cup C \cup D
  BY DEF Holders, DispatchRefs, CallRefs, LaunchRefs, SlotRefs
<1> QED
  BY <1>3, <1>5, <1>6, <1>7, <1>8

\* A step of one thread changes the number of references by what it gives up and
\* takes, and by what happens in the handle storage.
LEMMA HoldersStep ==
    ASSUME Typed, NEW t \in Thread, NEW r \in ThreadRec, th' = [th EXCEPT ![t] = r], NEW h
    PROVE  /\ Cardinality(Holders(h)) \in Nat
           /\ Cardinality(Holders(h))' = Cardinality(Holders(h)) + RefsOf(r, h) - RefsOf(th[t], h)
                                         + One(h \in Contexts(H)') - One(h \in Contexts(H))
<1>1. th'[t] = r /\ \A u \in Thread \ {t} : th'[u] = th[u]
  BY DEF Typed
<1> DEFINE a == Cardinality(DispatchRefs(h))
           b == Cardinality(CallRefs(h))
           c == Cardinality(LaunchRefs(h))
<1>2. /\ a \in Nat /\ a' \in Nat
      /\ a' = a + One(r.ctx = h) - One(th[t].ctx = h)
  <2>1. /\ DispatchRefs(h) \in SUBSET Thread /\ DispatchRefs(h)' \in SUBSET Thread
        /\ \A u \in Thread \ {t} : u \in DispatchRefs(h) <=> u \in DispatchRefs(h)'
        /\ t \in DispatchRefs(h) <=> th[t].ctx = h
        /\ t \in DispatchRefs(h)' <=> r.ctx = h
    BY <1>1 DEF DispatchRefs
  <2> QED
    BY <2>1, OneThread DEF One
<1>3. /\ b \in Nat /\ b' \in Nat
      /\ b' = b + One(r.obj = h /\ r.pc \in {"push", "release"})
                - One(th[t].obj = h /\ th[t].pc \in {"push", "release"})
  <2>1. /\ CallRefs(h) \in SUBSET Thread /\ CallRefs(h)' \in SUBSET Thread
        /\ \A u \in Thread \ {t} : u \in CallRefs(h) <=> u \in CallRefs(h)'
        /\ t \in CallRefs(h) <=> (th[t].obj = h /\ th[t].pc \in {"push", "release"})
        /\ t \in CallRefs(h)' <=> (r.obj = h /\ r.pc \in {"push", "release"})
    BY <1>1 DEF CallRefs
  <2> QED
    BY <2>1, OneThread DEF One
<1>4. /\ c \in Nat /\ c' \in Nat
      /\ c' = c + One(r.new = h /\ Base(r) \in {"registered", "init"})
                - One(th[t].new = h /\ Base(th[t]) \in {"registered", "init"})
  <2>1. /\ LaunchRefs(h) \in SUBSET Thread /\ LaunchRefs(h)' \in SUBSET Thread
        /\ \A u \in Thread \ {t} : u \in LaunchRefs(h) <=> u \in LaunchRefs(h)'
        /\ t \in LaunchRefs(h) <=> (th[t].new = h /\ Base(th[t]) \in {"registered", "init"})
        /\ t \in LaunchRefs(h)' <=> (r.new = h /\ Base(r) \in {"registered", "init"})
    BY <1>1 DEF LaunchRefs
  <2> QED
    BY <2>1, OneThread DEF One
<1>5. Cardinality(Holders(h)) = a + b + c + One(h \in Contexts(H))
  BY HoldersSum DEF RefsByKind
<1>6. Cardinality(Holders(h))' = a' + b' + c' + One(h \in Contexts(H)')
  <2>1. RefsByKind'
    BY HoldersSum, PTL
  <2> QED
    BY <2>1 DEF RefsByKind
<1> QED
  BY <1>2, <1>3, <1>4, <1>5, <1>6 DEF RefsOf, One

\* A thread's references and the storage's are among those counted.
LEMMA RefsAtLeast ==
    ASSUME NEW t \in Thread, NEW h
    PROVE  /\ Cardinality(Holders(h)) \in Nat
           /\ Cardinality(Holders(h)) >= RefsOf(th[t], h) + One(h \in Contexts(H))
<1>1. /\ DispatchRefs(h) \in SUBSET Thread /\ DispatchRefs(h) \ {t} \in SUBSET Thread
      /\ CallRefs(h) \in SUBSET Thread /\ CallRefs(h) \ {t} \in SUBSET Thread
      /\ LaunchRefs(h) \in SUBSET Thread /\ LaunchRefs(h) \ {t} \in SUBSET Thread
  BY DEF DispatchRefs, CallRefs, LaunchRefs
<1>2. \A S \in SUBSET Thread : Cardinality(S) \in Nat /\ Cardinality(S) >= One(t \in S)
  <2> SUFFICES ASSUME NEW S \in SUBSET Thread
               PROVE  Cardinality(S) \in Nat /\ Cardinality(S) >= One(t \in S)
    OBVIOUS
  <2>1. /\ S \ {t} \in SUBSET Thread /\ t \notin S \ {t}
        /\ \A u \in Thread \ {t} : u \in S \ {t} <=> u \in S
    OBVIOUS
  <2>2. /\ Cardinality(S) \in Nat /\ Cardinality(S \ {t}) \in Nat
        /\ Cardinality(S) = Cardinality(S \ {t}) + One(t \in S) - One(t \in S \ {t})
    BY <2>1, OneThread
  <2> QED
    BY <2>1, <2>2 DEF One
<1>3. /\ t \in DispatchRefs(h) <=> th[t].ctx = h
      /\ t \in CallRefs(h) <=> (th[t].obj = h /\ th[t].pc \in {"push", "release"})
      /\ t \in LaunchRefs(h) <=> (th[t].new = h /\ Base(th[t]) \in {"registered", "init"})
  BY DEF DispatchRefs, CallRefs, LaunchRefs
<1>4. Cardinality(Holders(h)) = Cardinality(DispatchRefs(h)) + Cardinality(CallRefs(h))
          + Cardinality(LaunchRefs(h)) + One(h \in Contexts(H))
  BY HoldersSum DEF RefsByKind
<1> QED
  BY <1>1, <1>2, <1>3, <1>4 DEF RefsOf, One

-----------------------------------------------------------------------------
(* Places *)

WorkerPlaces(h) == {t \in Thread : th[t].q = h}
NextPlaces(h) == {t \in Thread : At(t, "put_back") /\ th[t].obj = h}
DropPlaces(h) == {t \in Thread : th[t].dq = h}
LaunchPlaces(h) == {t \in Thread : th[t].new = h /\ ~At(t, "registered")}
Positions(s, h) == {i \in 1 .. Len(s) : s[i] = h}
Waiting(s, h) == Cardinality(Positions(s, h))

LEMMA PositionsFinite ==
    ASSUME NEW s \in Seq(Handle), NEW h
    PROVE  IsFiniteSet(Positions(s, h)) /\ Waiting(s, h) \in Nat
<1>1. IsFiniteSet(1 .. Len(s))
  BY FS_Interval
<1> QED
  BY <1>1, FS_Subset, FS_CardinalityType DEF Positions, Waiting

\* How often h waits in the global queue, when one is put there and when one is taken.
LEMMA WaitingAppend ==
    ASSUME NEW s \in Seq(Handle), NEW x \in Handle, NEW h
    PROVE  Waiting(Append(s, x), h) = Waiting(s, h) + One(x = h)
<1> DEFINE n == Len(s) + 1
<1>1. /\ n \notin Positions(s, h)
      /\ Positions(Append(s, x), h) = IF x = h THEN Positions(s, h) \cup {n} ELSE Positions(s, h)
  BY DEF Positions
<1>2. Cardinality(Positions(s, h) \cup {n}) = Cardinality(Positions(s, h)) + 1
  BY <1>1, PositionsFinite, FS_AddElement
<1> QED
  BY <1>1, <1>2, PositionsFinite DEF One, Waiting

LEMMA WaitingTail ==
    ASSUME NEW s \in Seq(Handle), s # <<>>, NEW h
    PROVE  Waiting(s, h) = Waiting(Tail(s), h) + One(Head(s) = h)
<1> DEFINE P == Positions(s, h) \ {1}
           Q == Positions(Tail(s), h)
           f == [j \in Q |-> j + 1]
<1>1. Tail(s) \in Seq(Handle) /\ Len(Tail(s)) = Len(s) - 1 /\ Len(s) \in Nat /\ Len(s) >= 1
  OBVIOUS
<1>2. \A j \in 1 .. Len(s) - 1 : Tail(s)[j] = s[j + 1]
  BY <1>1
<1>3. f \in Bijection(Q, P)
  <2>1. \A j \in Q : f[j] \in P
    BY <1>1, <1>2 DEF Positions
  <2>2. \A j, k \in Q : f[j] = f[k] => j = k
    BY DEF Positions
  <2>3. \A i \in P : \E j \in Q : f[j] = i
    <3> TAKE i \in P
    <3>1. i - 1 \in Q /\ f[i - 1] = i
      BY <1>1, <1>2 DEF Positions
    <3> QED
      BY <3>1
  <2> QED
    BY <2>1, <2>2, <2>3, Fun_IsBij
<1>4. IsFiniteSet(P) /\ IsFiniteSet(Q)
  BY <1>1, PositionsFinite, FS_Subset
<1>5. Cardinality(P) = Cardinality(Q)
  BY <1>3, <1>4, FS_Bijection DEF ExistsBijection
<1>6. 1 \in Positions(s, h) <=> Head(s) = h
  BY <1>1 DEF Positions
<1>7. Cardinality(P) = IF 1 \in Positions(s, h) THEN Waiting(s, h) - 1 ELSE Waiting(s, h)
  BY PositionsFinite, FS_RemoveElement DEF Waiting
<1>8. Waiting(s, h) \in Nat /\ Waiting(Tail(s), h) \in Nat
  BY <1>1, PositionsFinite
<1>9. One(Head(s) = h) = IF 1 \in Positions(s, h) THEN 1 ELSE 0
  BY <1>6 DEF One
<1> QED
  BY <1>5, <1>7, <1>8, <1>9 DEF Waiting

\* The places are counted by kind.
PlacesByKind ==
    gq \in Seq(Handle) =>
        \A h : /\ IsFiniteSet(Places(h))
               /\ Cardinality(Places(h)) = Waiting(gq, h) + Cardinality(WorkerPlaces(h))
                        + Cardinality(NextPlaces(h)) + Cardinality(DropPlaces(h))
                        + Cardinality(LaunchPlaces(h))
LEMMA PlacesSum == PlacesByKind
<1> SUFFICES ASSUME gq \in Seq(Handle), NEW h
             PROVE  /\ IsFiniteSet(Places(h))
                    /\ Cardinality(Places(h)) = Waiting(gq, h) + Cardinality(WorkerPlaces(h))
                            + Cardinality(NextPlaces(h)) + Cardinality(DropPlaces(h))
                            + Cardinality(LaunchPlaces(h))
  BY DEF PlacesByKind
<1> DEFINE A == {"global"} \X Positions(gq, h)
           B == {"worker"} \X WorkerPlaces(h)
           C == {"next"} \X NextPlaces(h)
           D == {"drop"} \X DropPlaces(h)
           E == {"launch"} \X LaunchPlaces(h)
<1>1. /\ IsFiniteSet(WorkerPlaces(h)) /\ IsFiniteSet(NextPlaces(h)) /\ IsFiniteSet(DropPlaces(h))
      /\ IsFiniteSet(LaunchPlaces(h)) /\ IsFiniteSet(Positions(gq, h))
  BY ThreadsFinite, PositionsFinite, FS_Subset
     DEF WorkerPlaces, NextPlaces, DropPlaces, LaunchPlaces
<1>2. /\ IsFiniteSet(A) /\ IsFiniteSet(B) /\ IsFiniteSet(C) /\ IsFiniteSet(D) /\ IsFiniteSet(E)
      /\ Cardinality(A) = Waiting(gq, h) /\ Cardinality(B) = Cardinality(WorkerPlaces(h))
      /\ Cardinality(C) = Cardinality(NextPlaces(h)) /\ Cardinality(D) = Cardinality(DropPlaces(h))
      /\ Cardinality(E) = Cardinality(LaunchPlaces(h))
  BY <1>1, Tagged DEF Waiting
<1>3. /\ A \cap B = {} /\ (A \cup B) \cap C = {} /\ (A \cup B \cup C) \cap D = {}
      /\ (A \cup B \cup C \cup D) \cap E = {}
  OBVIOUS
<1> DEFINE AB == A \cup B
           ABC == AB \cup C
           ABCD == ABC \cup D
           ABCDE == ABCD \cup E
<1>4. Places(h) = ABCDE
  BY DEF Places, Positions, WorkerPlaces, NextPlaces, DropPlaces, LaunchPlaces
<1> HIDE DEF A, B, C, D, E
<1>5. IsFiniteSet(AB) /\ Cardinality(AB) = Cardinality(A) + Cardinality(B) /\ AB \cap C = {}
  BY <1>2, <1>3, Disjoint
<1>6. ABC \cap D = {} /\ ABCD \cap E = {}
  BY <1>3
<1> HIDE DEF AB
<1>7. IsFiniteSet(ABC) /\ Cardinality(ABC) = Cardinality(AB) + Cardinality(C)
  BY <1>2, <1>5, Disjoint
<1> HIDE DEF ABC
<1>8. IsFiniteSet(ABCD) /\ Cardinality(ABCD) = Cardinality(ABC) + Cardinality(D)
  BY <1>2, <1>6, <1>7, Disjoint
<1> HIDE DEF ABCD
<1>9. IsFiniteSet(ABCDE) /\ Cardinality(ABCDE) = Cardinality(ABCD) + Cardinality(E)
  BY <1>2, <1>6, <1>8, Disjoint
<1> HIDE DEF ABCDE
<1> QED
  BY <1>2, <1>4, <1>5, <1>7, <1>8, <1>9

\* A step of one thread changes the number of places by what it gives up and takes,
\* and by what happens in the global queue.
LEMMA PlacesStep ==
    ASSUME Typed, gq' \in Seq(Handle),
           NEW t \in Thread, NEW r \in ThreadRec, th' = [th EXCEPT ![t] = r], NEW h
    PROVE  /\ Cardinality(Places(h)) \in Nat
           /\ Waiting(gq, h) \in Nat /\ Waiting(gq', h) \in Nat
           /\ Cardinality(Places(h))' = Cardinality(Places(h)) + PlacesOf(r, h) - PlacesOf(th[t], h)
                                        + Waiting(gq', h) - Waiting(gq, h)
<1>1. th'[t] = r /\ \A u \in Thread \ {t} : th'[u] = th[u]
  BY DEF Typed
<1>2. gq \in Seq(Handle)
  BY DEF Typed
<1> DEFINE a == Cardinality(WorkerPlaces(h))
           b == Cardinality(NextPlaces(h))
           c == Cardinality(DropPlaces(h))
           d == Cardinality(LaunchPlaces(h))
<1>3. /\ a \in Nat /\ a' \in Nat
      /\ a' = a + One(r.q = h) - One(th[t].q = h)
  <2>1. /\ WorkerPlaces(h) \in SUBSET Thread /\ WorkerPlaces(h)' \in SUBSET Thread
        /\ \A u \in Thread \ {t} : u \in WorkerPlaces(h) <=> u \in WorkerPlaces(h)'
        /\ t \in WorkerPlaces(h) <=> th[t].q = h
        /\ t \in WorkerPlaces(h)' <=> r.q = h
    BY <1>1 DEF WorkerPlaces
  <2> QED
    BY <2>1, OneThread DEF One
<1>4. /\ b \in Nat /\ b' \in Nat
      /\ b' = b + One(r.pc = "put_back" /\ r.obj = h) - One(th[t].pc = "put_back" /\ th[t].obj = h)
  <2>1. /\ NextPlaces(h) \in SUBSET Thread /\ NextPlaces(h)' \in SUBSET Thread
        /\ \A u \in Thread \ {t} : u \in NextPlaces(h) <=> u \in NextPlaces(h)'
        /\ t \in NextPlaces(h) <=> (th[t].pc = "put_back" /\ th[t].obj = h)
        /\ t \in NextPlaces(h)' <=> (r.pc = "put_back" /\ r.obj = h)
    BY <1>1 DEF NextPlaces, At
  <2> QED
    BY <2>1, OneThread DEF One
<1>5. /\ c \in Nat /\ c' \in Nat
      /\ c' = c + One(r.dq = h) - One(th[t].dq = h)
  <2>1. /\ DropPlaces(h) \in SUBSET Thread /\ DropPlaces(h)' \in SUBSET Thread
        /\ \A u \in Thread \ {t} : u \in DropPlaces(h) <=> u \in DropPlaces(h)'
        /\ t \in DropPlaces(h) <=> th[t].dq = h
        /\ t \in DropPlaces(h)' <=> r.dq = h
    BY <1>1 DEF DropPlaces
  <2> QED
    BY <2>1, OneThread DEF One
<1>6. /\ d \in Nat /\ d' \in Nat
      /\ d' = d + One(r.new = h /\ r.pc # "registered") - One(th[t].new = h /\ th[t].pc # "registered")
  <2>1. /\ LaunchPlaces(h) \in SUBSET Thread /\ LaunchPlaces(h)' \in SUBSET Thread
        /\ \A u \in Thread \ {t} : u \in LaunchPlaces(h) <=> u \in LaunchPlaces(h)'
        /\ t \in LaunchPlaces(h) <=> (th[t].new = h /\ th[t].pc # "registered")
        /\ t \in LaunchPlaces(h)' <=> (r.new = h /\ r.pc # "registered")
    BY <1>1 DEF LaunchPlaces, At
  <2> QED
    BY <2>1, OneThread DEF One
<1>7. Waiting(gq, h) \in Nat /\ Waiting(gq', h) \in Nat
  BY <1>2, PositionsFinite
<1>8. Cardinality(Places(h)) = Waiting(gq, h) + a + b + c + d
  BY <1>2, PlacesSum DEF PlacesByKind
<1>9. Cardinality(Places(h))' = Waiting(gq', h) + a' + b' + c' + d'
  <2>1. PlacesByKind'
    BY PlacesSum, PTL
  <2> QED
    BY <2>1 DEF PlacesByKind, Waiting
<1> QED
  <2> DEFINE p1 == One(r.q = h)
             p2 == One(r.pc = "put_back" /\ r.obj = h)
             p3 == One(r.dq = h)
             p4 == One(r.new = h /\ r.pc # "registered")
             q1 == One(th[t].q = h)
             q2 == One(th[t].pc = "put_back" /\ th[t].obj = h)
             q3 == One(th[t].dq = h)
             q4 == One(th[t].new = h /\ th[t].pc # "registered")
  <2>1. /\ p1 \in Nat /\ p2 \in Nat /\ p3 \in Nat /\ p4 \in Nat
        /\ q1 \in Nat /\ q2 \in Nat /\ q3 \in Nat /\ q4 \in Nat
    BY DEF One
  <2>2. PlacesOf(r, h) = p1 + p2 + p3 + p4 /\ PlacesOf(th[t], h) = q1 + q2 + q3 + q4
    BY DEF PlacesOf
  <2>3. a' = a + p1 - q1 /\ b' = b + p2 - q2 /\ c' = c + p3 - q3 /\ d' = d + p4 - q4
    BY <1>3, <1>4, <1>5, <1>6
  <2>4. a \in Nat /\ b \in Nat /\ c \in Nat /\ d \in Nat
    BY <1>3, <1>4, <1>5, <1>6
  <2>5. a' \in Nat /\ b' \in Nat /\ c' \in Nat /\ d' \in Nat
    BY <1>3, <1>4, <1>5, <1>6
  <2>6. Cardinality(Places(h))' = Waiting(gq', h) + (a' + b') + (c' + d')
    BY <1>7, <1>9, <2>5
  <2> HIDE DEF p1, p2, p3, p4, q1, q2, q3, q4, a, b, c, d
  <2> DEFINE m == a + b
             n == c + d
             p == p1 + p2
             q == p3 + p4
             u == q1 + q2
             v == q3 + q4
  <2>7. m \in Nat /\ n \in Nat /\ p \in Nat /\ q \in Nat /\ u \in Nat /\ v \in Nat
    BY <2>1, <2>4
  <2>8. a' + b' = m + p - u
    BY <2>1, <2>3, <2>4
  <2>9. c' + d' = n + q - v
    BY <2>1, <2>3, <2>4
  <2>10. PlacesOf(r, h) = p + q /\ PlacesOf(th[t], h) = u + v
    BY <2>1, <2>2
  <2>11. Cardinality(Places(h)) = Waiting(gq, h) + m + n
    BY <1>7, <1>8, <2>4
  <2>12. Cardinality(Places(h))' = Waiting(gq', h) + (m + p - u) + (n + q - v)
    BY <2>8, <2>9, <2>6
  <2> HIDE DEF m, n, p, q, u, v
  <2> QED
    BY <1>7, <2>7, <2>10, <2>11, <2>12, SMTT(60)

\* The place a thread has is among those counted, and no two threads have one place.
LEMMA PlacesAtLeast ==
    ASSUME gq \in Seq(Handle), NEW t \in Thread, NEW h
    PROVE  /\ Cardinality(Places(h)) \in Nat
           /\ PlacesOf(th[t], h) >= 1 => Cardinality(Places(h)) >= 1
           /\ \A u \in Thread :
                (PlacesOf(th[t], h) >= 1 /\ PlacesOf(th[u], h) >= 1 /\ u # t)
                    => Cardinality(Places(h)) >= 2
<1> DEFINE Kinds == {"worker", "next", "drop", "launch"}
<1>1. \A u \in Thread : PlacesOf(th[u], h) >= 1 => \E k \in Kinds : <<k, u>> \in Places(h)
  BY DEF PlacesOf, One, Places, At
<1>2. IsFiniteSet(Places(h)) /\ Cardinality(Places(h)) \in Nat
  BY PlacesSum, FS_CardinalityType DEF PlacesByKind
<1>3. ASSUME PlacesOf(th[t], h) >= 1
      PROVE  Cardinality(Places(h)) >= 1
  <2>1. PICK k \in Kinds : <<k, t>> \in Places(h)
    BY <1>1, <1>3
  <2>2. Cardinality({<<k, t>>}) = 1 /\ {<<k, t>>} \subseteq Places(h)
    BY <2>1, FS_Singleton
  <2> QED
    BY <1>2, <2>2, FS_Subset
<1>4. ASSUME NEW u \in Thread, PlacesOf(th[t], h) >= 1, PlacesOf(th[u], h) >= 1, u # t
      PROVE  Cardinality(Places(h)) >= 2
  <2>1. PICK k \in Kinds : <<k, t>> \in Places(h)
    BY <1>1, <1>4
  <2>2. PICK l \in Kinds : <<l, u>> \in Places(h)
    BY <1>1, <1>4
  <2>3. <<k, t>> # <<l, u>>
    BY <1>4
  <2> QED
    BY <1>2, <2>1, <2>2, <2>3, TwoMembers
<1> QED
  BY <1>2, <1>3, <1>4

-----------------------------------------------------------------------------
(* Calls and returns *)

LEMMA Stack1 ==
    ASSUME NEW a \in PC
    PROVE  /\ <<a>> \in Seq(PC) /\ <<a>> # <<>>
           /\ Head(<<a>>) = a /\ Tail(<<a>>) = <<>> /\ Last(<<a>>) = a
           /\ <<a>> \o <<>> = <<a>>
  BY DEF Last

LEMMA Stack2 ==
    ASSUME NEW a \in PC, NEW b \in PC
    PROVE  /\ <<a, b>> \in Seq(PC) /\ <<a, b>> # <<>>
           /\ Head(<<a, b>>) = a /\ Tail(<<a, b>>) = <<b>> /\ Last(<<a, b>>) = b
           /\ <<a>> \o <<b>> = <<a, b>>
<1>1. <<a>> \in Seq(PC) /\ <<a, b>> = Append(<<a>>, b)
  OBVIOUS
<1>2. <<a>> \o <<b>> = <<a, b>>
  BY <1>1, AppendIsConcat
<1> QED
  BY <1>2 DEF Last

\* The locals after a return.
Returned(r, s) ==
    /\ s \in ThreadRec
    /\ s.pc = Head(r.stk) /\ s.stk = Tail(r.stk)
    /\ s.q = r.q /\ s.ctx = r.ctx /\ s.left = r.left /\ s.new = r.new
    /\ s.obj = 0 /\ s.msg = None

LEMMA ReturnFields ==
    ASSUME NEW r \in ThreadRec, r.stk # <<>>
    PROVE  /\ Returned(r, Return(r)) /\ Return(r).dq = r.dq
           /\ Returned(r, [Return(r) EXCEPT !.dq = 0]) /\ [Return(r) EXCEPT !.dq = 0].dq = 0
<1>1. Head(r.stk) \in PC /\ Tail(r.stk) \in Seq(PC)
  BY DEF ThreadRec
<1> QED
  BY <1>1 DEF Returned, Return, ThreadRec

AfterReturn == {"callback", "init", "drop", "launched", "failed", "repop", "top", "mq_release", "update"}

\* skynet_send and skynet_context_release come back to where they were called.
LEMMA ReturnControl ==
    ASSUME NEW r \in ThreadRec, NEW s, Returned(r, s), s.dq = r.dq, Locals(r),
           r.pc \in {"grab_dest", "release", "dec"}, WorkerControl(r) \/ TimerControl(r)
    PROVE  /\ WorkerControl(r) => WorkerControl(s)
           /\ TimerControl(r) => TimerControl(s)
           /\ Locals(s) /\ s.pc \in AfterReturn
           /\ Base(s) = Base(r) /\ (InDrop(s) <=> InDrop(r))
<1>1. /\ s.pc = Head(r.stk) /\ s.stk = Tail(r.stk) /\ s.q = r.q /\ s.ctx = r.ctx /\ s.new = r.new
      /\ s.dq = r.dq
  BY DEF Returned
<1>2. /\ WorkerControl(r) => r.stk \in ReleaseStacks
      /\ TimerControl(r) => r.stk = <<"update">>
  BY DEF WorkerControl, TimerControl, ReleaseStacks, WorkerPC
<1>3. \/ \E a \in PC : /\ r.stk = <<a>>
                           /\ a \in {"callback", "init", "launched", "failed", "repop", "top", "update"}
      \/ \E a, b \in PC : /\ r.stk = <<a, b>>
                              /\ a \in {"drop", "mq_release"} /\ b \in {"callback", "repop"}
  BY <1>2 DEF ReleaseStacks, SendStacks, PC, WorkerPC
<1>4. /\ s.pc \in AfterReturn /\ Base(s) = Base(r) /\ (InDrop(s) <=> InDrop(r))
      /\ (Dropping(s) <=> Dropping(r)) 
      /\ s.stk = <<>> \/ (s.pc \in {"drop", "mq_release"} /\ s.stk \in {<<"callback">>, <<"repop">>})
      /\ s.stk = <<>> => s.pc \in AfterReturn \ {"drop", "mq_release"} /\ r.stk = <<s.pc>>
  <2>1. ASSUME NEW a \in PC, r.stk = <<a>>,
               a \in {"callback", "init", "launched", "failed", "repop", "top", "update"}
        PROVE  <1>4!:
    <3>1. r.stk # <<>> /\ Head(r.stk) = a /\ Last(r.stk) = a /\ s.pc = a /\ s.stk = <<>>
      BY <1>1, <2>1, Stack1
    <3> QED
      BY <2>1, <3>1 DEF AfterReturn, Base, InDrop, Dropping
  <2>2. ASSUME NEW a \in PC, NEW b \in PC, r.stk = <<a, b>>,
               a \in {"drop", "mq_release"}, b \in {"callback", "repop"}
        PROVE  <1>4!:
    <3>1. /\ r.stk # <<>> /\ Head(r.stk) = a /\ Last(r.stk) = b /\ s.pc = a /\ s.stk = <<b>>
          /\ s.stk # <<>> /\ Head(s.stk) = b /\ Last(s.stk) = b
      <4>1. r.stk # <<>> /\ Head(r.stk) = a /\ Last(r.stk) = b /\ Tail(r.stk) = <<b>>
        BY <2>2, Stack2, ZenonT(60)
      <4>2. <<b>> # <<>> /\ Head(<<b>>) = b /\ Last(<<b>>) = b
        BY <2>2, Stack1
      <4> QED
        BY <1>1, <4>1, <4>2
    <3> QED
      BY <2>2, <3>1 DEF AfterReturn, Base, InDrop, Dropping
  <2> QED
    BY <1>3, <2>1, <2>2
<1>5. Locals(s)
  BY <1>1, <1>4 DEF Locals, AfterReturn
<1>6. WorkerControl(r) => WorkerControl(s)
  <2>1. ASSUME WorkerControl(r) PROVE r.stk # <<"update">>
    BY <1>2, <2>1 DEF ReleaseStacks, SendStacks
  <2> QED
    BY <1>4, <2>1 DEF WorkerControl, WorkerPC, AfterReturn
<1>7. TimerControl(r) => TimerControl(s)
  <2>1. "update" \in PC
    BY DEF PC
  <2> QED
    BY <1>1, <1>2, <2>1, Stack1 DEF TimerControl
<1> QED
  BY <1>4, <1>5, <1>6, <1>7

-----------------------------------------------------------------------------
(* What is left to show of a step in which thread t comes to have locals r. *)

\* 1 when the queue is in use, so that it has its one place.
InUse(m) == IF m.freed \/ (~m.in_global /\ ~m.release) THEN 0 ELSE 1

LEMMA CountTypes ==
    \A r, h, m : PlacesOf(r, h) \in Nat /\ RefsOf(r, h) \in Nat /\ InUse(m) \in Nat
  BY DEF PlacesOf, RefsOf, InUse, One

LEMMA Balance ==
    \A i, p, q, a, b \in Nat : p + b = q + a => i + q + a = i + p + b
  OBVIOUS

LEMMA OneStep ==
    ASSUME Typed, NEW t \in Thread, NEW r \in ThreadRec, th' = [th EXCEPT ![t] = r]
    PROVE  /\ th' \in [Thread -> ThreadRec] /\ th'[t] = r
           /\ \A u \in Thread \ {t} : th'[u] = th[u]
  BY DEF Typed

LEMMA ControlStep ==
    ASSUME Typed, Control, NEW t \in Thread, NEW r \in ThreadRec, th' = [th EXCEPT ![t] = r],
           t = Timer => TimerControl(r), t \in Worker => WorkerControl(r), Locals(r),
           t \in Worker /\ r.pc = "length" => Weight[t] >= 0
    PROVE  Control'
<1>1. /\ th'[t] = r
      /\ \A u \in Thread \ {t} : th'[u] = th[u]
  BY OneStep
<1>2. TimerControl(th'[Timer])
  BY <1>1 DEF Control, Thread
<1>3. \A w \in Worker : WorkerControl(th'[w]) /\ (th'[w].pc = "length" => Weight[w] >= 0)
  BY <1>1 DEF Control, Thread, At
<1>4. \A u \in Thread : Locals(th'[u])
  BY <1>1 DEF Control
<1>5. /\ TimerControl(th[Timer])' <=> TimerControl(th'[Timer])
      /\ \A w \in Worker : WorkerControl(th[w])' <=> WorkerControl(th'[w])
      /\ \A u \in Thread : Locals(th[u])' <=> Locals(th'[u])
  BY DEF TimerControl, WorkerControl, Locals, Base, Dropping
<1> QED
  BY <1>2, <1>3, <1>4, <1>5 DEF Control, At

LEMMA RefsStep ==
    ASSUME Typed, RefCounts, NEW t \in Thread, NEW r \in ThreadRec, th' = [th EXCEPT ![t] = r],
           ref' \in [Handle -> Nat],
           \A h \in Handle : ref'[h] + RefsOf(th[t], h) + One(h \in Contexts(H))
                               = ref[h] + RefsOf(r, h) + One(h \in Contexts(H)')
    PROVE  RefCounts'
<1> SUFFICES ASSUME NEW h \in Handle
             PROVE  ref'[h] = Cardinality(Holders(h))'
  BY DEF RefCounts
<1>1. /\ Cardinality(Holders(h)) \in Nat
      /\ Cardinality(Holders(h))' = Cardinality(Holders(h)) + RefsOf(r, h) - RefsOf(th[t], h)
                                    + One(h \in Contexts(H)') - One(h \in Contexts(H))
  BY HoldersStep
<1>2. ref[h] = Cardinality(Holders(h))
  BY DEF RefCounts
<1>3. /\ RefsOf(r, h) \in Nat /\ RefsOf(th[t], h) \in Nat /\ One(h \in Contexts(H)) \in Nat
      /\ One(h \in Contexts(H)') \in Nat
  BY DEF RefsOf, One
<1>4. ref'[h] \in Nat /\ ref[h] \in Nat
  BY DEF Typed
<1> QED
  BY <1>1, <1>2, <1>3, <1>4

LEMMA OnePlaceStep ==
    ASSUME Typed, QueueInOnePlace, NEW t \in Thread, NEW r \in ThreadRec, th' = [th EXCEPT ![t] = r],
           gq' \in Seq(Handle),
           \A h \in Handle : InUse(mq'[h]) + PlacesOf(th[t], h) + Waiting(gq, h)
                               = InUse(mq[h]) + PlacesOf(r, h) + Waiting(gq', h)
    PROVE  QueueInOnePlace'
<1> SUFFICES ASSUME NEW h \in Handle
             PROVE  Cardinality(Places(h))' = InUse(mq'[h])
  BY DEF QueueInOnePlace, InUse
<1>1. /\ Cardinality(Places(h)) \in Nat
      /\ Waiting(gq, h) \in Nat /\ Waiting(gq', h) \in Nat
      /\ Cardinality(Places(h))' = Cardinality(Places(h)) + PlacesOf(r, h) - PlacesOf(th[t], h)
                                   + Waiting(gq', h) - Waiting(gq, h)
  BY PlacesStep
<1>2. InUse(mq[h]) = Cardinality(Places(h))
  BY DEF QueueInOnePlace, InUse
<1>3. PlacesOf(r, h) \in Nat /\ PlacesOf(th[t], h) \in Nat
  BY DEF PlacesOf, One
<1>4. InUse(mq[h]) \in Nat /\ InUse(mq'[h]) \in Nat
  BY DEF InUse
<1>5. InUse(mq'[h]) + PlacesOf(th[t], h) + Waiting(gq, h) = InUse(mq[h]) + PlacesOf(r, h) + Waiting(gq', h)
  OBVIOUS
<1> DEFINE c == Cardinality(Places(h))
           p == PlacesOf(r, h)
           q == PlacesOf(th[t], h)
           a == Waiting(gq, h)
           b == Waiting(gq', h)
           i == InUse(mq'[h])
<1>6. i + q + a = c + p + b
  BY <1>2, <1>5
<1>7. c \in Nat /\ p \in Nat /\ q \in Nat /\ a \in Nat /\ b \in Nat /\ i \in Nat
  BY <1>1, <1>3, <1>4
<1>8. i = c + p - q + b - a
  <2> HIDE DEF c, p, q, a, b, i
  <2> QED
    BY <1>6, <1>7
<1> QED
  BY <1>1, <1>8

LEMMA UsesStep ==
    ASSUME Typed, Uses, NEW t \in Thread, NEW r \in ThreadRec, th' = [th EXCEPT ![t] = r],
           UsesOf(r, known', ref', mq'),
           \A u \in Thread \ {t} : UsesOf(th[u], known', ref', mq'),
           \A u \in Thread \ {t} : (Deleting(r) /\ Deleting(th[u])) => th[u].obj # r.obj,
           \A u \in Thread \ {t} : (r.pc = "registered" /\ At(u, "registered")) => th[u].new # r.new
    PROVE  Uses'
<1>1. /\ th'[t] = r
      /\ \A u \in Thread \ {t} : th'[u] = th[u]
  BY OneStep
<1>2. \A u \in Thread : UsesOf(th'[u], known', ref', mq')
  BY <1>1
<1>3. \A u, v \in Thread : (Deleting(th'[u]) /\ Deleting(th'[v]) /\ th'[u].obj = th'[v].obj) => u = v
  BY <1>1 DEF Uses
<1>4. \A u, v \in Thread :
        (th'[u].pc = "registered" /\ th'[v].pc = "registered" /\ th'[u].new = th'[v].new) => u = v
  BY <1>1 DEF Uses, At
<1>5. /\ \A u \in Thread : UsesOf(th[u], known, ref, mq)' <=> UsesOf(th'[u], known', ref', mq')
      /\ \A u \in Thread : Deleting(th[u])' <=> Deleting(th'[u])
  BY DEF UsesOf, Deleting, InDrop
<1> QED
  BY <1>2, <1>3, <1>4, <1>5 DEF Uses, At

\* What is asked of the new locals, whatever the step does to shared state.
Fits(t, r) ==
    /\ r \in ThreadRec
    /\ t = Timer => TimerControl(r)
    /\ t \in Worker => WorkerControl(r)
    /\ t \in Worker /\ r.pc = "length" => Weight[t] >= 0
    /\ Locals(r)

SameFlags(m, n) == m.in_global = n.in_global /\ m.release = n.release /\ m.freed = n.freed

\* A step that leaves contexts and the handle storage alone, and moves queues about.
LEMMA QuietStep ==
    ASSUME IInv, NEW t \in Thread, NEW r, th' = [th EXCEPT ![t] = r], Fits(t, r),
           UNCHANGED <<H, known, ref, total, quit>>, sent' \in 0 .. MaxMessage,
           gq' \in Seq(Handle),
           mq' \in [Handle -> {mq'[h] : h \in Handle}],
           \A h \in Handle : QueueOK(mq'[h]) /\ SameFlags(mq'[h], mq[h]),
           UsesOf(r, known, ref, mq), ~Deleting(r), ~Deleting(th[t]),
           r.pc # "registered", th[t].pc # "registered",
           t = Timer /\ r.pc = "exit" => total = 0,
           \A h \in Handle : RefsOf(r, h) = RefsOf(th[t], h),
           \A h \in Handle : PlacesOf(r, h) + Waiting(gq', h) = PlacesOf(th[t], h) + Waiting(gq, h)
    PROVE  IInv'
<1> USE DEF IInv, Fits
<1>1. /\ th' \in [Thread -> ThreadRec] /\ th'[t] = r
      /\ \A u \in Thread \ {t} : th'[u] = th[u]
  BY OneStep
<1>2. Typed'
  <2>1. \A h \in Handle : QueueOK(mq[h])'
    BY DEF QueueOK, RingOK
  <2> QED
    BY <1>1, <2>1 DEF Typed
<1>3. Control'
  BY ControlStep
<1>4. Storage'
  BY DEF Storage
<1>5. Life'
  <2>1. \A u \in Thread : th[u].pc = "registered" => th'[u].pc = "registered" /\ th'[u].new = th[u].new
    BY <1>1
  <2> QED
    BY <2>1 DEF Life, SameFlags, At
<1>6. Uses'
  <2>1. \A s \in ThreadRec : (Locals(s) /\ UsesOf(s, known, ref, mq)) => UsesOf(s, known, ref, mq')
    <3> SUFFICES ASSUME NEW s \in ThreadRec, Locals(s), UsesOf(s, known, ref, mq)
                 PROVE  UsesOf(s, known, ref, mq')
      OBVIOUS
    <3>1. InDrop(s) => s.dq \in Handle
      BY DEF InDrop, Locals, Dropping, ThreadRec
    <3>2. s.pc = "mark" => s.obj \in Handle
      BY DEF Locals, ThreadRec
    <3> QED
      BY <3>1, <3>2 DEF UsesOf, SameFlags
  <2>2. \A u \in Thread \ {t} : UsesOf(th[u], known, ref, mq')
    BY <2>1 DEF Uses, Control, Typed
  <2> QED
    BY <2>1, <2>2, UsesStep
<1>7. RefCounts'
  BY RefsStep DEF Typed
<1>8. QueueInOnePlace'
  <2>1. \A h \in Handle : InUse(mq'[h]) = InUse(mq[h])
    BY DEF InUse, SameFlags
  <2>2. \A h \in Handle : InUse(mq'[h]) + PlacesOf(th[t], h) + Waiting(gq, h)
                              = InUse(mq[h]) + PlacesOf(r, h) + Waiting(gq', h)
    <3> TAKE h \in Handle
    <3>1. Waiting(gq, h) \in Nat /\ Waiting(gq', h) \in Nat
      BY PositionsFinite DEF Typed
    <3>2. PlacesOf(r, h) + Waiting(gq', h) = PlacesOf(th[t], h) + Waiting(gq, h)
      OBVIOUS
    <3>3. InUse(mq'[h]) = InUse(mq[h])
      BY <2>1
    <3>4. PlacesOf(r, h) \in Nat /\ PlacesOf(th[t], h) \in Nat /\ InUse(mq[h]) \in Nat
      BY CountTypes
    <3> QED
      BY <3>1, <3>2, <3>3, <3>4, Balance
  <2> QED
    BY <2>2, OnePlaceStep
<1>9. Totals'
  <2>1. Counted' = Counted
    BY <1>1 DEF Counted, Deleting
  <2> QED
    BY <1>1, <2>1 DEF Totals, At, Thread
<1> QED
  BY <1>2, <1>3, <1>4, <1>5, <1>6, <1>7, <1>8, <1>9

-----------------------------------------------------------------------------
(* The locals of a worker that is in no call, and of one that calls. *)

Plain(r) ==
    /\ r.pc \in WorkerPC /\ r.stk = <<>>
    /\ r.ctx # 0 <=> r.pc \in Dispatching
    /\ r.ctx # 0 => r.q = r.ctx
    /\ r.q # 0 => r.pc \in Dispatching \cup {"top", "grab", "done"}
    /\ r.pc = "grab" => r.q # 0
    /\ r.new # 0 <=> r.pc \in Launching
    /\ r.dq = 0
    /\ r.pc = "put_back" => r.obj # 0

LEMMA PlainIs ==
    ASSUME IInv, NEW w \in Worker, th[w].pc \in WorkerPC
    PROVE  /\ w \in Thread /\ w # Timer /\ th[w] \in ThreadRec
           /\ Plain(th[w]) /\ Base(th[w]) = th[w].pc
           /\ UsesOf(th[w], known, ref, mq) /\ ~InDrop(th[w]) /\ ~Deleting(th[w])
<1>1. /\ w \in Thread /\ w # Timer /\ th[w] \in ThreadRec /\ WorkerControl(th[w]) /\ Locals(th[w])
      /\ UsesOf(th[w], known, ref, mq)
  BY ServerAssumption DEF IInv, Thread, Typed, Control, Uses
<1>2. th[w].stk = <<>> /\ Base(th[w]) = th[w].pc /\ ~InDrop(th[w]) /\ ~Deleting(th[w]) /\ ~Dropping(th[w])
  BY <1>1 DEF WorkerControl, WorkerPC, Base, InDrop, Deleting, Dropping
<1> QED
  BY <1>1, <1>2 DEF Plain, Locals

LEMMA PlainFits ==
    ASSUME NEW w \in Worker, NEW r \in ThreadRec, Plain(r), r.pc = "length" => Weight[w] >= 0
    PROVE  /\ Fits(w, r) /\ Base(r) = r.pc /\ ~InDrop(r) /\ ~Deleting(r)
<1>1. w # Timer
  BY ServerAssumption
<1>2. WorkerControl(r) /\ Base(r) = r.pc /\ ~InDrop(r) /\ ~Deleting(r) /\ ~Dropping(r)
  BY DEF Plain, WorkerControl, WorkerPC, Base, InDrop, Deleting, Dropping
<1>3. Locals(r)
  BY <1>2 DEF Plain, Locals, WorkerPC
<1> QED
  BY <1>1, <1>2, <1>3 DEF Fits

LEMMA CallFits ==
    ASSUME NEW w \in Worker, NEW r \in ThreadRec, NEW back \in WorkerPC, r.stk = <<back>>,
           \/ r.pc = "grab_dest" /\ back \in {"callback", "init"} /\ r.msg \in Message
           \/ r.pc = "release" /\ back \in {"callback", "launched", "failed", "repop", "top"}
           \/ r.pc = "mq_release" /\ back \in {"callback", "repop"},
           r.pc # "mq_release" => r.obj # 0,
           r.ctx # 0 <=> back \in Dispatching,
           r.ctx # 0 => r.q = r.ctx,
           r.q # 0 => back \in Dispatching \cup {"top"},
           r.new # 0 <=> back \in Launching,
           r.dq # 0 <=> r.pc = "mq_release"
    PROVE  /\ Fits(w, r) /\ Base(r) = back /\ ~InDrop(r) /\ ~Deleting(r)
<1>1. w # Timer
  BY ServerAssumption
<1>2. /\ r.stk # <<>> /\ Head(r.stk) = back /\ Base(r) = back
  BY Stack1 DEF Base, PC
<1>3. ~InDrop(r) /\ ~Deleting(r) /\ (Dropping(r) <=> r.pc = "mq_release")
  BY <1>2 DEF InDrop, Deleting, Dropping, WorkerPC
<1>4. WorkerControl(r)
  BY DEF WorkerControl, SendStacks, ReleaseStacks
<1>5. Locals(r)
  BY <1>2, <1>3 DEF Locals, WorkerPC
<1> QED
  BY <1>1, <1>2, <1>3, <1>4, <1>5 DEF Fits

LEMMA GotoIs ==
    ASSUME Typed, NEW t \in Thread, NEW p, Goto(t, p)
    PROVE  th' = [th EXCEPT ![t] = [th[t] EXCEPT !.pc = p]]
  BY DEF Goto, Typed

\* The queues are as before.
LEMMA SameQueues ==
    ASSUME IInv, mq' = mq
    PROVE  /\ mq' \in [Handle -> {mq'[h] : h \in Handle}]
           /\ \A h \in Handle : QueueOK(mq'[h]) /\ SameFlags(mq'[h], mq[h])
  BY DEF IInv, Typed, SameFlags

\* A worker that is in no call goes on, with the same references and queues.
LEMMA JumpStep ==
    ASSUME IInv, NEW w \in Worker, th[w].pc \in WorkerPC, th[w].pc # "registered",
           NEW r \in ThreadRec, th' = [th EXCEPT ![w] = r], Plain(r), r.pc \notin {"registered", "length"},
           UNCHANGED <<H, known, ref, mq, gq, total, quit, sent>>,
           r.ctx = th[w].ctx, r.q = th[w].q, r.new = th[w].new,
           r.pc # "put_back", th[w].pc # "put_back",
           r.pc = "init" <=> th[w].pc = "init"
    PROVE  IInv'
<1>1. /\ w \in Thread /\ w # Timer /\ th[w] \in ThreadRec /\ Plain(th[w]) /\ Base(th[w]) = th[w].pc
      /\ UsesOf(th[w], known, ref, mq) /\ ~Deleting(th[w])
  BY PlainIs
<1>2. Fits(w, r) /\ Base(r) = r.pc /\ ~InDrop(r) /\ ~Deleting(r)
  BY PlainFits
<1>3. UsesOf(r, known, ref, mq)
  BY <1>1, <1>2 DEF UsesOf, Plain, WorkerPC
<1>4. \A h \in Handle : RefsOf(r, h) = RefsOf(th[w], h)
  BY <1>1, <1>2 DEF RefsOf, Plain, WorkerPC
<1>5. \A h \in Handle : PlacesOf(r, h) = PlacesOf(th[w], h)
  BY <1>1 DEF PlacesOf, Plain
<1> QED
  BY <1>1, <1>2, <1>3, <1>4, <1>5, SameQueues, QuietStep DEF IInv, Typed

LEMMA LoopStep ==
    ASSUME IInv, NEW w \in Worker, Loop(w)
    PROVE  IInv'
<1> DEFINE p == IF quit THEN "done" ELSE IF th[w].q = 0 THEN "pop" ELSE "grab"
           r == [th[w] EXCEPT !.pc = p]
<1>1. th[w].pc = "top" /\ "top" \in WorkerPC /\ p \in {"done", "pop", "grab"}
  BY DEF Loop, At, WorkerPC
<1>2. w \in Thread /\ th[w] \in ThreadRec /\ Plain(th[w])
  BY <1>1, PlainIs
<1>3. th' = [th EXCEPT ![w] = r]
  BY <1>2, GotoIs DEF Loop, IInv
<1>4. /\ r \in ThreadRec /\ r.pc = p /\ r.stk = th[w].stk /\ r.q = th[w].q /\ r.ctx = th[w].ctx
      /\ r.new = th[w].new /\ r.dq = th[w].dq
  BY <1>1, <1>2 DEF ThreadRec, PC, WorkerPC
<1>5. Plain(r)
  BY <1>1, <1>2, <1>4 DEF Plain, WorkerPC, Dispatching, Launching
<1>6. UNCHANGED <<H, known, ref, mq, gq, total, quit, sent>>
  BY DEF Loop, ServerState
<1> HIDE DEF r
<1> QED
  BY <1>1, <1>3, <1>4, <1>5, <1>6, JumpStep

LEMMA PopFirstEmpty ==
    ASSUME IInv, NEW w \in Worker, PopFirst(w) \/ PopNext(w), gq = <<>>
    PROVE  IInv'
<1> DEFINE r == [th[w] EXCEPT !.pc = "sleep"]
<1>1. th[w].pc \in {"pop", "repop"} /\ th[w].pc \in WorkerPC
  BY DEF PopFirst, PopNext, At, WorkerPC
<1>2. w \in Thread /\ th[w] \in ThreadRec /\ Plain(th[w])
  BY <1>1, PlainIs
<1>3. th' = [th EXCEPT ![w] = r]
  BY <1>2, GotoIs DEF PopFirst, PopNext, IInv
<1>4. /\ r \in ThreadRec /\ r.pc = "sleep" /\ r.stk = th[w].stk /\ r.q = th[w].q /\ r.ctx = th[w].ctx
      /\ r.new = th[w].new /\ r.dq = th[w].dq
  BY <1>2 DEF ThreadRec, PC, WorkerPC
<1>5. Plain(r)
  BY <1>1, <1>2, <1>4 DEF Plain, WorkerPC, Dispatching, Launching
<1>6. UNCHANGED <<H, known, ref, mq, gq, total, quit, sent>>
  BY DEF PopFirst, PopNext
<1> HIDE DEF r
<1> QED
  BY <1>1, <1>3, <1>4, <1>5, <1>6, JumpStep

LEMMA LengthStep ==
    ASSUME IInv, NEW w \in Worker, skynet_mq_length(w)
    PROVE  IInv'
<1> DEFINE n == RingLength(mq[th[w].q].ring) \div (2 ^ Weight[w])
           r == [th[w] EXCEPT !.pc = "callback", !.left = n]
<1>1. th[w].pc = "length" /\ "length" \in WorkerPC
  BY DEF skynet_mq_length, At, WorkerPC
<1>2. w \in Thread /\ th[w] \in ThreadRec /\ Plain(th[w])
  BY <1>1, PlainIs
<1>3. th' = [th EXCEPT ![w] = r]
  BY DEF skynet_mq_length, Set
<1>4. n \in Int
  <2>1. Weight[w] \in {0, 1, 2, 3}
    BY <1>1, ServerAssumption DEF IInv, Control, At
  <2>2. 2 ^ 0 = 1 /\ 2 ^ 1 = 2 /\ 2 ^ 2 = 4 /\ 2 ^ 3 = 8
    OBVIOUS
  <2>3. 2 ^ Weight[w] \in {1, 2, 4, 8}
    <3>1. CASE Weight[w] = 0
      BY <2>2, <3>1
    <3>2. CASE Weight[w] = 1
      BY <2>2, <3>2
    <3>3. CASE Weight[w] = 2
      BY <2>2, <3>3
    <3>4. CASE Weight[w] = 3
      BY <2>2, <3>4
    <3> QED
      BY <2>1, <3>1, <3>2, <3>3, <3>4
  <2>4. th[w].q \in Handle
    BY <1>1, <1>2 DEF Plain, Dispatching, ThreadRec
  <2>5. RingLength(mq[th[w].q].ring) \in Int
    <3>1. RingShape(mq[th[w].q].ring)
      BY <2>4 DEF IInv, Typed, QueueOK, RingOK
    <3> QED
      BY <3>1, RingLengthInt
  <2> QED
    BY <2>3, <2>5
<1> HIDE DEF n
<1>5. /\ r \in ThreadRec /\ r.pc = "callback" /\ r.stk = th[w].stk /\ r.q = th[w].q /\ r.ctx = th[w].ctx
      /\ r.new = th[w].new /\ r.dq = th[w].dq
  BY <1>2, <1>4, ZenonT(60) DEF ThreadRec, PC, WorkerPC
<1>6. Plain(r)
  BY <1>1, <1>2, <1>5 DEF Plain, WorkerPC, Dispatching, Launching
<1>7. UNCHANGED <<H, known, ref, mq, gq, total, quit, sent>>
  BY DEF skynet_mq_length, ServerState
<1> HIDE DEF r
<1> QED
  BY <1>1, <1>3, <1>5, <1>6, <1>7, JumpStep

LEMMA CallbackReturnsStep ==
    ASSUME IInv, NEW w \in Worker, CallbackReturns(w)
    PROVE  IInv'
<1> DEFINE y == th[w].left - 1
           z == 0
           a == [th[w] EXCEPT !.pc = "next", !.left = y]
           b == [th[w] EXCEPT !.pc = "last", !.left = z]
           r == IF th[w].left > 1 THEN a ELSE b
<1>1. th[w].pc = "callback" /\ "callback" \in WorkerPC
  BY DEF CallbackReturns, At, WorkerPC
<1>2. w \in Thread /\ th[w] \in ThreadRec /\ Plain(th[w])
  BY <1>1, PlainIs
<1>3. th' = [th EXCEPT ![w] = r]
  BY DEF CallbackReturns, Set
<1>4. y \in Int /\ z \in Int
  BY <1>2 DEF ThreadRec
<1> HIDE DEF y, z
<1>5. /\ a \in ThreadRec /\ a.pc = "next" /\ a.stk = th[w].stk /\ a.q = th[w].q
      /\ a.ctx = th[w].ctx /\ a.new = th[w].new /\ a.dq = th[w].dq
  BY <1>2, <1>4, ZenonT(60) DEF ThreadRec, PC, WorkerPC
<1>6. /\ b \in ThreadRec /\ b.pc = "last" /\ b.stk = th[w].stk /\ b.q = th[w].q
      /\ b.ctx = th[w].ctx /\ b.new = th[w].new /\ b.dq = th[w].dq
  BY <1>2, <1>4, ZenonT(60) DEF ThreadRec, PC, WorkerPC
<1> HIDE DEF a, b
<1>7. /\ r \in ThreadRec /\ r.pc \in {"next", "last"} /\ r.stk = th[w].stk /\ r.q = th[w].q
      /\ r.ctx = th[w].ctx /\ r.new = th[w].new /\ r.dq = th[w].dq
  BY <1>5, <1>6
<1> HIDE DEF r
<1>8. Plain(r)
  BY <1>1, <1>2, <1>7 DEF Plain, WorkerPC, Dispatching, Launching
<1>9. UNCHANGED <<H, known, ref, mq, gq, total, quit, sent>>
  BY DEF CallbackReturns, ServerState
<1> QED
  BY <1>1, <1>3, <1>7, <1>8, <1>9, JumpStep

LEMMA SleepStep ==
    ASSUME IInv, NEW w \in Worker, NEW p \in {"top", "wait", "woken"}, Goto(w, p),
           th[w].pc \in {"sleep", "woken", "wait"},
           UNCHANGED <<H, known, ref, mq, gq, total, quit, sent>>
    PROVE  IInv'
<1> DEFINE r == [th[w] EXCEPT !.pc = p]
<1>1. th[w].pc \in WorkerPC
  BY DEF WorkerPC
<1>2. w \in Thread /\ th[w] \in ThreadRec /\ Plain(th[w])
  BY <1>1, PlainIs
<1>3. th' = [th EXCEPT ![w] = r]
  BY <1>2, GotoIs DEF IInv
<1>4. /\ r \in ThreadRec /\ r.pc = p /\ r.stk = th[w].stk /\ r.q = th[w].q
      /\ r.ctx = th[w].ctx /\ r.new = th[w].new /\ r.dq = th[w].dq
  BY <1>2 DEF ThreadRec, PC, WorkerPC
<1>5. Plain(r)
  BY <1>1, <1>2, <1>4 DEF Plain, WorkerPC, Dispatching, Launching
<1> HIDE DEF r
<1> QED
  BY <1>1, <1>3, <1>4, <1>5, JumpStep

-----------------------------------------------------------------------------
(* Calls from no call *)

LEMMA NoSource == 0 \in {0} \cup Handle /\ None \in Message \cup {None} /\ 0 \notin Handle
  BY DEF Handle

Has(s, pc, stk, q, ctx, obj, new, dq) ==
    /\ s \in ThreadRec /\ s.pc = pc /\ s.stk = stk
    /\ s.q = q /\ s.ctx = ctx /\ s.obj = obj /\ s.new = new /\ s.dq = dq

\* The locals in a call made from where there was none.
LEMMA CallHas ==
    ASSUME NEW r \in ThreadRec, r.stk = <<>>, NEW p \in PC, NEW back \in PC
    PROVE  Has(Call(r, p, back), p, <<back>>, r.q, r.ctx, r.obj, r.new, r.dq)
<1> DEFINE k == <<back>> \o r.stk
<1>1. k = <<back>> /\ k \in Seq(PC)
  BY Stack1
<1> HIDE DEF k
<1>2. Call(r, p, back) = [r EXCEPT !.pc = p, !.stk = k]
  BY DEF Call, k
<1>3. Has([r EXCEPT !.pc = p, !.stk = k], p, <<back>>, r.q, r.ctx, r.obj, r.new, r.dq)
  BY <1>1 DEF ThreadRec, Has
<1> QED
  BY <1>2, <1>3

LEMMA ReleaseHas ==
    ASSUME NEW r \in ThreadRec, r.stk = <<>>, NEW back \in PC, NEW c \in {0} \cup Handle
    PROVE  Has(ReleaseCall(r, c, back), "release", <<back>>, r.q, r.ctx, c, r.new, r.dq)
<1> DEFINE s == Call(r, "release", back)
<1>1. Has(s, "release", <<back>>, r.q, r.ctx, r.obj, r.new, r.dq)
  BY CallHas DEF PC
<1>2. ReleaseCall(r, c, back) = [s EXCEPT !.obj = c]
  BY DEF ReleaseCall
<1> HIDE DEF s
<1>3. Has([s EXCEPT !.obj = c], "release", <<back>>, r.q, r.ctx, c, r.new, r.dq)
  BY <1>1 DEF ThreadRec, Has
<1> QED
  BY <1>2, <1>3

LEMMA SendHas ==
    ASSUME NEW r \in ThreadRec, r.stk = <<>>, NEW back \in PC, NEW c \in {0} \cup Handle,
           NEW m \in Message
    PROVE  /\ Has(SendCall(r, c, m, back), "grab_dest", <<back>>, r.q, r.ctx, c, r.new, r.dq)
           /\ SendCall(r, c, m, back).msg = m
<1> DEFINE s == Call(r, "grab_dest", back)
<1>1. Has(s, "grab_dest", <<back>>, r.q, r.ctx, r.obj, r.new, r.dq)
  BY CallHas DEF PC
<1>2. SendCall(r, c, m, back) = [s EXCEPT !.obj = c, !.msg = m]
  BY DEF SendCall
<1> HIDE DEF s
<1>3. /\ Has([s EXCEPT !.obj = c, !.msg = m], "grab_dest", <<back>>, r.q, r.ctx, c, r.new, r.dq)
      /\ [s EXCEPT !.obj = c, !.msg = m].msg = m
  BY <1>1 DEF ThreadRec, Has
<1> QED
  BY <1>2, <1>3

LEMMA SetDropped ==
    ASSUME NEW r \in ThreadRec, NEW q \in {0} \cup Handle, NEW d \in {0} \cup Handle
    PROVE  Has([r EXCEPT !.q = q, !.dq = d], r.pc, r.stk, q, r.ctx, r.obj, r.new, d)
  BY ZenonT(60) DEF ThreadRec, Has

LEMMA SetTaken ==
    ASSUME NEW r \in ThreadRec, NEW p \in PC, NEW q \in {0} \cup Handle
    PROVE  /\ Has([r EXCEPT !.pc = p, !.q = q], p, r.stk, q, r.ctx, r.obj, r.new, r.dq)
           /\ Has([r EXCEPT !.pc = p, !.obj = q], p, r.stk, r.q, r.ctx, q, r.new, r.dq)
           /\ Has([r EXCEPT !.pc = p, !.new = q], p, r.stk, r.q, r.ctx, r.obj, q, r.dq)
  BY ZenonT(60) DEF ThreadRec, Has

LEMMA SetContext ==
    ASSUME NEW r \in ThreadRec, NEW c \in {0} \cup Handle
    PROVE  Has([r EXCEPT !.ctx = c], r.pc, r.stk, r.q, c, r.obj, r.new, r.dq)
  BY DEF ThreadRec, Has

LEMMA SetQueue ==
    ASSUME NEW r \in ThreadRec, NEW q \in {0} \cup Handle, NEW c \in {0} \cup Handle
    PROVE  Has([r EXCEPT !.q = q, !.ctx = c], r.pc, r.stk, q, c, r.obj, r.new, r.dq)
  BY DEF ThreadRec, Has

LEMMA SetLeft ==
    ASSUME NEW r \in ThreadRec, NEW q \in {0} \cup Handle, NEW c \in {0} \cup Handle, NEW l \in Int
    PROVE  Has([r EXCEPT !.q = q, !.ctx = c, !.left = l], r.pc, r.stk, q, c, r.obj, r.new, r.dq)
  BY DEF ThreadRec, Has

\* A worker that is in no call goes elsewhere: what is left to show of the new locals.
LEMMA WorkerQuiet ==
    ASSUME IInv, NEW w \in Worker, th[w].pc \in WorkerPC, th[w].pc # "registered",
           NEW r \in ThreadRec, th' = [th EXCEPT ![w] = r],
           Fits(w, r), ~InDrop(r), ~Deleting(r), r.pc # "registered",
           UNCHANGED <<H, known, ref, mq, total, quit>>,
           sent' \in 0 .. MaxMessage, gq' \in Seq(Handle),
           r.ctx \in {0, th[w].ctx}, r.new \in {0, th[w].new},
           r.pc \in {"push", "release"} => r.obj \in known,
           \A h \in Handle : RefsOf(r, h) = RefsOf(th[w], h),
           \A h \in Handle : PlacesOf(r, h) + Waiting(gq', h) = PlacesOf(th[w], h) + Waiting(gq, h)
    PROVE  IInv'
<1>1. w \in Thread /\ w # Timer /\ UsesOf(th[w], known, ref, mq) /\ ~Deleting(th[w])
  BY PlainIs
<1>2. UsesOf(r, known, ref, mq)
  BY <1>1 DEF UsesOf, Deleting
<1> QED
  BY <1>1, <1>2, SameQueues, QuietStep

LEMMA SameWaiting ==
    ASSUME IInv, UNCHANGED gq
    PROVE  /\ gq' \in Seq(Handle) /\ gq \in Seq(Handle)
           /\ \A h : Waiting(gq', h) = Waiting(gq, h)
  BY DEF IInv, Typed

\* The context of a dispatched queue is not there.
LEMMA GrabMissing ==
    ASSUME IInv, NEW w \in Worker, skynet_handle_grab(w), ~Found(H, th[w].q, known)
    PROVE  IInv'
<1> DEFINE z == 0
           c == Call(th[w], "mq_release", "repop")
           r == [c EXCEPT !.q = z, !.dq = th[w].q]
<1>1. th[w].pc = "grab" /\ "grab" \in WorkerPC
  BY DEF skynet_handle_grab, At, WorkerPC
<1>2. w \in Thread /\ th[w] \in ThreadRec /\ Plain(th[w]) /\ Base(th[w]) = "grab"
  BY <1>1, PlainIs
<1>3. th' = [th EXCEPT ![w] = r] /\ UNCHANGED <<H, known, ref, mq, gq, total, quit, sent>>
  BY DEF skynet_handle_grab, Set
<1>4. z = 0 /\ z \in {0} \cup Handle
  OBVIOUS
<1> HIDE DEF z
<1>5. /\ th[w].stk = <<>> /\ th[w].q \in {0} \cup Handle /\ th[w].q # 0
      /\ th[w].ctx = 0 /\ th[w].new = 0 /\ th[w].dq = 0
  BY <1>1, <1>2 DEF Plain, ThreadRec, Dispatching, Launching
<1>6. Has(r, "mq_release", <<"repop">>, 0, 0, c.obj, 0, th[w].q)
  <2>1. "mq_release" \in PC /\ "repop" \in PC
    BY DEF PC, WorkerPC
  <2>2. Has(c, "mq_release", <<"repop">>, th[w].q, 0, th[w].obj, 0, 0)
    BY <1>2, <1>5, <2>1, CallHas
  <2> HIDE DEF c
  <2>3. Has(r, c.pc, c.stk, z, c.ctx, c.obj, c.new, th[w].q)
    <3>1. c \in ThreadRec
      BY <2>2 DEF Has
    <3> QED
      BY <1>4, <1>5, <3>1, SetDropped
  <2> QED
    BY <1>4, <2>2, <2>3 DEF Has
<1> HIDE DEF r
<1>7. Fits(w, r) /\ Base(r) = "repop" /\ ~InDrop(r) /\ ~Deleting(r)
  <2>1. "repop" \in WorkerPC /\ "repop" \notin Dispatching /\ "repop" \notin Launching
    BY DEF WorkerPC, Dispatching, Launching
  <2> QED
    BY <1>5, <1>6, <2>1, CallFits DEF Has
<1>8. \A h \in Handle : RefsOf(r, h) = RefsOf(th[w], h)
  BY <1>1, <1>2, <1>5, <1>6, <1>7, NoSource DEF RefsOf, One, Has
<1>9. \A h \in Handle : PlacesOf(r, h) = PlacesOf(th[w], h)
  BY <1>1, <1>5, <1>6, NoSource DEF PlacesOf, One, Has
<1> QED
  BY <1>1, <1>3, <1>5, <1>6, <1>7, <1>8, <1>9, WorkerQuiet, SameWaiting DEF IInv, Typed, Has

\* No other queue waits, and the worker keeps its own.
LEMMA PopOtherEmpty ==
    ASSUME IInv, NEW w \in Worker, PopOther(w), gq = <<>>
    PROVE  IInv'
<1> DEFINE c == ReleaseCall(th[w], th[w].ctx, "top")
           r == [c EXCEPT !.ctx = 0]
<1>1. th[w].pc = "last" /\ "last" \in WorkerPC
  BY DEF PopOther, At, WorkerPC
<1>2. /\ w \in Thread /\ th[w] \in ThreadRec /\ Plain(th[w]) /\ Base(th[w]) = "last"
      /\ UsesOf(th[w], known, ref, mq)
  BY <1>1, PlainIs
<1>3. th' = [th EXCEPT ![w] = r] /\ UNCHANGED <<H, known, ref, mq, gq, total, quit, sent>>
  BY DEF PopOther, Set
<1>4. /\ th[w].stk = <<>> /\ th[w].q = th[w].ctx /\ th[w].ctx \in {0} \cup Handle /\ th[w].ctx # 0
      /\ th[w].new = 0 /\ th[w].dq = 0 /\ th[w].ctx \in known
  BY <1>1, <1>2 DEF Plain, ThreadRec, Dispatching, Launching, UsesOf
<1>5. Has(r, "release", <<"top">>, th[w].ctx, 0, th[w].ctx, 0, 0)
  <2>1. "top" \in PC
    BY DEF PC, WorkerPC
  <2>2. Has(c, "release", <<"top">>, th[w].ctx, th[w].ctx, th[w].ctx, 0, 0)
    BY <1>2, <1>4, <2>1, ReleaseHas
  <2> HIDE DEF c
  <2>3. c \in ThreadRec
    BY <2>2 DEF Has
  <2>4. Has(r, c.pc, c.stk, c.q, 0, c.obj, c.new, c.dq)
    BY <2>3, NoSource, SetContext
  <2> QED
    BY <2>2, <2>4 DEF Has
<1> HIDE DEF r
<1>6. Fits(w, r) /\ Base(r) = "top" /\ ~InDrop(r) /\ ~Deleting(r)
  <2>1. "top" \in WorkerPC /\ "top" \notin Dispatching /\ "top" \notin Launching
    BY DEF WorkerPC, Dispatching, Launching
  <2> QED
    BY <1>4, <1>5, <2>1, CallFits DEF Has
<1>7. \A h \in Handle : RefsOf(r, h) = RefsOf(th[w], h)
  BY <1>1, <1>2, <1>4, <1>5, <1>6, NoSource DEF RefsOf, One, Has
<1>8. \A h \in Handle : PlacesOf(r, h) = PlacesOf(th[w], h)
  BY <1>1, <1>4, <1>5, NoSource DEF PlacesOf, One, Has
<1> QED
  BY <1>1, <1>3, <1>4, <1>5, <1>6, <1>7, <1>8, WorkerQuiet, SameWaiting DEF IInv, Typed, Has

LEMMA SendStep ==
    ASSUME IInv, NEW w \in Worker, NEW dest \in Handle, skynet_send(w, dest)
    PROVE  IInv'
<1> DEFINE m == [src |-> Self(w), session |-> sent', err |-> FALSE]
           r == SendCall(th[w], dest, m, th[w].pc)
<1>1. th[w].pc \in {"callback", "init"} /\ th[w].pc \in WorkerPC /\ th[w].pc \in PC
  BY DEF skynet_send, Calling, WorkerPC, PC
<1>2. w \in Thread /\ th[w] \in ThreadRec /\ Plain(th[w]) /\ Base(th[w]) = th[w].pc
  BY <1>1, PlainIs
<1>3. /\ th' = [th EXCEPT ![w] = r] /\ UNCHANGED <<H, known, ref, mq, gq, total, quit>>
      /\ sent' \in 1 .. MaxMessage /\ sent' \in 0 .. MaxMessage
  BY ServerAssumption DEF skynet_send, Set, IInv, Typed
<1>4. /\ th[w].stk = <<>> /\ th[w].q = th[w].ctx /\ th[w].ctx \in {0} \cup Handle /\ th[w].ctx # 0
      /\ th[w].new \in {0} \cup Handle /\ (th[w].new # 0 <=> th[w].pc = "init") /\ th[w].dq = 0
  BY <1>1, <1>2 DEF Plain, ThreadRec, Dispatching, Launching
<1>5. m \in Message
  BY <1>3, <1>4 DEF Self, At, Message
<1> HIDE DEF m
<1>6. Has(r, "grab_dest", <<th[w].pc>>, th[w].ctx, th[w].ctx, dest, th[w].new, 0) /\ r.msg \in Message
  <2>1. dest \in {0} \cup Handle
    OBVIOUS
  <2> QED
    BY <1>1, <1>2, <1>4, <1>5, <2>1, SendHas
<1> HIDE DEF r
<1>7. Fits(w, r) /\ Base(r) = th[w].pc /\ ~InDrop(r) /\ ~Deleting(r)
  <2>1. th[w].pc \in Dispatching /\ (th[w].pc \in Launching <=> th[w].pc = "init")
    BY <1>1 DEF Dispatching, Launching
  <2> QED
    BY <1>1, <1>4, <1>6, <2>1, NoSource, CallFits DEF Has
<1>8. \A h \in Handle : RefsOf(r, h) = RefsOf(th[w], h)
  BY <1>1, <1>2, <1>4, <1>6, <1>7, NoSource DEF RefsOf, One, Has
<1>9. \A h \in Handle : PlacesOf(r, h) = PlacesOf(th[w], h)
  BY <1>1, <1>4, <1>6, NoSource DEF PlacesOf, One, Has
<1> QED
  BY <1>1, <1>3, <1>4, <1>6, <1>7, <1>8, <1>9, WorkerQuiet, SameWaiting DEF Has

LEMMA InitStep ==
    ASSUME IInv, NEW w \in Worker, InitOk(w) \/ InitFails(w)
    PROVE  IInv'
<1>1. PICK back \in {"launched", "failed"} :
        /\ Set(w, ReleaseCall(th[w], th[w].new, back))
        /\ UNCHANGED <<H, known, ref, mq, gq, total, quit, sent>>
  BY DEF InitOk, InitFails, ServerState
<1> DEFINE r == ReleaseCall(th[w], th[w].new, back)
<1>2. th[w].pc = "init" /\ "init" \in WorkerPC /\ back \in PC /\ back \in WorkerPC
  BY DEF InitOk, InitFails, At, WorkerPC, PC
<1>3. /\ w \in Thread /\ th[w] \in ThreadRec /\ Plain(th[w]) /\ Base(th[w]) = "init"
      /\ UsesOf(th[w], known, ref, mq)
  BY <1>2, PlainIs
<1>4. th' = [th EXCEPT ![w] = r]
  BY <1>1 DEF Set
<1>5. /\ th[w].stk = <<>> /\ th[w].q = th[w].ctx /\ th[w].ctx # 0
      /\ th[w].new \in {0} \cup Handle /\ th[w].new # 0 /\ th[w].dq = 0 /\ th[w].new \in known
  BY <1>2, <1>3 DEF Plain, ThreadRec, Dispatching, Launching, UsesOf
<1>6. Has(r, "release", <<back>>, th[w].ctx, th[w].ctx, th[w].new, th[w].new, 0)
  BY <1>2, <1>3, <1>5, ReleaseHas
<1> HIDE DEF r
<1>7. Fits(w, r) /\ Base(r) = back /\ ~InDrop(r) /\ ~Deleting(r)
  <2>1. back \in Dispatching /\ back \in Launching
    BY DEF Dispatching, Launching
  <2> QED
    BY <1>2, <1>5, <1>6, <2>1, CallFits DEF Has
<1>8. \A h \in Handle : RefsOf(r, h) = RefsOf(th[w], h)
  BY <1>2, <1>3, <1>5, <1>6, <1>7, NoSource DEF RefsOf, One, Has
<1>9. \A h \in Handle : PlacesOf(r, h) = PlacesOf(th[w], h)
  BY <1>2, <1>5, <1>6, NoSource DEF PlacesOf, One, Has
<1> QED
  BY <1>1, <1>2, <1>4, <1>5, <1>6, <1>7, <1>8, <1>9, WorkerQuiet, SameWaiting DEF IInv, Typed, Has

-----------------------------------------------------------------------------
(* Queues that move *)

\* A thread takes the first queue that waits.
LEMMA TakeBalance ==
    ASSUME IInv, gq # <<>>, gq' = Tail(gq), NEW s, NEW r,
           \A h \in Handle : PlacesOf(r, h) = PlacesOf(s, h) + One(Head(gq) = h)
    PROVE  /\ gq' \in Seq(Handle) /\ Head(gq) \in Handle
           /\ \A h \in Handle : PlacesOf(r, h) + Waiting(gq', h) = PlacesOf(s, h) + Waiting(gq, h)
<1>1. gq \in Seq(Handle)
  BY DEF IInv, Typed
<1>2. gq' \in Seq(Handle) /\ Head(gq) \in Handle
  BY <1>1
<1>3. ASSUME NEW h \in Handle
      PROVE  PlacesOf(r, h) + Waiting(gq', h) = PlacesOf(s, h) + Waiting(gq, h)
  <2>1. Waiting(gq, h) = Waiting(gq', h) + One(Head(gq) = h) /\ Waiting(gq', h) \in Nat
    BY <1>1, <1>2, WaitingTail, PositionsFinite, ZenonT(60)
  <2>2. PlacesOf(r, h) = PlacesOf(s, h) + One(Head(gq) = h)
    OBVIOUS
  <2>3. PlacesOf(s, h) \in Nat /\ One(Head(gq) = h) \in Nat
    BY CountTypes DEF One
  <2>4. \A p, i, b \in Nat : (p + i) + b = p + (b + i)
    BY Balance
  <2> QED
    BY <2>1, <2>2, <2>3, <2>4
<1> QED
  BY <1>2, <1>3

\* A thread puts queue x at the end.
LEMMA PutBalance ==
    ASSUME IInv, NEW x \in Handle, gq' = Append(gq, x), NEW s, NEW r,
           \A h \in Handle : PlacesOf(s, h) = PlacesOf(r, h) + One(x = h)
    PROVE  /\ gq' \in Seq(Handle)
           /\ \A h \in Handle : PlacesOf(r, h) + Waiting(gq', h) = PlacesOf(s, h) + Waiting(gq, h)
<1>1. gq \in Seq(Handle)
  BY DEF IInv, Typed
<1>2. gq' \in Seq(Handle)
  BY <1>1
<1>3. ASSUME NEW h \in Handle
      PROVE  PlacesOf(r, h) + Waiting(gq', h) = PlacesOf(s, h) + Waiting(gq, h)
  <2>1. Waiting(gq', h) = Waiting(gq, h) + One(x = h) /\ Waiting(gq, h) \in Nat
    BY <1>1, WaitingAppend, PositionsFinite
  <2>2. PlacesOf(s, h) = PlacesOf(r, h) + One(x = h)
    OBVIOUS
  <2>3. PlacesOf(r, h) \in Nat /\ One(x = h) \in Nat
    BY CountTypes DEF One
  <2>4. \A p, i, b \in Nat : p + (b + i) = (p + i) + b
    BY Balance
  <2> QED
    BY <2>1, <2>2, <2>3, <2>4
<1> QED
  BY <1>2, <1>3

LEMMA PopStep ==
    ASSUME IInv, NEW w \in Worker, PopFirst(w) \/ PopNext(w), gq # <<>>
    PROVE  IInv'
<1>1. PICK p \in {"grab", "top"} :
        /\ Set(w, [th[w] EXCEPT !.pc = p, !.q = Head(gq)]) /\ gq' = Tail(gq)
        /\ UNCHANGED <<H, known, ref, mq, total, quit, sent>>
  BY DEF PopFirst, PopNext
<1> DEFINE r == [th[w] EXCEPT !.pc = p, !.q = Head(gq)]
<1>2. /\ th[w].pc \in {"pop", "repop"} /\ th[w].pc \in WorkerPC
      /\ p \in PC /\ p \in WorkerPC
  BY DEF PopFirst, PopNext, At, WorkerPC, PC
<1>3. w \in Thread /\ th[w] \in ThreadRec /\ Plain(th[w]) /\ Base(th[w]) = th[w].pc
  BY <1>2, PlainIs
<1>4. th' = [th EXCEPT ![w] = r]
  BY <1>1 DEF Set
<1>5. /\ th[w].stk = <<>> /\ th[w].q = 0 /\ th[w].ctx = 0 /\ th[w].new = 0 /\ th[w].dq = 0
  BY <1>2, <1>3 DEF Plain, Dispatching, Launching
<1>6. Head(gq) \in Handle
  BY DEF IInv, Typed
<1>7. Has(r, p, <<>>, Head(gq), 0, th[w].obj, 0, 0)
  <2>1. Head(gq) \in {0} \cup Handle
    BY <1>6
  <2>2. Has(r, p, th[w].stk, Head(gq), th[w].ctx, th[w].obj, th[w].new, th[w].dq)
    BY <1>2, <1>3, <2>1, SetTaken
  <2> QED
    BY <1>5, <2>2
<1> HIDE DEF r
<1>8. Plain(r)
  BY <1>2, <1>6, <1>7, NoSource DEF Plain, Has, WorkerPC, Dispatching, Launching
<1>9. Fits(w, r) /\ Base(r) = p /\ ~InDrop(r) /\ ~Deleting(r)
  BY <1>7, <1>8, PlainFits DEF Has
<1>10. \A h \in Handle : RefsOf(r, h) = RefsOf(th[w], h)
  BY <1>2, <1>3, <1>5, <1>7, <1>9, NoSource DEF RefsOf, One, Has
<1>11. \A h \in Handle : PlacesOf(r, h) = PlacesOf(th[w], h) + One(Head(gq) = h)
  BY <1>2, <1>5, <1>7, NoSource DEF PlacesOf, One, Has
<1>12. /\ gq' \in Seq(Handle)
       /\ \A h \in Handle : PlacesOf(r, h) + Waiting(gq', h) = PlacesOf(th[w], h) + Waiting(gq, h)
  BY <1>1, <1>11, TakeBalance
<1> QED
  BY <1>1, <1>2, <1>4, <1>5, <1>7, <1>9, <1>10, <1>12, WorkerQuiet DEF IInv, Typed, Has

LEMMA PopOtherStep ==
    ASSUME IInv, NEW w \in Worker, PopOther(w), gq # <<>>
    PROVE  IInv'
<1> DEFINE r == [th[w] EXCEPT !.pc = "put_back", !.obj = Head(gq)]
<1>1. /\ th[w].pc = "last" /\ "last" \in WorkerPC
      /\ "put_back" \in PC /\ "put_back" \in WorkerPC
  BY DEF PopOther, At, WorkerPC, PC
<1>2. w \in Thread /\ th[w] \in ThreadRec /\ Plain(th[w]) /\ Base(th[w]) = th[w].pc
  BY <1>1, PlainIs
<1>3. /\ th' = [th EXCEPT ![w] = r] /\ gq' = Tail(gq)
      /\ UNCHANGED <<H, known, ref, mq, total, quit, sent>>
  BY DEF PopOther, Set
<1>4. /\ th[w].stk = <<>> /\ th[w].q = th[w].ctx /\ th[w].ctx # 0 /\ th[w].new = 0 /\ th[w].dq = 0
  BY <1>1, <1>2 DEF Plain, Dispatching, Launching
<1>5. Head(gq) \in Handle
  BY DEF IInv, Typed
<1>6. Has(r, "put_back", <<>>, th[w].ctx, th[w].ctx, Head(gq), 0, 0)
  <2>1. Head(gq) \in {0} \cup Handle
    BY <1>5
  <2>2. Has(r, "put_back", th[w].stk, th[w].q, th[w].ctx, Head(gq), th[w].new, th[w].dq)
    BY <1>1, <1>2, <2>1, SetTaken
  <2> QED
    BY <1>4, <2>2
<1> HIDE DEF r
<1>7. Plain(r)
  BY <1>1, <1>4, <1>5, <1>6, NoSource DEF Plain, Has, Dispatching, Launching
<1>8. Fits(w, r) /\ Base(r) = "put_back" /\ ~InDrop(r) /\ ~Deleting(r)
  BY <1>6, <1>7, PlainFits DEF Has
<1>9. \A h \in Handle : RefsOf(r, h) = RefsOf(th[w], h)
  BY <1>1, <1>2, <1>4, <1>6, <1>8, NoSource DEF RefsOf, One, Has
<1>10. \A h \in Handle : PlacesOf(r, h) = PlacesOf(th[w], h) + One(Head(gq) = h)
  BY <1>1, <1>4, <1>6, NoSource DEF PlacesOf, One, Has
<1>11. /\ gq' \in Seq(Handle)
       /\ \A h \in Handle : PlacesOf(r, h) + Waiting(gq', h) = PlacesOf(th[w], h) + Waiting(gq, h)
  BY <1>3, <1>10, TakeBalance
<1> QED
  BY <1>1, <1>3, <1>4, <1>6, <1>8, <1>9, <1>11, WorkerQuiet DEF IInv, Typed, Has

LEMMA PutBackStep ==
    ASSUME IInv, NEW w \in Worker, PutBack(w)
    PROVE  IInv'
<1> DEFINE c == ReleaseCall(th[w], th[w].ctx, "top")
           r == [c EXCEPT !.q = th[w].obj, !.ctx = 0]
<1>1. th[w].pc = "put_back" /\ "put_back" \in WorkerPC
  BY DEF PutBack, At, WorkerPC
<1>2. /\ w \in Thread /\ th[w] \in ThreadRec /\ Plain(th[w]) /\ Base(th[w]) = "put_back"
      /\ UsesOf(th[w], known, ref, mq)
  BY <1>1, PlainIs
<1>3. /\ th' = [th EXCEPT ![w] = r] /\ gq' = Append(gq, th[w].q)
      /\ UNCHANGED <<H, known, ref, mq, total, quit, sent>>
  BY DEF PutBack, Set
<1>4. /\ th[w].stk = <<>> /\ th[w].q = th[w].ctx /\ th[w].ctx \in {0} \cup Handle /\ th[w].ctx \in Handle
      /\ th[w].ctx # 0 /\ th[w].new = 0 /\ th[w].dq = 0 /\ th[w].ctx \in known
      /\ th[w].obj \in {0} \cup Handle /\ th[w].obj # 0
  BY <1>1, <1>2 DEF Plain, ThreadRec, Dispatching, Launching, UsesOf
<1>5. Has(r, "release", <<"top">>, th[w].obj, 0, th[w].ctx, 0, 0)
  <2>1. "top" \in PC
    BY DEF PC, WorkerPC
  <2>2. Has(c, "release", <<"top">>, th[w].ctx, th[w].ctx, th[w].ctx, 0, 0)
    BY <1>2, <1>4, <2>1, ReleaseHas
  <2> HIDE DEF c
  <2>3. c \in ThreadRec
    BY <2>2 DEF Has
  <2>4. Has(r, c.pc, c.stk, th[w].obj, 0, c.obj, c.new, c.dq)
    BY <1>4, <2>3, NoSource, SetQueue
  <2> QED
    BY <2>2, <2>4 DEF Has
<1> HIDE DEF r
<1>6. Fits(w, r) /\ Base(r) = "top" /\ ~InDrop(r) /\ ~Deleting(r)
  <2>1. "top" \in WorkerPC /\ "top" \notin Dispatching /\ "top" \notin Launching
    BY DEF WorkerPC, Dispatching, Launching
  <2> QED
    BY <1>4, <1>5, <2>1, CallFits DEF Has
<1>7. \A h \in Handle : RefsOf(r, h) = RefsOf(th[w], h)
  BY <1>1, <1>2, <1>4, <1>5, <1>6, NoSource DEF RefsOf, One, Has
<1>8. \A h \in Handle : PlacesOf(th[w], h) = PlacesOf(r, h) + One(th[w].q = h)
  BY <1>1, <1>4, <1>5, NoSource DEF PlacesOf, One, Has
<1>9. /\ gq' \in Seq(Handle)
      /\ \A h \in Handle : PlacesOf(r, h) + Waiting(gq', h) = PlacesOf(th[w], h) + Waiting(gq, h)
  BY <1>3, <1>4, <1>8, PutBalance
<1> QED
  BY <1>1, <1>3, <1>4, <1>5, <1>6, <1>7, <1>9, WorkerQuiet DEF IInv, Typed, Has

LEMMA LaunchedStep ==
    ASSUME IInv, NEW w \in Worker, Launched(w)
    PROVE  IInv'
<1> DEFINE r == [th[w] EXCEPT !.pc = "callback", !.new = 0]
<1>1. /\ th[w].pc = "launched" /\ "launched" \in WorkerPC
      /\ "callback" \in PC /\ "callback" \in WorkerPC
  BY DEF Launched, At, WorkerPC, PC
<1>2. w \in Thread /\ th[w] \in ThreadRec /\ Plain(th[w]) /\ Base(th[w]) = th[w].pc
  BY <1>1, PlainIs
<1>3. /\ th' = [th EXCEPT ![w] = r] /\ gq' = Append(gq, th[w].new)
      /\ UNCHANGED <<H, known, ref, mq, total, quit, sent>>
  BY DEF Launched, Set
<1>4. /\ th[w].stk = <<>> /\ th[w].q = th[w].ctx /\ th[w].ctx # 0 /\ th[w].new \in Handle /\ th[w].dq = 0
  BY <1>1, <1>2 DEF Plain, Dispatching, Launching, ThreadRec
<1>5. Has(r, "callback", <<>>, th[w].ctx, th[w].ctx, th[w].obj, 0, 0)
  <2>1. Has(r, "callback", th[w].stk, th[w].q, th[w].ctx, th[w].obj, 0, th[w].dq)
    BY <1>1, <1>2, NoSource, SetTaken
  <2> QED
    BY <1>4, <2>1
<1> HIDE DEF r
<1>6. Plain(r)
  BY <1>1, <1>4, <1>5, NoSource DEF Plain, Has, Dispatching, Launching
<1>7. Fits(w, r) /\ Base(r) = "callback" /\ ~InDrop(r) /\ ~Deleting(r)
  BY <1>5, <1>6, PlainFits DEF Has
<1>8. \A h \in Handle : RefsOf(r, h) = RefsOf(th[w], h)
  BY <1>1, <1>2, <1>4, <1>5, <1>7, NoSource DEF RefsOf, One, Has
<1>9. \A h \in Handle : PlacesOf(th[w], h) = PlacesOf(r, h) + One(th[w].new = h)
  BY <1>1, <1>4, <1>5, NoSource DEF PlacesOf, One, Has
<1>10. /\ gq' \in Seq(Handle)
       /\ \A h \in Handle : PlacesOf(r, h) + Waiting(gq', h) = PlacesOf(th[w], h) + Waiting(gq, h)
  BY <1>3, <1>4, <1>9, PutBalance
<1> QED
  BY <1>1, <1>3, <1>4, <1>5, <1>7, <1>8, <1>10, WorkerQuiet DEF IInv, Typed, Has

-----------------------------------------------------------------------------
(* Returns *)

CallPC == {"grab_dest", "push", "release", "mark", "dec"}

LEMMA CallIs ==
    ASSUME IInv, NEW t \in Thread, th[t].pc \in CallPC
    PROVE  /\ th[t] \in ThreadRec /\ th[t].stk # <<>> /\ th[t].obj \in Handle
           /\ Locals(th[t]) /\ UsesOf(th[t], known, ref, mq)
           /\ t = Timer => TimerControl(th[t]) /\ th[t].stk = <<"update">>
           /\ t \in Worker => WorkerControl(th[t]) /\ th[t].stk \in ReleaseStacks
           /\ WorkerControl(th[t]) \/ TimerControl(th[t])
           /\ th[t].pc # "registered" /\ th[t].pc # "put_back"
           /\ th[t].pc \in {"grab_dest", "push"} =>
                th[t].msg \in Message /\ (t \in Worker => th[t].stk \in SendStacks)
<1>1. /\ th[t] \in ThreadRec /\ Locals(th[t]) /\ UsesOf(th[t], known, ref, mq)
      /\ t = Timer => TimerControl(th[t])
      /\ t \in Worker => WorkerControl(th[t])
  BY DEF IInv, Typed, Control, Uses
<1>2. t = Timer \/ t \in Worker
  BY DEF Thread
<1>3. TimerControl(th[t]) => th[t].stk = <<"update">>
  BY DEF TimerControl, CallPC
<1>4. WorkerControl(th[t]) => /\ th[t].stk \in ReleaseStacks
                              /\ th[t].pc \in {"grab_dest", "push"} => th[t].stk \in SendStacks
  BY DEF WorkerControl, CallPC, ReleaseStacks, WorkerPC
<1>5. <<"update">> # <<>> /\ \A s \in ReleaseStacks : s # <<>>
  BY DEF ReleaseStacks, SendStacks
<1>6. th[t].obj \in Handle /\ th[t].pc # "registered" /\ th[t].pc # "put_back"
  BY <1>1 DEF Locals, CallPC, ThreadRec
<1>7. th[t].pc \in {"grab_dest", "push"} => th[t].msg \in Message
  BY <1>1 DEF Locals
<1> QED
  BY <1>1, <1>2, <1>3, <1>4, <1>5, <1>6, <1>7

\* Returning gives up the reference that skynet_context_release takes away.
LEMMA ReturnFits ==
    ASSUME IInv, NEW t \in Thread, th[t].pc \in {"grab_dest", "release", "dec"},
           NEW s, s = Return(th[t])
    PROVE  /\ s \in ThreadRec /\ Fits(t, s) /\ s.pc \in AfterReturn /\ (InDrop(s) <=> InDrop(th[t]))
           /\ s.ctx = th[t].ctx /\ s.new = th[t].new /\ s.dq = th[t].dq /\ s.q = th[t].q
           /\ UsesOf(s, known, ref, mq) /\ ~Deleting(s) /\ s.pc # "registered"
           /\ \A h \in Handle : PlacesOf(s, h) = PlacesOf(th[t], h)
           /\ \A h \in Handle : RefsOf(th[t], h) = RefsOf(s, h) + One(th[t].pc = "release" /\ th[t].obj = h)
<1>1. /\ th[t] \in ThreadRec /\ th[t].stk # <<>> /\ th[t].obj \in Handle
      /\ Locals(th[t]) /\ UsesOf(th[t], known, ref, mq)
      /\ t = Timer => TimerControl(th[t])
      /\ t \in Worker => WorkerControl(th[t])
      /\ WorkerControl(th[t]) \/ TimerControl(th[t])
      /\ th[t].pc # "registered" /\ th[t].pc # "put_back"
  BY CallIs DEF CallPC
<1>2. Returned(th[t], s) /\ s.dq = th[t].dq
  BY <1>1, ReturnFields
<1>3. /\ WorkerControl(th[t]) => WorkerControl(s)
      /\ TimerControl(th[t]) => TimerControl(s)
      /\ Locals(s) /\ s.pc \in AfterReturn
      /\ Base(s) = Base(th[t]) /\ (InDrop(s) <=> InDrop(th[t]))
  BY <1>1, <1>2, ReturnControl
<1>4. s \in ThreadRec /\ s.ctx = th[t].ctx /\ s.new = th[t].new /\ s.q = th[t].q
  BY <1>2 DEF Returned
<1>5. ~Deleting(s) /\ s.pc \notin {"registered", "put_back", "push", "release", "mark", "length", "dec"}
  BY <1>3 DEF Deleting, AfterReturn
<1>6. Fits(t, s)
  BY <1>1, <1>3, <1>4, <1>5 DEF Fits
<1>7. UsesOf(s, known, ref, mq)
  BY <1>1, <1>2, <1>3, <1>4, <1>5 DEF UsesOf
<1>8. \A h \in Handle : PlacesOf(s, h) = PlacesOf(th[t], h)
  BY <1>1, <1>2, <1>4, <1>5 DEF PlacesOf
<1>9. \A h \in Handle : RefsOf(th[t], h) = RefsOf(s, h) + One(th[t].pc = "release" /\ th[t].obj = h)
  BY <1>3, <1>4, <1>5 DEF RefsOf, One
<1> QED
  BY <1>2, <1>3, <1>4, <1>5, <1>6, <1>7, <1>8, <1>9

\* The service a message is for is not there.
LEMMA GrabDestMissing ==
    ASSUME IInv, NEW t \in Thread, GrabDest(t), ~Found(H, th[t].obj, known)
    PROVE  IInv'
<1> DEFINE r == Return(th[t])
<1>1. th[t].pc = "grab_dest"
  BY DEF GrabDest, At
<1>2. th' = [th EXCEPT ![t] = r] /\ UNCHANGED <<H, known, ref, mq, gq, total, quit, sent>>
  BY DEF GrabDest, Set
<1>3. /\ r \in ThreadRec /\ Fits(t, r) /\ r.pc \in AfterReturn
      /\ UsesOf(r, known, ref, mq) /\ ~Deleting(r) /\ r.pc # "registered"
      /\ \A h \in Handle : PlacesOf(r, h) = PlacesOf(th[t], h)
      /\ \A h \in Handle : RefsOf(th[t], h) = RefsOf(r, h) + One(th[t].pc = "release" /\ th[t].obj = h)
  BY <1>1, ReturnFits
<1> HIDE DEF r
<1>4. \A h \in Handle : RefsOf(r, h) = RefsOf(th[t], h)
  BY <1>1, <1>3, CountTypes DEF One
<1>5. r.pc # "exit" /\ ~Deleting(th[t]) /\ th[t].pc # "registered"
  BY <1>1, <1>3 DEF AfterReturn, Deleting
<1>6. sent' \in 0 .. MaxMessage
  BY <1>2 DEF IInv, Typed
<1> QED
  BY <1>2, <1>3, <1>4, <1>5, <1>6, QuietStep, SameQueues, SameWaiting

-----------------------------------------------------------------------------
(* A worker that releases a queue *)

LEMMA DropIs ==
    ASSUME IInv, NEW t \in Thread, th[t].pc \in {"mq_release", "drop"}
    PROVE  /\ t \in Worker /\ t # Timer /\ th[t] \in ThreadRec /\ th[t].dq \in Handle
           /\ Locals(th[t]) /\ UsesOf(th[t], known, ref, mq) /\ th[t].stk # <<>>
           /\ \E back \in {"callback", "repop"} : th[t].stk = <<back>> /\ Base(th[t]) = back
           /\ th[t].new = 0 /\ ~Deleting(th[t])
<1>1. th[t] \in ThreadRec /\ Locals(th[t]) /\ UsesOf(th[t], known, ref, mq)
  BY DEF IInv, Typed, Control, Uses
<1>2. t \in Worker /\ t # Timer
  BY ServerAssumption DEF IInv, Control, TimerControl, Thread
<1>3. th[t].stk \in {<<"callback">>, <<"repop">>}
  BY <1>2 DEF IInv, Control, WorkerControl, WorkerPC
<1>4. PICK back \in {"callback", "repop"} : th[t].stk = <<back>>
  BY <1>3
<1>5. th[t].stk # <<>> /\ Base(th[t]) = back
  BY <1>4, Stack1 DEF Base, PC, WorkerPC
<1>6. th[t].dq \in Handle
  BY <1>1 DEF Locals, Dropping, ThreadRec
<1>7. th[t].new = 0 /\ ~Deleting(th[t])
  BY <1>1, <1>5 DEF Locals, Launching, Deleting
<1> QED
  BY <1>1, <1>2, <1>4, <1>5, <1>6, <1>7

\* The queue it found is marked.
LEMMA ReleaseMarked ==
    ASSUME IInv, NEW t \in Thread, skynet_mq_release(t), mq[th[t].dq].release
    PROVE  IInv'
<1> DEFINE r == [th[t] EXCEPT !.pc = "drop"]
<1>1. th[t].pc = "mq_release"
  BY DEF skynet_mq_release, At
<1>2. /\ t \in Worker /\ t # Timer /\ th[t] \in ThreadRec /\ th[t].dq \in Handle
      /\ Locals(th[t]) /\ UsesOf(th[t], known, ref, mq) /\ th[t].new = 0 /\ ~Deleting(th[t])
  BY <1>1, DropIs
<1>3. PICK back \in {"callback", "repop"} : th[t].stk = <<back>> /\ Base(th[t]) = back
  BY <1>1, DropIs
<1>4. th' = [th EXCEPT ![t] = r] /\ UNCHANGED <<H, known, ref, mq, gq, total, quit, sent>>
  BY GotoIs DEF skynet_mq_release, IInv
<1>5. Has(r, "drop", th[t].stk, th[t].q, th[t].ctx, th[t].obj, 0, th[t].dq)
  BY <1>2 DEF Has, ThreadRec, PC
<1> HIDE DEF r
<1>6. r.stk # <<>> /\ Base(r) = back /\ Head(r.stk) = back /\ Head(th[t].stk) = back /\ th[t].stk # <<>>
  BY <1>3, <1>5, Stack1 DEF Has, Base, PC, WorkerPC
<1>7. InDrop(r) /\ ~Deleting(r) /\ Dropping(r) /\ Dropping(th[t])
  BY <1>1, <1>5 DEF InDrop, Deleting, Has, Dropping
<1>8. Fits(t, r)
  <2>1. WorkerControl(r)
    BY <1>3, <1>5 DEF WorkerControl, Has
  <2>2. Locals(r)
    BY <1>2, <1>3, <1>5, <1>6, <1>7 DEF Locals, Has
  <2> QED
    BY <1>2, <1>5, <2>1, <2>2 DEF Fits, Has
<1>9. UsesOf(r, known, ref, mq)
  BY <1>2, <1>5, <1>7 DEF UsesOf, Has
<1>10. \A h \in Handle : RefsOf(r, h) = RefsOf(th[t], h)
  BY <1>1, <1>2, <1>3, <1>5, <1>6 DEF RefsOf, Has
<1>11. \A h \in Handle : PlacesOf(r, h) = PlacesOf(th[t], h)
  BY <1>1, <1>2, <1>5 DEF PlacesOf, Has
<1>12. sent' \in 0 .. MaxMessage /\ r.pc # "registered" /\ th[t].pc # "registered"
  BY <1>1, <1>4, <1>5 DEF IInv, Typed, Has
<1> QED
  BY <1>2, <1>4, <1>7, <1>8, <1>9, <1>10, <1>11, <1>12, QuietStep, SameQueues, SameWaiting

\* The worker that is done with the queue it releases.
DropDone(r) == [Return(r) EXCEPT !.dq = 0]
LEMMA DropReturns ==
    ASSUME IInv, NEW t \in Thread, th[t].pc \in {"mq_release", "drop"},
           NEW s, s = DropDone(th[t])
    PROVE  /\ s \in ThreadRec /\ Fits(t, s) /\ s.pc \in {"callback", "repop"} /\ ~InDrop(s)
           /\ UsesOf(s, known, ref, mq) /\ ~Deleting(s) /\ s.ctx = th[t].ctx /\ s.new = 0
           /\ \A h \in Handle : PlacesOf(th[t], h) = PlacesOf(s, h) + One(th[t].dq = h)
           /\ \A h \in Handle : RefsOf(s, h) = RefsOf(th[t], h)
<1>1. /\ t \in Worker /\ t # Timer /\ th[t] \in ThreadRec /\ th[t].dq \in Handle /\ th[t].stk # <<>>
      /\ Locals(th[t]) /\ UsesOf(th[t], known, ref, mq) /\ th[t].new = 0 /\ ~Deleting(th[t])
  BY DropIs
<1>2. PICK back \in {"callback", "repop"} : th[t].stk = <<back>> /\ Base(th[t]) = back
  BY DropIs
<1>3. Returned(th[t], s) /\ s.dq = 0
  BY <1>1, ReturnFields DEF DropDone
<1>4. Head(th[t].stk) = back /\ Tail(th[t].stk) = <<>>
  BY <1>2, Stack1 DEF PC, WorkerPC
<1>5. Has(s, back, <<>>, th[t].q, th[t].ctx, 0, 0, 0)
  BY <1>1, <1>3, <1>4 DEF Has, Returned
<1>6. Plain(s)
  BY <1>1, <1>2, <1>5 DEF Locals, Plain, Has, WorkerPC, Dispatching, Launching
<1>7. Fits(t, s) /\ Base(s) = back /\ ~InDrop(s) /\ ~Deleting(s)
  BY <1>1, <1>5, <1>6, PlainFits DEF Has
<1>8. UsesOf(s, known, ref, mq)
  BY <1>1, <1>5, <1>7 DEF UsesOf, Has
<1>9. \A h \in Handle : PlacesOf(th[t], h) = PlacesOf(s, h) + One(th[t].dq = h)
  BY <1>1, <1>5, NoSource DEF PlacesOf, One, Has
<1>10. \A h \in Handle : RefsOf(s, h) = RefsOf(th[t], h)
  BY <1>1, <1>2, <1>5, <1>7, NoSource DEF RefsOf, One, Has
<1> QED
  BY <1>5, <1>7, <1>8, <1>9, <1>10 DEF Has

\* It is not marked yet, and goes back to the others.
LEMMA ReleaseUnmarked ==
    ASSUME IInv, NEW t \in Thread, skynet_mq_release(t), ~mq[th[t].dq].release
    PROVE  IInv'
<1> DEFINE r == DropDone(th[t])
<1>1. th[t].pc = "mq_release"
  BY DEF skynet_mq_release, At
<1>2. t # Timer /\ th[t].dq \in Handle /\ ~Deleting(th[t])
  BY <1>1, DropIs
<1>3. /\ th' = [th EXCEPT ![t] = r] /\ gq' = Append(gq, th[t].dq)
      /\ UNCHANGED <<H, known, ref, mq, total, quit, sent>>
  BY DEF skynet_mq_release, Set, DropDone
<1>4. /\ r \in ThreadRec /\ Fits(t, r) /\ r.pc \in {"callback", "repop"}
      /\ UsesOf(r, known, ref, mq) /\ ~Deleting(r)
      /\ \A h \in Handle : PlacesOf(th[t], h) = PlacesOf(r, h) + One(th[t].dq = h)
      /\ \A h \in Handle : RefsOf(r, h) = RefsOf(th[t], h)
  BY <1>1, DropReturns
<1> HIDE DEF r
<1>5. /\ gq' \in Seq(Handle)
      /\ \A h \in Handle : PlacesOf(r, h) + Waiting(gq', h) = PlacesOf(th[t], h) + Waiting(gq, h)
  BY <1>2, <1>3, <1>4, PutBalance
<1>6. sent' \in 0 .. MaxMessage /\ r.pc # "registered" /\ th[t].pc # "registered"
  BY <1>1, <1>3, <1>4 DEF IInv, Typed
<1> QED
  BY <1>2, <1>3, <1>4, <1>5, <1>6, QuietStep, SameQueues

-----------------------------------------------------------------------------
(* Messages taken from a queue *)

\* A queue that a thread has is in use, and no other thread has it.
LEMMA HeldQueue ==
    ASSUME IInv, NEW t \in Thread, NEW h \in Handle, PlacesOf(th[t], h) >= 1
    PROVE  /\ ~mq[h].freed /\ InUse(mq[h]) = 1 /\ PlacesOf(th[t], h) = 1
           /\ \A u \in Thread : PlacesOf(th[u], h) >= 1 => u = t
<1>1. gq \in Seq(Handle) /\ QueueInOnePlace
  BY DEF IInv, Typed
<1>2. Cardinality(Places(h)) = InUse(mq[h])
  BY <1>1 DEF QueueInOnePlace, InUse
<1>3. /\ Cardinality(Places(h)) >= 1
      /\ \A u \in Thread : (PlacesOf(th[u], h) >= 1 /\ u # t) => Cardinality(Places(h)) >= 2
  BY <1>1, PlacesAtLeast
<1>4. InUse(mq[h]) \in {0, 1} /\ (InUse(mq[h]) = 1 => ~mq[h].freed)
  BY DEF InUse
<1>5. PlacesOf(th[t], h) <= Cardinality(Places(h))
  <2>1. \A S \in SUBSET Thread : Cardinality(S) \in Nat /\ Cardinality(S) >= One(t \in S)
    <3> SUFFICES ASSUME NEW S \in SUBSET Thread
                 PROVE  Cardinality(S) \in Nat /\ Cardinality(S) >= One(t \in S)
      OBVIOUS
    <3>1. /\ S \ {t} \in SUBSET Thread /\ t \notin S \ {t}
          /\ \A u \in Thread \ {t} : u \in S \ {t} <=> u \in S
      OBVIOUS
    <3>2. /\ Cardinality(S) \in Nat /\ Cardinality(S \ {t}) \in Nat
          /\ Cardinality(S) = Cardinality(S \ {t}) + One(t \in S) - One(t \in S \ {t})
      BY <3>1, OneThread
    <3> QED
      BY <3>1, <3>2 DEF One
  <2>2. /\ WorkerPlaces(h) \in SUBSET Thread /\ NextPlaces(h) \in SUBSET Thread
        /\ DropPlaces(h) \in SUBSET Thread /\ LaunchPlaces(h) \in SUBSET Thread
    BY DEF WorkerPlaces, NextPlaces, DropPlaces, LaunchPlaces
  <2>3. /\ t \in WorkerPlaces(h) <=> th[t].q = h
        /\ t \in NextPlaces(h) <=> (th[t].pc = "put_back" /\ th[t].obj = h)
        /\ t \in DropPlaces(h) <=> th[t].dq = h
        /\ t \in LaunchPlaces(h) <=> (th[t].new = h /\ th[t].pc # "registered")
    BY DEF WorkerPlaces, NextPlaces, DropPlaces, LaunchPlaces, At
  <2>4. Waiting(gq, h) \in Nat
    BY <1>1, PositionsFinite
  <2>5. Cardinality(Places(h)) = Waiting(gq, h) + Cardinality(WorkerPlaces(h))
           + Cardinality(NextPlaces(h)) + Cardinality(DropPlaces(h)) + Cardinality(LaunchPlaces(h))
    BY <1>1, PlacesSum DEF PlacesByKind
  <2> QED
    BY <2>1, <2>2, <2>3, <2>4, <2>5 DEF PlacesOf, One
<1>6. PlacesOf(th[t], h) \in Nat /\ PlacesOf(th[t], h) <= 1
  BY <1>2, <1>4, <1>5, CountTypes
<1> QED
  BY <1>2, <1>3, <1>4, <1>6

\* A message is taken from a queue that is in use.
LEMMA PopQueue ==
    ASSUME IInv, NEW x \in Handle, ~mq[x].freed, RingLength(mq[x].ring) > 0,
           mq' = [mq EXCEPT ![x].ring = RingPop(@)]
    PROVE  /\ mq' \in [Handle -> {mq'[h] : h \in Handle}]
           /\ \A h \in Handle : QueueOK(mq'[h]) /\ SameFlags(mq'[h], mq[h])
<1>1. /\ mq' \in [Handle -> {mq'[h] : h \in Handle}]
      /\ mq'[x] = [mq[x] EXCEPT !.ring = RingPop(@)]
      /\ \A h \in Handle \ {x} : mq'[h] = mq[h]
  BY DEF IInv, Typed
<1>2. QueueOK(mq[x])
  BY DEF IInv, Typed
<1> DEFINE p == RingPop(mq[x].ring)
<1>3. RingOK(p)
  <2>1. RingShape(mq[x].ring) /\ Contents(mq[x].ring) \in Seq(Message)
    BY <1>2 DEF QueueOK, RingOK
  <2>2. RingShape(p) /\ Contents(p) = Tail(Contents(mq[x].ring)) /\ Contents(mq[x].ring) # <<>>
    BY <2>1, PopContents
  <2> HIDE DEF p
  <2>3. Contents(p) \in Seq(Message)
    BY <2>1, <2>2
  <2> QED
    BY <2>2, <2>3 DEF RingOK
<1>4. mq'[x] = [ring |-> p, in_global |-> mq[x].in_global, release |-> mq[x].release,
                freed |-> mq[x].freed]
  BY <1>1, <1>2 DEF QueueOK
<1> HIDE DEF p
<1>5. QueueOK(mq'[x]) /\ SameFlags(mq'[x], mq[x])
  BY <1>2, <1>3, <1>4 DEF QueueOK, SameFlags
<1>6. \A h \in Handle \ {x} : QueueOK(mq'[h]) /\ SameFlags(mq'[h], mq[h])
  BY <1>1 DEF IInv, Typed, SameFlags
<1> QED
  BY <1>1, <1>5, <1>6

LEMMA MessageStep ==
    ASSUME IInv, NEW w \in Worker, skynet_mq_pop(w)
    PROVE  IInv'
<1> DEFINE p == IF At(w, "first") /\ Weight[w] >= 0 THEN "length" ELSE "callback"
           r == [th[w] EXCEPT !.pc = p]
<1>1. th[w].pc \in {"first", "next"} /\ th[w].pc \in WorkerPC
  BY DEF skynet_mq_pop, WorkerPC
<1>2. /\ w \in Thread /\ w # Timer /\ th[w] \in ThreadRec /\ Plain(th[w]) /\ Base(th[w]) = th[w].pc
      /\ UsesOf(th[w], known, ref, mq) /\ ~Deleting(th[w])
  BY <1>1, PlainIs
<1>3. /\ p \in {"length", "callback"} /\ p \in PC /\ p \in WorkerPC
      /\ p = "length" => Weight[w] >= 0
  BY DEF PC, WorkerPC
<1> HIDE DEF p
<1>4. /\ th' = [th EXCEPT ![w] = r] /\ UNCHANGED <<H, known, ref, gq, total, quit, sent>>
      /\ mq' = [mq EXCEPT ![th[w].q].ring = RingPop(@)] /\ RingLength(mq[th[w].q].ring) > 0
  BY <1>2, GotoIs DEF skynet_mq_pop, IInv, p
<1>5. th[w].q \in Handle /\ th[w].q = th[w].ctx /\ th[w].ctx # 0 /\ th[w].new = 0 /\ th[w].dq = 0
  BY <1>1, <1>2 DEF Plain, ThreadRec, Dispatching, Launching
<1>6. Has(r, p, th[w].stk, th[w].ctx, th[w].ctx, th[w].obj, 0, 0)
  BY <1>2, <1>3, <1>5 DEF Has, ThreadRec
<1> HIDE DEF r
<1>7. Plain(r)
  BY <1>2, <1>3, <1>5, <1>6 DEF Plain, Has, Dispatching, Launching
<1>8. Fits(w, r) /\ Base(r) = p /\ ~InDrop(r) /\ ~Deleting(r)
  BY <1>3, <1>6, <1>7, PlainFits DEF Has
<1>9. UsesOf(r, known, ref, mq)
  BY <1>2, <1>3, <1>5, <1>6, <1>8 DEF UsesOf, Has
<1>10. \A h \in Handle : RefsOf(r, h) = RefsOf(th[w], h)
  BY <1>1, <1>2, <1>3, <1>5, <1>6, <1>8, NoSource DEF RefsOf, One, Has
<1>11. \A h \in Handle : PlacesOf(r, h) = PlacesOf(th[w], h)
  BY <1>1, <1>3, <1>5, <1>6, NoSource DEF PlacesOf, One, Has
<1>12. PlacesOf(th[w], th[w].q) >= 1
  BY <1>1, <1>5, NoSource DEF PlacesOf, One
<1>13. ~mq[th[w].q].freed
  BY <1>2, <1>5, <1>12, HeldQueue
<1>14. /\ mq' \in [Handle -> {mq'[h] : h \in Handle}]
       /\ \A h \in Handle : QueueOK(mq'[h]) /\ SameFlags(mq'[h], mq[h])
  BY <1>4, <1>5, <1>13, PopQueue
<1>15. sent' \in 0 .. MaxMessage /\ r.pc # "registered" /\ th[w].pc # "registered"
  BY <1>1, <1>3, <1>4, <1>6 DEF IInv, Typed, Has
<1> QED
  BY <1>2, <1>4, <1>8, <1>9, <1>10, <1>11, <1>14, <1>15, QuietStep, SameWaiting

\* A call made in skynet_mq_release.
LEMMA NestedSend ==
    ASSUME NEW r \in ThreadRec, NEW back \in PC, r.stk = <<back>>, NEW c \in {0} \cup Handle,
           NEW m \in Message
    PROVE  /\ Has(SendCall(r, c, m, "drop"), "grab_dest", <<"drop", back>>, r.q, r.ctx, c, r.new, r.dq)
           /\ SendCall(r, c, m, "drop").msg = m
<1> DEFINE k == <<"drop">> \o r.stk
           s == [r EXCEPT !.pc = "grab_dest", !.stk = k]
<1>1. k = <<"drop", back>> /\ k \in Seq(PC) /\ "grab_dest" \in PC
  <2>1. "drop" \in PC /\ "grab_dest" \in PC
    BY DEF PC
  <2>2. <<"drop">> \o <<back>> = <<"drop", back>> /\ <<"drop", back>> \in Seq(PC)
    BY <2>1, Stack2
  <2> QED
    BY <2>1, <2>2
<1> HIDE DEF k
<1>2. Call(r, "grab_dest", "drop") = s
  BY DEF Call, k
<1>3. Has(s, "grab_dest", <<"drop", back>>, r.q, r.ctx, r.obj, r.new, r.dq)
  BY <1>1 DEF ThreadRec, Has
<1>4. SendCall(r, c, m, "drop") = [s EXCEPT !.obj = c, !.msg = m]
  BY <1>2 DEF SendCall
<1> HIDE DEF s
<1>5. /\ Has([s EXCEPT !.obj = c, !.msg = m], "grab_dest", <<"drop", back>>, r.q, r.ctx, c, r.new, r.dq)
      /\ [s EXCEPT !.obj = c, !.msg = m].msg = m
  BY <1>3 DEF ThreadRec, Has
<1> QED
  BY <1>4, <1>5

LEMMA DropMessageStep ==
    ASSUME IInv, NEW t \in Thread, drop_message(t)
    PROVE  IInv'
<1> DEFINE x == th[t].dq
           m == RingHead(mq[x].ring)
           e == [m EXCEPT !.src = x, !.err = TRUE]
           r == IF m.src = 0 THEN th[t] ELSE SendCall(th[t], m.src, e, "drop")
<1>1. th[t].pc = "drop"
  BY DEF drop_message, At
<1>2. /\ t \in Worker /\ t # Timer /\ th[t] \in ThreadRec /\ x \in Handle
      /\ Locals(th[t]) /\ UsesOf(th[t], known, ref, mq) /\ th[t].new = 0 /\ ~Deleting(th[t])
  BY <1>1, DropIs
<1>3. PICK back \in {"callback", "repop"} : th[t].stk = <<back>> /\ Base(th[t]) = back
  BY <1>1, DropIs
<1>4. /\ th' = [th EXCEPT ![t] = r] /\ UNCHANGED <<H, known, ref, gq, total, quit, sent>>
      /\ mq' = [mq EXCEPT ![x].ring = RingPop(@)] /\ RingLength(mq[x].ring) > 0
  <2>1. th \in [Thread -> ThreadRec]
    BY DEF IInv, Typed
  <2>2. CASE m.src = 0
    BY <2>1, <2>2 DEF drop_message
  <2>3. CASE m.src # 0
    BY <2>3 DEF drop_message, Set
  <2> QED
    BY <2>2, <2>3
<1>5. PlacesOf(th[t], x) >= 1
  BY <1>1, <1>2, NoSource DEF PlacesOf, One
<1>6. ~mq[x].freed
  BY <1>2, <1>5, HeldQueue
<1>7. /\ mq' \in [Handle -> {mq'[h] : h \in Handle}]
      /\ \A h \in Handle : QueueOK(mq'[h]) /\ SameFlags(mq'[h], mq[h])
  BY <1>2, <1>4, <1>6, PopQueue
<1>8. m \in Message
  <2>1. RingShape(mq[x].ring) /\ Contents(mq[x].ring) \in Seq(Message)
    BY <1>2 DEF IInv, Typed, QueueOK, RingOK
  <2>2. Contents(mq[x].ring) # <<>> /\ m = Head(Contents(mq[x].ring))
    BY <1>4, <2>1, PopContents
  <2> HIDE DEF m
  <2> QED
    BY <2>1, <2>2
<1> HIDE DEF m
<1>9. e \in Message /\ m.src \in {0} \cup Handle
  BY <1>2, <1>8 DEF Message
<1> HIDE DEF e
<1>10. /\ Fits(t, r) /\ UsesOf(r, known, ref, mq) /\ ~Deleting(r) /\ r.pc # "registered"
       /\ \A h \in Handle : RefsOf(r, h) = RefsOf(th[t], h)
       /\ \A h \in Handle : PlacesOf(r, h) = PlacesOf(th[t], h)
  <2>1. CASE m.src = 0
    <3>1. r = th[t]
      BY <2>1
    <3>2. WorkerControl(th[t])
      BY <1>2 DEF IInv, Control
    <3> HIDE DEF r
    <3> QED
      BY <1>1, <1>2, <3>1, <3>2 DEF Fits
  <2>2. CASE m.src # 0
    <3>1. r = SendCall(th[t], m.src, e, "drop")
      BY <2>2
    <3> HIDE DEF r
    <3>2. back \in PC
      BY DEF PC, WorkerPC
    <3>3. Has(r, "grab_dest", <<"drop", back>>, th[t].q, th[t].ctx, m.src, 0, x) /\ r.msg = e
      <4> DEFINE g == m.src
      <4>1. g \in {0} \cup Handle /\ e \in Message /\ th[t] \in ThreadRec /\ th[t].stk = <<back>>
        BY <1>2, <1>3, <1>9
      <4> HIDE DEF g
      <4>2. /\ Has(SendCall(th[t], g, e, "drop"), "grab_dest", <<"drop", back>>, th[t].q, th[t].ctx, g,
                    th[t].new, th[t].dq)
            /\ SendCall(th[t], g, e, "drop").msg = e
        BY <3>2, <4>1, NestedSend
      <4> QED
        BY <1>2, <3>1, <4>2 DEF g
    <3>4. /\ r.stk # <<>> /\ Head(r.stk) = "drop" /\ Base(r) = back
      <4>1. "drop" \in PC
        BY DEF PC
      <4>2. /\ <<"drop", back>> # <<>> /\ Head(<<"drop", back>>) = "drop" /\ Last(<<"drop", back>>) = back
        BY <3>2, <4>1, Stack2
      <4>3. r.stk = <<"drop", back>>
        BY <3>3 DEF Has
      <4> QED
        BY <4>2, <4>3 DEF Base
    <3>5. InDrop(r) /\ InDrop(th[t]) /\ Dropping(r) /\ Dropping(th[t]) /\ ~Deleting(r)
      BY <1>1, <3>3, <3>4 DEF InDrop, Dropping, Deleting, Has
    <3>6. WorkerControl(r)
      BY <3>3 DEF WorkerControl, SendStacks, Has
    <3>7. Locals(r)
      BY <1>2, <1>3, <1>9, <2>2, <3>3, <3>4, <3>5 DEF Locals, Has
    <3>8. UsesOf(r, known, ref, mq)
      BY <1>2, <3>3, <3>5 DEF UsesOf, Has
    <3>9. \A h \in Handle : RefsOf(r, h) = RefsOf(th[t], h)
      BY <1>1, <1>2, <1>3, <3>3, <3>4 DEF RefsOf, Has
    <3>10. \A h \in Handle : PlacesOf(r, h) = PlacesOf(th[t], h)
      BY <1>1, <1>2, <3>3 DEF PlacesOf, Has
    <3> QED
      BY <1>2, <3>3, <3>5, <3>6, <3>7, <3>8, <3>9, <3>10 DEF Fits, Has
  <2> QED
    BY <2>1, <2>2
<1> HIDE DEF r
<1>11. sent' \in 0 .. MaxMessage /\ th[t].pc # "registered"
  BY <1>1, <1>4 DEF IInv, Typed
<1> QED
  BY <1>2, <1>4, <1>7, <1>10, <1>11, QuietStep, SameWaiting

-----------------------------------------------------------------------------
(* A launch that fails, and the timer thread *)

FailedLocals(r) == [r EXCEPT !.pc = "mq_release", !.stk = <<"callback">>, !.new = 0, !.dq = r.new]

LEMMA FailedHas ==
    ASSUME NEW r \in ThreadRec
    PROVE  Has(FailedLocals(r), "mq_release", <<"callback">>, r.q, r.ctx, r.obj, 0, r.new)
<1> DEFINE z == 0
           k == <<"callback">>
<1>1. z \in {0} \cup Handle /\ z = 0 /\ k \in Seq(PC)
  BY Stack1 DEF PC, WorkerPC
<1>2. FailedLocals(r) = [r EXCEPT !.pc = "mq_release", !.stk = k, !.new = z, !.dq = r.new]
  BY DEF FailedLocals
<1> HIDE DEF z, k
<1>3. Has([r EXCEPT !.pc = "mq_release", !.stk = k, !.new = z, !.dq = r.new],
          "mq_release", k, r.q, r.ctx, r.obj, z, r.new)
  BY <1>1 DEF ThreadRec, Has, PC
<1> QED
  BY <1>1, <1>2, <1>3 DEF k

\* The service that could not be started is gone already.
LEMMA FailMissing ==
    ASSUME IInv, NEW w \in Worker, FailRetire(w), ~Found(H, th[w].new, known)
    PROVE  IInv'
<1> DEFINE r == FailedLocals(th[w])
<1>1. th[w].pc = "failed" /\ "failed" \in WorkerPC
  BY DEF FailRetire, At, WorkerPC
<1>2. w \in Thread /\ th[w] \in ThreadRec /\ Plain(th[w]) /\ Base(th[w]) = "failed"
  BY <1>1, PlainIs
<1>3. th' = [th EXCEPT ![w] = r] /\ UNCHANGED <<H, known, ref, mq, gq, total, quit, sent>>
  BY DEF FailRetire, Set, FailedLocals
<1>4. /\ th[w].stk = <<>> /\ th[w].q = th[w].ctx /\ th[w].ctx # 0
      /\ th[w].new \in Handle /\ th[w].new # 0 /\ th[w].dq = 0
  BY <1>1, <1>2 DEF Plain, ThreadRec, Dispatching, Launching
<1>5. Has(r, "mq_release", <<"callback">>, th[w].q, th[w].ctx, th[w].obj, 0, th[w].new)
  BY <1>2, FailedHas
<1> HIDE DEF r
<1>6. Fits(w, r) /\ Base(r) = "callback" /\ ~InDrop(r) /\ ~Deleting(r)
  <2>1. "callback" \in WorkerPC /\ "callback" \in Dispatching /\ "callback" \notin Launching
    BY DEF WorkerPC, Dispatching, Launching
  <2> QED
    BY <1>4, <1>5, <2>1, CallFits DEF Has
<1>7. \A h \in Handle : RefsOf(r, h) = RefsOf(th[w], h)
  BY <1>1, <1>2, <1>4, <1>5, <1>6, NoSource DEF RefsOf, One, Has
<1>8. \A h \in Handle : PlacesOf(r, h) = PlacesOf(th[w], h)
  BY <1>1, <1>4, <1>5, NoSource DEF PlacesOf, One, Has
<1> QED
  BY <1>1, <1>3, <1>4, <1>5, <1>6, <1>7, <1>8, WorkerQuiet, SameWaiting DEF IInv, Typed, Has

\* The timer thread between two of its calls.
LEMMA TimerIs ==
    ASSUME IInv, th[Timer].pc \in {"update", "exit"}
    PROVE  /\ Timer \in Thread /\ Timer \notin Worker /\ th[Timer] \in ThreadRec /\ th[Timer].stk = <<>>
           /\ Locals(th[Timer]) /\ UsesOf(th[Timer], known, ref, mq)
           /\ Base(th[Timer]) = th[Timer].pc
           /\ th[Timer].q = 0 /\ th[Timer].ctx = 0 /\ th[Timer].new = 0 /\ th[Timer].dq = 0
           /\ ~Deleting(th[Timer]) /\ th[Timer].pc # "registered"
<1>1. /\ Timer \in Thread /\ Timer \notin Worker /\ th[Timer] \in ThreadRec /\ TimerControl(th[Timer])
      /\ Locals(th[Timer]) /\ UsesOf(th[Timer], known, ref, mq)
  BY ServerAssumption DEF IInv, Thread, Typed, Control, Uses
<1>2. th[Timer].stk = <<>> /\ Base(th[Timer]) = th[Timer].pc /\ ~Deleting(th[Timer])
  BY <1>1 DEF TimerControl, Base, Deleting
<1> QED
  BY <1>1, <1>2 DEF Locals, Dispatching, Launching, Dropping

LEMMA TimeoutStep ==
    ASSUME IInv, NEW dest \in Handle, TimeoutPush(dest)
    PROVE  IInv'
<1> DEFINE m == [src |-> 0, session |-> sent', err |-> FALSE]
           r == SendCall(th[Timer], dest, m, "update")
<1>1. th[Timer].pc = "update"
  BY DEF TimeoutPush, At
<1>2. /\ Timer \in Thread /\ Timer \notin Worker /\ th[Timer] \in ThreadRec /\ th[Timer].stk = <<>>
      /\ UsesOf(th[Timer], known, ref, mq) /\ Base(th[Timer]) = th[Timer].pc
      /\ th[Timer].q = 0 /\ th[Timer].ctx = 0 /\ th[Timer].new = 0 /\ th[Timer].dq = 0
      /\ ~Deleting(th[Timer]) /\ th[Timer].pc # "registered"
  BY <1>1, TimerIs
<1>3. /\ th' = [th EXCEPT ![Timer] = r] /\ UNCHANGED <<H, known, ref, mq, gq, total, quit>>
      /\ sent' \in 1 .. MaxMessage /\ sent' \in 0 .. MaxMessage
  BY ServerAssumption DEF TimeoutPush, Set, IInv, Typed
<1>4. m \in Message
  BY <1>3 DEF Message
<1> HIDE DEF m
<1>5. Has(r, "grab_dest", <<"update">>, 0, 0, dest, 0, 0) /\ r.msg \in Message
  <2>1. "update" \in PC /\ dest \in {0} \cup Handle
    BY DEF PC
  <2>2. Has(r, "grab_dest", <<"update">>, th[Timer].q, th[Timer].ctx, dest, th[Timer].new, th[Timer].dq)
        /\ r.msg = m
    BY <1>2, <1>4, <2>1, SendHas
  <2> QED
    BY <1>2, <1>4, <2>2
<1> HIDE DEF r
<1>6. r.stk # <<>> /\ Head(r.stk) = "update" /\ Base(r) = "update"
  <2>1. "update" \in PC
    BY DEF PC
  <2>2. <<"update">> # <<>> /\ Head(<<"update">>) = "update" /\ Last(<<"update">>) = "update"
    BY <2>1, Stack1
  <2>3. r.stk = <<"update">>
    BY <1>5 DEF Has
  <2> QED
    BY <2>2, <2>3 DEF Base
<1>7. Fits(Timer, r) /\ ~InDrop(r) /\ ~Deleting(r)
  <2>1. TimerControl(r) /\ ~InDrop(r) /\ ~Deleting(r) /\ ~Dropping(r)
    BY <1>5, <1>6 DEF TimerControl, InDrop, Deleting, Dropping, Has
  <2>2. Locals(r)
    BY <1>5, <1>6, <2>1, NoSource DEF Locals, Has, Dispatching, Launching
  <2> QED
    BY <1>2, <1>5, <2>1, <2>2 DEF Fits, Has
<1>8. UsesOf(r, known, ref, mq)
  BY <1>5, <1>7 DEF UsesOf, Has
<1>9. \A h \in Handle : RefsOf(r, h) = RefsOf(th[Timer], h)
  BY <1>1, <1>2, <1>5, <1>6, NoSource DEF RefsOf, One, Has
<1>10. \A h \in Handle : PlacesOf(r, h) = PlacesOf(th[Timer], h)
  BY <1>1, <1>2, <1>5, NoSource DEF PlacesOf, One, Has
<1>11. r.pc # "registered" /\ r.pc # "exit"
  BY <1>5 DEF Has
<1> QED
  BY <1>2, <1>3, <1>7, <1>8, <1>9, <1>10, <1>11, QuietStep, SameQueues, SameWaiting

LEMMA TimerLoopStep ==
    ASSUME IInv, TimerLoop
    PROVE  IInv'
<1>1. UNCHANGED <<H, known, ref, mq, gq, total, quit, sent>>
  BY DEF TimerLoop, ServerState
<1>2. CASE total = 0 /\ Goto(Timer, "exit")
  <2> DEFINE r == [th[Timer] EXCEPT !.pc = "exit"]
  <2>1. th[Timer].pc = "update"
    BY DEF TimerLoop, At
  <2>2. /\ Timer \in Thread /\ Timer \notin Worker /\ th[Timer] \in ThreadRec /\ th[Timer].stk = <<>>
        /\ UsesOf(th[Timer], known, ref, mq) /\ Base(th[Timer]) = th[Timer].pc
        /\ th[Timer].q = 0 /\ th[Timer].ctx = 0 /\ th[Timer].new = 0 /\ th[Timer].dq = 0
        /\ ~Deleting(th[Timer]) /\ th[Timer].pc # "registered"
    BY <2>1, TimerIs
  <2>3. th' = [th EXCEPT ![Timer] = r]
    BY <1>2, <2>2, GotoIs DEF IInv
  <2>4. Has(r, "exit", <<>>, 0, 0, th[Timer].obj, 0, 0)
    BY <2>2 DEF Has, ThreadRec, PC
  <2> HIDE DEF r
  <2>5. Base(r) = "exit" /\ ~InDrop(r) /\ ~Deleting(r) /\ ~Dropping(r) /\ TimerControl(r)
    BY <2>4 DEF Base, InDrop, Deleting, Dropping, TimerControl, Has
  <2>6. Locals(r)
    BY <2>4, <2>5 DEF Locals, Has, Dispatching, Launching
  <2>7. Fits(Timer, r) /\ r.pc # "registered"
    BY <2>2, <2>4, <2>5, <2>6 DEF Fits, Has
  <2>8. UsesOf(r, known, ref, mq)
    BY <2>4, <2>5 DEF UsesOf, Has
  <2>9. \A h \in Handle : RefsOf(r, h) = RefsOf(th[Timer], h)
    BY <2>1, <2>2, <2>4, <2>5, NoSource DEF RefsOf, One, Has
  <2>10. \A h \in Handle : PlacesOf(r, h) = PlacesOf(th[Timer], h)
    BY <2>1, <2>2, <2>4, NoSource DEF PlacesOf, One, Has
  <2>11. sent' \in 0 .. MaxMessage
    BY <1>1 DEF IInv, Typed
  <2> QED
    BY <1>1, <1>2, <2>2, <2>3, <2>5, <2>7, <2>8, <2>9, <2>10, <2>11, QuietStep, SameQueues, SameWaiting
<1>3. CASE \E w \in Worker : At(w, "wait") /\ Goto(w, "woken")
  BY <1>1, <1>3, SleepStep DEF At
<1> QED
  BY <1>2, <1>3 DEF TimerLoop

\* The timer thread ends and wakes every worker that sleeps.
LEMMA TimerExitStep ==
    ASSUME IInv, TimerExit
    PROVE  IInv'
<1>1. th[Timer].pc = "exit" /\ quit' = TRUE /\ UNCHANGED <<H, known, ref, mq, gq, total, sent>>
  BY DEF TimerExit, At
<1>2. /\ Timer \in Thread /\ Timer \notin Worker /\ th[Timer] \in ThreadRec /\ th[Timer].stk = <<>>
      /\ Locals(th[Timer]) /\ Base(th[Timer]) = "exit"
  BY <1>1, TimerIs
<1>3. th \in [Thread -> ThreadRec] /\ \A u \in Thread : Locals(th[u])
  BY DEF IInv, Typed, Control
\* What a thread that has changed is.
<1> DEFINE Changed(u) ==
              /\ th'[u].stk = <<>> /\ th[u].stk = <<>>
              /\ \/ u = Timer /\ th[u].pc = "exit" /\ th'[u].pc = "done"
                 \/ u \in Worker /\ th[u].pc = "wait" /\ th'[u].pc = "woken"
<1>4. ASSUME NEW u \in Thread
      PROVE  /\ th'[u] \in ThreadRec
             /\ th'[u].q = th[u].q /\ th'[u].ctx = th[u].ctx /\ th'[u].obj = th[u].obj
             /\ th'[u].new = th[u].new /\ th'[u].dq = th[u].dq /\ th'[u].msg = th[u].msg
             /\ th'[u].stk = th[u].stk
             /\ Changed(u) \/ th'[u] = th[u]
             /\ u = Timer => Changed(u)
  <2>1. th[u] \in ThreadRec
    BY <1>3
  <2>2. CASE u = Timer
    <3> DEFINE r == [th[u] EXCEPT !.pc = "done"]
    <3>1. th'[u] = r
      BY <2>2 DEF TimerExit
    <3>2. /\ r \in ThreadRec /\ r.q = th[u].q /\ r.ctx = th[u].ctx /\ r.obj = th[u].obj
          /\ r.new = th[u].new /\ r.dq = th[u].dq /\ r.msg = th[u].msg /\ r.stk = th[u].stk
          /\ r.pc = "done"
      BY <2>1 DEF ThreadRec, PC, WorkerPC
    <3> HIDE DEF r
    <3> QED
      BY <1>1, <1>2, <2>2, <3>1, <3>2
  <2>3. CASE u # Timer /\ th[u].pc = "wait"
    <3> DEFINE r == [th[u] EXCEPT !.pc = "woken"]
    <3>1. th'[u] = r
      BY <2>3 DEF TimerExit, At
    <3>2. /\ r \in ThreadRec /\ r.q = th[u].q /\ r.ctx = th[u].ctx /\ r.obj = th[u].obj
          /\ r.new = th[u].new /\ r.dq = th[u].dq /\ r.msg = th[u].msg /\ r.stk = th[u].stk
          /\ r.pc = "woken"
      BY <2>1 DEF ThreadRec, PC, WorkerPC
    <3>3. u \in Worker
      BY <2>3 DEF Thread
    <3>4. th[u].stk = <<>>
      BY <2>3, <3>3 DEF IInv, Control, WorkerControl
    <3> HIDE DEF r
    <3> QED
      BY <2>3, <3>1, <3>2, <3>3, <3>4
  <2>4. CASE u # Timer /\ th[u].pc # "wait"
    <3>1. th'[u] = th[u]
      BY <2>4 DEF TimerExit, At
    <3> QED
      BY <1>3, <2>4, <3>1
  <2> QED
    BY <2>2, <2>3, <2>4
<1>5. ASSUME NEW u \in Thread, Changed(u)
      PROVE  /\ Base(th[u]) = th[u].pc /\ Base(th'[u]) = th'[u].pc
             /\ ~Deleting(th[u]) /\ ~Deleting(th'[u]) /\ ~InDrop(th'[u]) /\ ~Dropping(th'[u]) /\ ~Dropping(th[u])
  BY <1>5 DEF Base, Deleting, InDrop, Dropping
<1>6. th' \in [Thread -> ThreadRec]
  BY <1>4 DEF TimerExit
<1>7. Typed'
  <2>1. \A h \in Handle : QueueOK(mq[h])'
    BY <1>1 DEF IInv, Typed, QueueOK, RingOK, RingShape
  <2> QED
    BY <1>1, <1>6, <2>1 DEF IInv, Typed
<1>8. Control'
  <2>1. TimerControl(th'[Timer])
    BY <1>2, <1>4 DEF TimerControl
  <2>2. \A w \in Worker : WorkerControl(th'[w]) /\ (th'[w].pc = "length" => Weight[w] >= 0)
    <3> TAKE w \in Worker
    <3>1. w \in Thread
      BY DEF Thread
    <3>2. CASE Changed(w)
      BY <1>2, <3>2 DEF WorkerControl, WorkerPC
    <3>3. CASE th'[w] = th[w]
      BY <3>3 DEF IInv, Control, At
    <3> QED
      BY <1>4, <3>1, <3>2, <3>3
  <2>3. \A u \in Thread : Locals(th'[u])
    <3> TAKE u \in Thread
    <3>1. CASE Changed(u)
      BY <1>3, <1>4, <1>5, <3>1 DEF Locals, Dispatching, Launching
    <3>2. CASE th'[u] = th[u]
      BY <1>3, <3>2
    <3> QED
      BY <1>4, <3>1, <3>2
  <2>4. /\ TimerControl(th[Timer])' <=> TimerControl(th'[Timer])
        /\ \A w \in Worker : WorkerControl(th[w])' <=> WorkerControl(th'[w])
        /\ \A u \in Thread : Locals(th[u])' <=> Locals(th'[u])
    BY DEF TimerControl, WorkerControl, Locals, Base, Dropping
  <2> QED
    BY <2>1, <2>2, <2>3, <2>4 DEF Control, At
<1>9. Storage'
  BY <1>1 DEF IInv, Storage
<1>10. Life'
  <2>1. \A u \in Thread : th[u].pc = "registered" => th'[u].pc = "registered" /\ th'[u].new = th[u].new
    BY <1>4
  <2> QED
    BY <1>1, <2>1 DEF IInv, Life, At
<1>11. Uses'
  <2>1. \A u \in Thread : UsesOf(th'[u], known, ref, mq)
    <3> TAKE u \in Thread
    <3>1. UsesOf(th[u], known, ref, mq)
      BY DEF IInv, Uses
    <3>2. CASE Changed(u)
      BY <1>4, <1>5, <3>1, <3>2 DEF UsesOf
    <3> QED
      BY <1>4, <3>1, <3>2
  <2>2. \A u, v \in Thread : (Deleting(th'[u]) /\ Deleting(th'[v]) /\ th'[u].obj = th'[v].obj) => u = v
    BY <1>4, <1>5 DEF IInv, Uses
  <2>3. \A u, v \in Thread :
          (th'[u].pc = "registered" /\ th'[v].pc = "registered" /\ th'[u].new = th'[v].new) => u = v
    BY <1>4 DEF IInv, Uses, At
  <2>4. /\ \A u \in Thread : UsesOf(th[u], known, ref, mq)' <=> UsesOf(th'[u], known', ref', mq')
        /\ \A u \in Thread : Deleting(th[u])' <=> Deleting(th'[u])
    BY DEF UsesOf, Deleting, InDrop
  <2> QED
    BY <1>1, <2>1, <2>2, <2>3, <2>4 DEF Uses, At
<1>12. RefCounts'
  <2>1. ASSUME NEW u \in Thread
        PROVE  /\ th'[u].pc \in {"push", "release"} <=> th[u].pc \in {"push", "release"}
               /\ Base(th'[u]) \in {"registered", "init"} <=> Base(th[u]) \in {"registered", "init"}
    BY <1>4, <1>5
  <2>2. \A h \in Handle : Holders(h)' = Holders(h)
    <3> TAKE h \in Handle
    <3>1. {u \in Thread : th'[u].ctx = h} = {u \in Thread : th[u].ctx = h}
      BY <1>4
    <3>2. {u \in Thread : th'[u].obj = h /\ th'[u].pc \in {"push", "release"}}
            = {u \in Thread : th[u].obj = h /\ th[u].pc \in {"push", "release"}}
      BY <1>4, <2>1
    <3>3. {u \in Thread : th'[u].new = h /\ Base(th'[u]) \in {"registered", "init"}}
            = {u \in Thread : th[u].new = h /\ Base(th[u]) \in {"registered", "init"}}
      BY <1>4, <2>1
    <3>4. \A u \in Thread : Base(th[u])' = Base(th'[u])
      BY DEF Base
    <3>5. {u \in Thread : th'[u].new = h /\ Base(th[u])' \in {"registered", "init"}}
            = {u \in Thread : th[u].new = h /\ Base(th[u]) \in {"registered", "init"}}
      BY <3>3, <3>4
    <3>6. Contexts(H)' = Contexts(H)
      BY <1>1
    <3> QED
      BY <3>1, <3>2, <3>5, <3>6 DEF Holders
  <2> QED
    BY <1>1, <2>2 DEF IInv, RefCounts
<1>13. QueueInOnePlace'
  <2>1. \A h \in Handle : Places(h)' = Places(h)
    <3> TAKE h \in Handle
    <3>1. {u \in Thread : th'[u].q = h} = {u \in Thread : th[u].q = h}
      BY <1>4
    <3>2. {u \in Thread : th'[u].pc = "put_back" /\ th'[u].obj = h}
            = {u \in Thread : th[u].pc = "put_back" /\ th[u].obj = h}
      BY <1>4
    <3>3. {u \in Thread : th'[u].dq = h} = {u \in Thread : th[u].dq = h}
      BY <1>4
    <3>4. {u \in Thread : th'[u].new = h /\ ~(th'[u].pc = "registered")}
            = {u \in Thread : th[u].new = h /\ ~(th[u].pc = "registered")}
      BY <1>4
    <3> QED
      BY <1>1, <3>1, <3>2, <3>3, <3>4 DEF Places, At
  <2> QED
    BY <1>1, <2>1 DEF IInv, QueueInOnePlace
<1>14. Totals'
  <2>1. \A u \in Thread : Deleting(th'[u]) <=> Deleting(th[u])
    BY <1>4, <1>5
  <2>2. \A u \in Thread : Deleting(th[u])' <=> Deleting(th'[u])
    BY DEF Deleting
  <2>3. Counted' = Counted
    BY <1>1, <1>4, <2>1, <2>2 DEF Counted
  <2> QED
    BY <1>1, <2>3 DEF IInv, Totals, At
<1> QED
  BY <1>7, <1>8, <1>9, <1>10, <1>11, <1>12, <1>13, <1>14 DEF IInv

-----------------------------------------------------------------------------
(* Steps that change contexts, queues' flags or the handle storage *)

\* A step in which t comes to have locals r keeps count of references and of places,
\* and what threads use is as it should be.
RefsKept(t, r) ==
    \A h \in Handle : ref'[h] + RefsOf(th[t], h) + One(h \in Contexts(H))
                        = ref[h] + RefsOf(r, h) + One(h \in Contexts(H)')
PlacesKept(t, r) ==
    \A h \in Handle : InUse(mq'[h]) + PlacesOf(th[t], h) + Waiting(gq, h)
                        = InUse(mq[h]) + PlacesOf(r, h) + Waiting(gq', h)
UsesKept(t, r) ==
    /\ UsesOf(r, known', ref', mq')
    /\ \A u \in Thread \ {t} :
        /\ UsesOf(th[u], known', ref', mq')
        /\ (Deleting(r) /\ Deleting(th[u])) => th[u].obj # r.obj
        /\ (r.pc = "registered" /\ At(u, "registered")) => th[u].new # r.new
TypesKept ==
    /\ known' \subseteq Handle /\ ref' \in [Handle -> Nat] /\ gq' \in Seq(Handle) /\ total' \in Nat
    /\ mq' \in [Handle -> {mq'[h] : h \in Handle}]
    /\ \A h \in Handle : QueueOK(mq'[h])

\* What is left to show of any step of thread t.
LEMMA StepInv ==
    ASSUME IInv, NEW t \in Thread, NEW r, th' = [th EXCEPT ![t] = r], Fits(t, r),
           quit' = quit, sent' = sent, TypesKept, Storage', Life', Totals',
           UsesKept(t, r), RefsKept(t, r), PlacesKept(t, r)
    PROVE  IInv'
<1> USE DEF IInv, Fits, TypesKept
<1>1. th' \in [Thread -> ThreadRec]
  BY OneStep
<1>2. Typed'
  <2>1. \A h \in Handle : QueueOK(mq[h])'
    BY DEF QueueOK, RingOK
  <2>2. quit' \in BOOLEAN /\ sent' \in 0 .. MaxMessage
    BY DEF Typed
  <2> QED
    BY <1>1, <2>1, <2>2 DEF Typed
<1>3. Control'
  BY ControlStep
<1>4. Uses'
  BY UsesStep DEF UsesKept
<1>5. RefCounts'
  BY RefsStep DEF RefsKept
<1>6. QueueInOnePlace'
  BY OnePlaceStep DEF PlacesKept
<1> QED
  BY <1>2, <1>3, <1>4, <1>5, <1>6

\* A context that is found is in the table, so it has a reference.
LEMMA FoundIs ==
    ASSUME IInv, NEW h \in Handle, Found(H, h, known)
    PROVE  h \in known /\ h \in Contexts(H) /\ ref[h] \in Nat /\ ref[h] >= 1 /\ h % H.size \in 0 .. H.size - 1
<1>1. H.size \in Nat \ {0} /\ DOMAIN H.slot = 0 .. H.size - 1
  BY DEF IInv, Storage
<1>2. h % H.size \in 0 .. H.size - 1
  BY <1>1 DEF Handle
<1>3. h \in known /\ h \in Contexts(H)
  BY <1>1, <1>2, NoSource DEF Found, Contexts
<1>4. Timer \in Thread
  BY DEF Thread
<1>5. ref[h] = Cardinality(Holders(h)) /\ ref[h] \in Nat
  BY DEF IInv, RefCounts, Typed
<1>6. Cardinality(Holders(h)) >= RefsOf(th[Timer], h) + One(h \in Contexts(H))
  BY <1>4, RefsAtLeast
<1>7. RefsOf(th[Timer], h) \in Nat /\ One(h \in Contexts(H)) = 1
  BY <1>3, CountTypes DEF One
<1> QED
  BY <1>2, <1>3, <1>5, <1>6, <1>7

\* A thread takes a reference to a context that has one.
LEMMA RefUp ==
    ASSUME IInv, NEW t \in Thread, NEW r, th' = [th EXCEPT ![t] = r], Fits(t, r),
           NEW x \in Handle, x \in known, ref[x] >= 1, ref' = [ref EXCEPT ![x] = @ + 1],
           UNCHANGED <<H, known, mq, gq, total, quit, sent>>,
           UsesOf(r, known, ref, mq), ~Deleting(r), ~Deleting(th[t]),
           r.pc # "registered", th[t].pc # "registered", r.pc # "exit",
           \A h \in Handle : RefsOf(r, h) = RefsOf(th[t], h) + One(x = h),
           \A h \in Handle : PlacesOf(r, h) = PlacesOf(th[t], h)
    PROVE  IInv'
<1>1. /\ th'[t] = r
      /\ \A u \in Thread \ {t} : th'[u] = th[u]
  BY OneStep DEF IInv, Fits
<1>2. /\ ref \in [Handle -> Nat] /\ ref' \in [Handle -> Nat] /\ ref'[x] = ref[x] + 1
      /\ \A h \in Handle \ {x} : ref'[h] = ref[h]
      /\ \A h \in Handle : ref'[h] = ref[h] + One(x = h)
  BY SMTT(60) DEF IInv, Typed, One
<1>3. \A h \in Handle : (ref'[h] > 0 <=> ref[h] > 0) /\ (ref[h] = 0 => ref'[h] = 0)
  BY <1>2
<1>4. Storage'
  <2>1. \A h \in Handle : h >= H.index => ref'[h] = 0
    BY <1>3 DEF IInv, Storage
  <2>2. Contexts(H)' = Contexts(H)
    OBVIOUS
  <2> QED
    BY <2>1, <2>2 DEF IInv, Storage
<1>5. Life'
  <2>1. \A u \in Thread : th[u].pc = "registered" => th'[u].pc = "registered" /\ th'[u].new = th[u].new
    BY <1>1
  <2> QED
    BY <1>3, <2>1 DEF IInv, Life, At
<1>6. Totals'
  <2>1. Counted' = Counted
    BY <1>1, <1>3 DEF Counted, Deleting
  <2> QED
    BY <1>1, <2>1 DEF IInv, Totals, At, Thread
<1>7. UsesOf(r, known, ref', mq)
  BY DEF UsesOf
<1>8. \A u \in Thread \ {t} : UsesOf(th[u], known, ref', mq)
  <2> TAKE u \in Thread \ {t}
  <2>1. UsesOf(th[u], known, ref, mq) /\ th[u] \in ThreadRec /\ Locals(th[u])
    BY DEF IInv, Uses, Control, Typed
  <2>2. Deleting(th[u]) => th[u].obj \in Handle
    BY <2>1 DEF Deleting, Locals, ThreadRec
  <2> QED
    BY <1>3, <2>1, <2>2 DEF UsesOf
<1>9. RefsKept(t, r)
  <2> SUFFICES ASSUME NEW h \in Handle
               PROVE  ref'[h] + RefsOf(th[t], h) + One(h \in Contexts(H))
                        = ref[h] + RefsOf(r, h) + One(h \in Contexts(H)')
    BY DEF RefsKept
  <2>1. /\ ref'[h] = ref[h] + One(x = h) /\ ref[h] \in Nat
        /\ RefsOf(r, h) = RefsOf(th[t], h) + One(x = h)
    BY <1>2
  <2>2. /\ RefsOf(th[t], h) \in Nat /\ One(x = h) \in Nat /\ One(h \in Contexts(H)) \in Nat
        /\ One(h \in Contexts(H)') = One(h \in Contexts(H))
    BY CountTypes DEF One
  <2>3. \A a, b, c, d \in Nat : (a + b) + c + d = a + (c + b) + d
    OBVIOUS
  <2> QED
    BY <2>1, <2>2, <2>3
<1>10. PlacesKept(t, r)
  BY DEF PlacesKept
<1>11. TypesKept
  BY <1>2 DEF IInv, Typed, TypesKept
<1>12. UsesKept(t, r)
  BY <1>7, <1>8 DEF UsesKept
<1> QED
  BY <1>4, <1>5, <1>6, <1>9, <1>10, <1>11, <1>12, StepInv

\* The next step of skynet_send or skynet_context_release.
LEMMA CallGoes ==
    ASSUME IInv, NEW t \in Thread, NEW p, NEW r, r = [th[t] EXCEPT !.pc = p],
           <<th[t].pc, p>> \in {<<"grab_dest", "push">>, <<"push", "release">>,
                                <<"release", "mark">>, <<"mark", "dec">>}
    PROVE  /\ Fits(t, r) /\ r.pc = p /\ r.obj = th[t].obj /\ r.ctx = th[t].ctx /\ r.q = th[t].q
           /\ r.new = th[t].new /\ r.dq = th[t].dq /\ r.msg = th[t].msg
           /\ (InDrop(r) <=> InDrop(th[t]))
           /\ \A h \in Handle : PlacesOf(r, h) = PlacesOf(th[t], h)
           /\ \A h \in Handle : RefsOf(r, h) + One(th[t].obj = h /\ th[t].pc \in {"push", "release"})
                                  = RefsOf(th[t], h) + One(th[t].obj = h /\ p \in {"push", "release"})
<1>1. /\ th[t].pc \in {"grab_dest", "push", "release", "mark"} /\ th[t].pc \in CallPC
      /\ p \in {"push", "release", "mark", "dec"} /\ p \in PC
  BY DEF CallPC, PC
<1>2. /\ th[t] \in ThreadRec /\ th[t].stk # <<>> /\ th[t].obj \in Handle
      /\ Locals(th[t])
      /\ t = Timer => TimerControl(th[t]) /\ th[t].stk = <<"update">>
      /\ t \in Worker => WorkerControl(th[t]) /\ th[t].stk \in ReleaseStacks
      /\ th[t].pc \in {"grab_dest", "push"} =>
           th[t].msg \in Message /\ (t \in Worker => th[t].stk \in SendStacks)
  BY <1>1, CallIs
<1>3. /\ r \in ThreadRec /\ r.pc = p /\ r.stk = th[t].stk /\ r.obj = th[t].obj /\ r.ctx = th[t].ctx
      /\ r.q = th[t].q /\ r.new = th[t].new /\ r.dq = th[t].dq /\ r.msg = th[t].msg
  BY <1>1, <1>2 DEF ThreadRec
<1>4. Base(r) = Base(th[t]) /\ (InDrop(r) <=> InDrop(th[t])) /\ (Dropping(r) <=> Dropping(th[t]))
  BY <1>1, <1>2, <1>3 DEF Base, InDrop, Dropping
<1>5. Locals(r)
  BY <1>1, <1>2, <1>3, <1>4 DEF Locals
<1>6. t = Timer => TimerControl(r)
  BY <1>1, <1>2, <1>3 DEF TimerControl
<1>7. t \in Worker => WorkerControl(r)
  BY <1>1, <1>2, <1>3 DEF WorkerControl
<1>8. Fits(t, r)
  BY <1>1, <1>3, <1>5, <1>6, <1>7 DEF Fits
<1>9. \A h \in Handle : PlacesOf(r, h) = PlacesOf(th[t], h)
  BY <1>1, <1>3 DEF PlacesOf
<1>10. \A h \in Handle : RefsOf(r, h) + One(th[t].obj = h /\ th[t].pc \in {"push", "release"})
                           = RefsOf(th[t], h) + One(th[t].obj = h /\ p \in {"push", "release"})
  BY <1>3, <1>4 DEF RefsOf, One
<1> QED
  BY <1>3, <1>4, <1>8, <1>9, <1>10

\* The service a message is for is found.
LEMMA GrabDestFound ==
    ASSUME IInv, NEW t \in Thread, GrabDest(t), Found(H, th[t].obj, known)
    PROVE  IInv'
<1> DEFINE r == [th[t] EXCEPT !.pc = "push"]
           x == th[t].obj
<1>1. th[t].pc = "grab_dest"
  BY DEF GrabDest, At
<1>2. x \in Handle /\ UsesOf(th[t], known, ref, mq)
  BY <1>1, CallIs DEF CallPC
<1>3. x \in known /\ ref[x] >= 1
  BY <1>2, FoundIs
<1>4. /\ th' = [th EXCEPT ![t] = r] /\ ref' = [ref EXCEPT ![x] = @ + 1]
      /\ UNCHANGED <<H, known, mq, gq, total, quit, sent>>
  BY GotoIs DEF GrabDest, IInv
<1>5. /\ Fits(t, r) /\ r.pc = "push" /\ r.obj = x /\ r.ctx = th[t].ctx /\ r.new = th[t].new
      /\ r.dq = th[t].dq /\ (InDrop(r) <=> InDrop(th[t]))
      /\ \A h \in Handle : PlacesOf(r, h) = PlacesOf(th[t], h)
      /\ \A h \in Handle : RefsOf(r, h) + One(x = h /\ th[t].pc \in {"push", "release"})
                             = RefsOf(th[t], h) + One(x = h /\ "push" \in {"push", "release"})
  BY <1>1, CallGoes
<1> HIDE DEF r
<1>6. UsesOf(r, known, ref, mq) /\ ~Deleting(r) /\ ~Deleting(th[t])
  BY <1>1, <1>2, <1>3, <1>5 DEF UsesOf, Deleting
<1>7. \A h \in Handle : RefsOf(r, h) = RefsOf(th[t], h) + One(x = h)
  BY <1>1, <1>5, CountTypes DEF One
<1>8. r.pc # "registered" /\ th[t].pc # "registered" /\ r.pc # "exit"
  BY <1>1, <1>5
<1> QED
  BY <1>2, <1>3, <1>4, <1>5, <1>6, <1>7, <1>8, RefUp, ZenonT(60)

\* The context of a dispatched queue is found.
LEMMA GrabFound ==
    ASSUME IInv, NEW w \in Worker, skynet_handle_grab(w), Found(H, th[w].q, known)
    PROVE  IInv'
<1> DEFINE x == th[w].q
           o == 1
           r == [th[w] EXCEPT !.pc = "first", !.ctx = x, !.left = o]
<1>1. th[w].pc = "grab" /\ "grab" \in WorkerPC /\ "first" \in PC
  BY DEF skynet_handle_grab, At, WorkerPC, PC
<1>2. /\ w \in Thread /\ th[w] \in ThreadRec /\ Plain(th[w]) /\ Base(th[w]) = "grab"
      /\ UsesOf(th[w], known, ref, mq) /\ ~InDrop(th[w]) /\ ~Deleting(th[w])
  BY <1>1, PlainIs
<1>3. /\ th' = [th EXCEPT ![w] = r] /\ ref' = [ref EXCEPT ![x] = @ + 1]
      /\ UNCHANGED <<H, known, mq, gq, total, quit, sent>>
  BY DEF skynet_handle_grab, Set
<1>4. o \in Int
  OBVIOUS
<1> HIDE DEF o
<1>5. /\ x \in Handle /\ x # 0 /\ th[w].stk = <<>>
      /\ th[w].ctx = 0 /\ th[w].new = 0 /\ th[w].dq = 0
  BY <1>1, <1>2 DEF Plain, ThreadRec, Dispatching, Launching
<1>6. x \in known /\ ref[x] >= 1
  BY <1>5, FoundIs
<1>7. Has(r, "first", <<>>, x, x, th[w].obj, 0, 0)
  <2>1. x \in {0} \cup Handle
    BY <1>5
  <2>2. Has(r, "first", th[w].stk, x, x, th[w].obj, th[w].new, th[w].dq)
    <3> HIDE DEF x
    <3>1. th[w].q = x
      BY DEF x
    <3> QED
      BY <1>1, <1>2, <1>4, <2>1, <3>1 DEF Has, ThreadRec
  <2> QED
    BY <1>5, <2>2
<1> HIDE DEF r
<1>8. Plain(r)
  BY <1>5, <1>7 DEF Plain, Has, WorkerPC, Dispatching, Launching
<1>9. Fits(w, r) /\ Base(r) = "first" /\ ~InDrop(r) /\ ~Deleting(r)
  BY <1>7, <1>8, PlainFits DEF Has
<1>10. UsesOf(r, known, ref, mq)
  BY <1>6, <1>7, <1>9 DEF UsesOf, Has
<1>11. \A h \in Handle : RefsOf(r, h) = RefsOf(th[w], h) + One(x = h)
  BY <1>1, <1>2, <1>5, <1>7, <1>9, NoSource DEF RefsOf, One, Has
<1>12. \A h \in Handle : PlacesOf(r, h) = PlacesOf(th[w], h)
  BY <1>1, <1>5, <1>7, NoSource DEF PlacesOf, One, Has
<1>13. r.pc # "registered" /\ th[w].pc # "registered" /\ r.pc # "exit"
  BY <1>1, <1>7 DEF Has
<1> QED
  BY <1>2, <1>3, <1>5, <1>6, <1>9, <1>10, <1>11, <1>12, <1>13, RefUp

LEMMA HeldRef ==
    ASSUME IInv, NEW t \in Thread, NEW h \in Handle, RefsOf(th[t], h) >= 1
    PROVE  ref[h] \in Nat /\ ref[h] >= 1
<1>1. ref[h] = Cardinality(Holders(h)) /\ ref[h] \in Nat
  BY DEF IInv, RefCounts, Typed
<1>2. Cardinality(Holders(h)) >= RefsOf(th[t], h) + One(h \in Contexts(H))
  BY RefsAtLeast
<1>3. RefsOf(th[t], h) \in Nat /\ One(h \in Contexts(H)) \in Nat
  BY CountTypes DEF One
<1> QED
  BY <1>1, <1>2, <1>3

\* A reference is given up; the last one leads to delete_context.
LEMMA ReleaseStep ==
    ASSUME IInv, NEW t \in Thread, skynet_context_release(t)
    PROVE  IInv'
<1> DEFINE x == th[t].obj
           r == IF ref[x] = 1 THEN [th[t] EXCEPT !.pc = "mark"] ELSE Return(th[t])
<1>1. th[t].pc = "release"
  BY DEF skynet_context_release, At
<1>2. /\ x \in Handle /\ UsesOf(th[t], known, ref, mq) /\ x \in known /\ ~Deleting(th[t])
      /\ th[t].pc # "registered"
  BY <1>1, CallIs DEF CallPC, UsesOf, Deleting
<1>3. ref[x] \in Nat /\ ref[x] >= 1
  <2>1. RefsOf(th[t], x) >= 1
    BY <1>1 DEF RefsOf, One
  <2> QED
    BY <1>2, <2>1, HeldRef
<1>4. /\ th' = [th EXCEPT ![t] = r] /\ ref' = [ref EXCEPT ![x] = @ - 1]
      /\ UNCHANGED <<H, known, mq, gq, total, quit, sent>>
  BY GotoIs DEF skynet_context_release, IInv, Set
<1>5. /\ Fits(t, r) /\ r.pc # "registered" /\ r.pc # "exit"
      /\ \A h \in Handle : PlacesOf(r, h) = PlacesOf(th[t], h)
      /\ \A h \in Handle : RefsOf(th[t], h) = RefsOf(r, h) + One(x = h)
      /\ r.ctx = th[t].ctx /\ r.new = th[t].new /\ r.dq = th[t].dq /\ (InDrop(r) <=> InDrop(th[t]))
      /\ IF ref[x] = 1 THEN r.pc = "mark" /\ r.obj = x
                       ELSE ~Deleting(r) /\ r.pc \in AfterReturn
  <2>1. CASE ref[x] = 1
    <3>1. r = [th[t] EXCEPT !.pc = "mark"]
      BY <2>1
    <3> HIDE DEF r
    <3>2. /\ Fits(t, r) /\ r.pc = "mark" /\ r.obj = x /\ r.ctx = th[t].ctx /\ r.new = th[t].new
          /\ r.dq = th[t].dq /\ (InDrop(r) <=> InDrop(th[t]))
          /\ \A h \in Handle : PlacesOf(r, h) = PlacesOf(th[t], h)
          /\ \A h \in Handle : RefsOf(r, h) + One(x = h /\ th[t].pc \in {"push", "release"})
                                 = RefsOf(th[t], h) + One(x = h /\ "mark" \in {"push", "release"})
      BY <1>1, <3>1, CallGoes
    <3>3. \A h \in Handle : RefsOf(th[t], h) = RefsOf(r, h) + One(x = h)
      BY <1>1, <3>2, CountTypes DEF One
    <3> QED
      BY <2>1, <3>2, <3>3
  <2>2. CASE ref[x] # 1
    <3>1. r = Return(th[t])
      BY <2>2
    <3> HIDE DEF r
    <3>2. /\ r \in ThreadRec /\ Fits(t, r) /\ r.pc \in AfterReturn /\ (InDrop(r) <=> InDrop(th[t]))
          /\ r.ctx = th[t].ctx /\ r.new = th[t].new /\ r.dq = th[t].dq
          /\ ~Deleting(r) /\ r.pc # "registered"
          /\ \A h \in Handle : PlacesOf(r, h) = PlacesOf(th[t], h)
          /\ \A h \in Handle : RefsOf(th[t], h) = RefsOf(r, h) + One(th[t].pc = "release" /\ x = h)
      BY <1>1, <3>1, ReturnFits
    <3>3. \A h \in Handle : RefsOf(th[t], h) = RefsOf(r, h) + One(x = h)
      BY <1>1, <3>2 DEF One
    <3> QED
      BY <2>2, <3>2, <3>3 DEF AfterReturn
  <2> QED
    BY <2>1, <2>2
<1> HIDE DEF r
<1>6. /\ th'[t] = r
      /\ \A u \in Thread \ {t} : th'[u] = th[u]
  BY <1>4, <1>5, OneStep DEF IInv, Fits
<1> HIDE DEF x
<1>7. /\ ref \in [Handle -> Nat] /\ ref' \in [Handle -> Nat] /\ ref'[x] = ref[x] - 1
      /\ \A h \in Handle \ {x} : ref'[h] = ref[h]
      /\ \A h \in Handle : ref[h] = ref'[h] + One(x = h)
      /\ \A h \in Handle : (ref'[h] > 0 => ref[h] > 0) /\ (ref[h] = 0 => ref'[h] = 0)
  <2> DEFINE n == ref[x] - 1
  <2>1. n \in Nat /\ n + 1 = ref[x] /\ ref \in [Handle -> Nat] /\ ref' = [ref EXCEPT ![x] = n] /\ x \in Handle
    BY <1>2, <1>3, <1>4 DEF IInv, Typed, x
  <2>2. n = ref[x] - 1
    OBVIOUS
  <2> HIDE DEF n
  <2>3. ref' \in [Handle -> Nat] /\ ref'[x] = n /\ \A h \in Handle \ {x} : ref'[h] = ref[h]
    BY <2>1
  <2>4. \A h \in Handle : ref[h] = ref'[h] + One(x = h)
    BY <2>1, <2>3 DEF One
  <2>5. \A h \in Handle : (ref'[h] > 0 => ref[h] > 0) /\ (ref[h] = 0 => ref'[h] = 0)
    BY <1>3, <2>1, <2>3
  <2> QED
    BY <2>1, <2>2, <2>3, <2>4, <2>5
<1>8. Storage'
  <2>1. \A h \in Handle : h >= H.index => ref'[h] = 0
    BY <1>7 DEF IInv, Storage
  <2>2. Contexts(H)' = Contexts(H)
    BY <1>4
  <2> QED
    BY <1>4, <2>1, <2>2 DEF IInv, Storage
<1>9. Life'
  <2>1. \A u \in Thread : th[u].pc = "registered" => th'[u].pc = "registered" /\ th'[u].new = th[u].new
    BY <1>2, <1>6
  <2> QED
    BY <1>4, <1>7, <2>1 DEF IInv, Life, At
<1>10. \A u \in Thread : Deleting(th[u]) => th[u].obj \in Handle /\ th[u].obj # x /\ ref[th[u].obj] = 0
  <2> TAKE u \in Thread
  <2>1. UsesOf(th[u], known, ref, mq) /\ th[u] \in ThreadRec /\ Locals(th[u])
    BY DEF IInv, Uses, Control, Typed
  <2> QED
    BY <1>3, <2>1 DEF Deleting, Locals, ThreadRec, UsesOf
<1>11. Totals'
  <2>1. x \in Counted
    BY <1>2, <1>3 DEF Counted, x
  <2>2. ref'[x] > 0 \/ (Deleting(r) /\ r.obj = x)
    BY <1>3, <1>5, <1>7 DEF Deleting
  <2>3. \A h \in Handle : h \in Counted' <=> \/ h \in known /\ ref'[h] > 0
                                             \/ \E u \in Thread : Deleting(th'[u]) /\ th'[u].obj = h
    BY <1>4 DEF Counted, Deleting
  <2>4. x \in Counted'
    BY <1>2, <1>6, <2>2, <2>3 DEF x
  <2>5. \A h \in Handle \ {x} : h \in Counted' <=> h \in Counted
    <3> TAKE h \in Handle \ {x}
    <3>1. ref'[h] = ref[h]
      BY <1>7
    <3>2. Deleting(r) => r.obj = x
      BY <1>5 
    <3>3. (\E u \in Thread : Deleting(th'[u]) /\ th'[u].obj = h)
            <=> (\E u \in Thread : Deleting(th[u]) /\ th[u].obj = h)
      BY <1>2, <1>6, <3>2
    <3> QED
      BY <2>3, <3>1, <3>3 DEF Counted
  <2>6. Counted' = Counted
    BY <2>1, <2>4, <2>5 DEF Counted
  <2> QED
    BY <1>4, <1>5, <1>6, <2>6 DEF IInv, Totals, At, Thread
<1>12. UsesKept(t, r)
  <2>1. UsesOf(r, known, ref', mq)
    <3>1. ~mq[x].freed /\ ~mq[x].release
      BY <1>2, <1>3 DEF IInv, Life, x
    <3>2. CASE ref[x] = 1
      BY <1>2, <1>5, <1>7, <3>1, <3>2 DEF UsesOf, Deleting, x
    <3>3. CASE ref[x] # 1
      BY <1>1, <1>2, <1>5, <3>3 DEF UsesOf, Deleting, AfterReturn
    <3> QED
      BY <3>2, <3>3
  <2>2. \A u \in Thread \ {t} : UsesOf(th[u], known, ref', mq)
    <3> TAKE u \in Thread \ {t}
    <3>1. UsesOf(th[u], known, ref, mq)
      BY DEF IInv, Uses
    <3> QED
      BY <1>7, <1>10, <3>1 DEF UsesOf
  <2>3. Deleting(r) => r.obj = x
    BY <1>5
  <2> QED
    BY <1>4, <1>5, <1>10, <2>1, <2>2, <2>3 DEF UsesKept
<1>13. RefsKept(t, r)
  <2> SUFFICES ASSUME NEW h \in Handle
               PROVE  ref'[h] + RefsOf(th[t], h) + One(h \in Contexts(H))
                        = ref[h] + RefsOf(r, h) + One(h \in Contexts(H)')
    BY DEF RefsKept
  <2>1. /\ ref[h] = ref'[h] + One(x = h) /\ ref'[h] \in Nat
        /\ RefsOf(th[t], h) = RefsOf(r, h) + One(x = h)
    BY <1>5, <1>7
  <2>2. /\ RefsOf(r, h) \in Nat /\ One(x = h) \in Nat /\ One(h \in Contexts(H)) \in Nat
        /\ One(h \in Contexts(H)') = One(h \in Contexts(H))
    BY <1>4, CountTypes DEF One
  <2>3. \A a, b, c, d \in Nat : a + (c + b) + d = (a + b) + c + d
    OBVIOUS
  <2> QED
    BY <2>1, <2>2, <2>3
<1>14. PlacesKept(t, r)
  BY <1>4, <1>5 DEF PlacesKept
<1>15. TypesKept
  BY <1>4, <1>7 DEF IInv, Typed, TypesKept
<1>16. quit' = quit /\ sent' = sent
  BY <1>4
<1> QED
  BY <1>4, <1>5, <1>8, <1>9, <1>11, <1>12, <1>13, <1>14, <1>15, <1>16, StepInv

\* A step that changes what a queue is marked with.
LEMMA QueueStep ==
    ASSUME IInv, NEW t \in Thread, NEW r, th' = [th EXCEPT ![t] = r], Fits(t, r),
           UNCHANGED <<H, known, ref, total, quit, sent>>,
           TypesKept, UsesKept(t, r), PlacesKept(t, r),
           Deleting(r) <=> Deleting(th[t]), Deleting(r) => r.obj = th[t].obj,
           r.pc # "registered", th[t].pc # "registered", r.pc # "exit",
           \A h \in Handle : RefsOf(r, h) = RefsOf(th[t], h),
           \A h \in Handle : h \notin known => mq'[h].freed,
           \A h \in Handle : (h \in known /\ ref[h] > 0) => ~mq'[h].freed /\ ~mq'[h].release
    PROVE  IInv'
<1>1. /\ th'[t] = r
      /\ \A u \in Thread \ {t} : th'[u] = th[u]
  BY OneStep DEF IInv, Fits
<1>2. Storage'
  BY DEF IInv, Storage
<1>3. Life'
  <2>1. \A u \in Thread : th[u].pc = "registered" => th'[u].pc = "registered" /\ th'[u].new = th[u].new
    BY <1>1
  <2>2. \A h \in Handle : (h \notin known /\ ref[h] > 0) => \E u \in Thread : th[u].pc = "registered" /\ th[u].new = h
    BY DEF IInv, Life, At
  <2> QED
    BY <2>1, <2>2 DEF Life, At
<1>4. Totals'
  <2>1. Counted' = Counted
    BY <1>1 DEF Counted, Deleting
  <2> QED
    BY <1>1, <2>1 DEF IInv, Totals, At, Thread
<1>5. RefsKept(t, r)
  <2>1. ref' = ref /\ Contexts(H)' = Contexts(H)
    OBVIOUS
  <2> QED
    BY <2>1 DEF RefsKept
<1> QED
  BY <1>2, <1>3, <1>4, <1>5, StepInv

\* A queue that comes into use is put in the global queue.
LEMMA EnqueueKeeps ==
    ASSUME IInv, NEW x \in Handle, ~mq[x].freed, ~mq[x].release,
           ~mq'[x].freed, mq'[x].in_global \/ mq'[x].release,
           \A h \in Handle \ {x} : mq'[h] = mq[h],
           gq' = IF mq[x].in_global THEN gq ELSE Append(gq, x),
           NEW t, NEW r, \A h \in Handle : PlacesOf(r, h) = PlacesOf(th[t], h)
    PROVE  gq' \in Seq(Handle) /\ PlacesKept(t, r)
<1>1. gq \in Seq(Handle)
  BY DEF IInv, Typed
<1>2. gq' \in Seq(Handle)
  BY <1>1
<1>3. ASSUME NEW h \in Handle
      PROVE  InUse(mq'[h]) + PlacesOf(th[t], h) + Waiting(gq, h)
               = InUse(mq[h]) + PlacesOf(r, h) + Waiting(gq', h)
  <2>1. /\ Waiting(gq, h) \in Nat /\ PlacesOf(th[t], h) \in Nat /\ InUse(mq[h]) \in Nat
        /\ InUse(mq'[h]) \in Nat /\ PlacesOf(r, h) = PlacesOf(th[t], h)
    BY <1>1, PositionsFinite, CountTypes
  <2>2. CASE mq[x].in_global \/ h # x
    <3>1. InUse(mq'[h]) = InUse(mq[h])
      BY <2>2 DEF InUse
    <3>2. Waiting(gq', h) = Waiting(gq, h)
      <4>1. CASE mq[x].in_global
        BY <4>1
      <4>2. CASE h # x /\ ~mq[x].in_global
        <5>1. Waiting(gq', h) = Waiting(gq, h) + One(x = h)
          BY <1>1, <4>2, WaitingAppend
        <5> QED
          BY <2>1, <4>2, <5>1 DEF One
      <4> QED
        BY <2>2, <4>1, <4>2
    <3> QED
      BY <2>1, <3>1, <3>2
  <2>3. CASE ~mq[x].in_global /\ h = x
    <3>1. InUse(mq'[h]) = 1 /\ InUse(mq[h]) = 0
      BY <2>3 DEF InUse
    <3>2. Waiting(gq', h) = Waiting(gq, h) + 1
      BY <1>1, <2>3, WaitingAppend DEF One
    <3>3. \A a, b \in Nat : 1 + a + b = 0 + a + (b + 1)
      OBVIOUS
    <3> QED
      BY <2>1, <3>1, <3>2, <3>3
  <2> QED
    BY <2>2, <2>3
<1> QED
  BY <1>2, <1>3 DEF PlacesKept

\* Threads other than t see the queues that have changed as they should.
LEMMA OthersUse ==
    ASSUME IInv, NEW t \in Thread, NEW x \in Handle, NEW Q,
           \A h \in Handle \ {x} : Q[h] = mq[h],
           \A u \in Thread \ {t} : (th[u].pc = "mark" /\ th[u].obj = x) => ~Q[x].freed /\ ~Q[x].release,
           \A u \in Thread \ {t} : (InDrop(th[u]) /\ th[u].dq = x) => Q[x].release
    PROVE  \A u \in Thread \ {t} : UsesOf(th[u], known, ref, Q)
<1> TAKE u \in Thread \ {t}
<1>1. UsesOf(th[u], known, ref, mq) /\ th[u] \in ThreadRec /\ Locals(th[u])
  BY DEF IInv, Uses, Control, Typed
<1>2. InDrop(th[u]) => th[u].dq \in Handle
  BY <1>1 DEF InDrop, Locals, Dropping, ThreadRec
<1>3. th[u].pc = "mark" => th[u].obj \in Handle
  BY <1>1 DEF Locals, ThreadRec
<1> QED
  BY <1>1, <1>2, <1>3 DEF UsesOf

\* A queue of which some fields change.
LEMMA QueueFields ==
    ASSUME NEW m, m = [ring |-> m.ring, in_global |-> m.in_global, release |-> m.release, freed |-> m.freed],
           NEW p, NEW b
    PROVE  /\ [m EXCEPT !.ring = p, !.in_global = b]
                = [ring |-> p, in_global |-> b, release |-> m.release, freed |-> m.freed]
           /\ [m EXCEPT !.in_global = b]
                = [ring |-> m.ring, in_global |-> b, release |-> m.release, freed |-> m.freed]
           /\ [m EXCEPT !.release = b]
                = [ring |-> m.ring, in_global |-> m.in_global, release |-> b, freed |-> m.freed]
           /\ [m EXCEPT !.freed = b]
                = [ring |-> m.ring, in_global |-> m.in_global, release |-> m.release, freed |-> b]
<1>1. [m EXCEPT !.in_global = b]
        = [ring |-> m.ring, in_global |-> b, release |-> m.release, freed |-> m.freed]
  OBVIOUS
<1>2. [m EXCEPT !.release = b]
        = [ring |-> m.ring, in_global |-> m.in_global, release |-> b, freed |-> m.freed]
  OBVIOUS
<1>3. [m EXCEPT !.ring = p] = [ring |-> p, in_global |-> m.in_global, release |-> m.release, freed |-> m.freed]
  OBVIOUS
<1>4. [m EXCEPT !.ring = p, !.in_global = b] = [[m EXCEPT !.ring = p] EXCEPT !.in_global = b]
  OBVIOUS
<1>5. [[m EXCEPT !.ring = p] EXCEPT !.in_global = b]
        = [ring |-> p, in_global |-> b, release |-> m.release, freed |-> m.freed]
  <2> DEFINE k == [m EXCEPT !.ring = p]
  <2>1. k.ring = p /\ k.release = m.release /\ k.freed = m.freed /\ k.in_global = m.in_global
    BY <1>3
  <2>2. k = [ring |-> k.ring, in_global |-> k.in_global, release |-> k.release, freed |-> k.freed]
    BY <1>3, <2>1
  <2> HIDE DEF k
  <2>3. [k EXCEPT !.in_global = b]
          = [ring |-> k.ring, in_global |-> b, release |-> k.release, freed |-> k.freed]
    BY <2>2
  <2> QED
    BY <2>1, <2>3 DEF k
<1>6. [m EXCEPT !.freed = b]
        = [ring |-> m.ring, in_global |-> m.in_global, release |-> m.release, freed |-> b]
  OBVIOUS
<1> QED
  BY <1>1, <1>2, <1>4, <1>5, <1>6

LEMMA PushStep ==
    ASSUME IInv, NEW t \in Thread, skynet_mq_push(t)
    PROVE  IInv'
<1> DEFINE x == th[t].obj
           r == [th[t] EXCEPT !.pc = "release"]
           p == RingPush(mq[x].ring, th[t].msg)
<1>1. th[t].pc = "push"
  BY DEF skynet_mq_push, At
<1>2. /\ x \in Handle /\ UsesOf(th[t], known, ref, mq) /\ x \in known /\ ~Deleting(th[t])
      /\ th[t].pc # "registered" /\ th[t].msg \in Message
  BY <1>1, CallIs DEF CallPC, UsesOf, Deleting
<1>3. ref[x] \in Nat /\ ref[x] >= 1
  <2>1. RefsOf(th[t], x) >= 1
    BY <1>1 DEF RefsOf, One
  <2> QED
    BY <1>2, <2>1, HeldRef
<1>4. ~mq[x].freed /\ ~mq[x].release
  BY <1>2, <1>3 DEF IInv, Life
<1>5. /\ th' = [th EXCEPT ![t] = r]
      /\ mq' = [mq EXCEPT ![x].ring = RingPush(@, th[t].msg), ![x].in_global = TRUE]
      /\ gq' = IF mq[x].in_global THEN gq ELSE Append(gq, x)
      /\ UNCHANGED <<H, known, ref, total, quit, sent>>
  BY GotoIs DEF skynet_mq_push, IInv
<1>6. /\ Fits(t, r) /\ r.pc = "release" /\ r.obj = x /\ r.ctx = th[t].ctx /\ r.new = th[t].new
      /\ r.dq = th[t].dq /\ (InDrop(r) <=> InDrop(th[t]))
      /\ \A h \in Handle : PlacesOf(r, h) = PlacesOf(th[t], h)
      /\ \A h \in Handle : RefsOf(r, h) + One(x = h /\ th[t].pc \in {"push", "release"})
                             = RefsOf(th[t], h) + One(x = h /\ "release" \in {"push", "release"})
  BY <1>1, CallGoes
<1> HIDE DEF r
<1>7. \A h \in Handle : RefsOf(r, h) = RefsOf(th[t], h)
  BY <1>1, <1>6, CountTypes DEF One
<1>8. /\ QueueOK(mq[x]) /\ RingOK(p)
      /\ mq' \in [Handle -> {mq'[h] : h \in Handle}]
      /\ mq'[x] = [ring |-> p, in_global |-> TRUE, release |-> FALSE, freed |-> FALSE]
      /\ \A h \in Handle \ {x} : mq'[h] = mq[h]
  <2>1. mq \in [Handle -> {mq[h] : h \in Handle}] /\ QueueOK(mq[x])
    BY <1>2 DEF IInv, Typed
  <2>2. /\ mq[x] = [ring |-> mq[x].ring, in_global |-> mq[x].in_global,
                    release |-> mq[x].release, freed |-> mq[x].freed]
        /\ mq[x].release = FALSE /\ mq[x].freed = FALSE
    BY <1>4, <2>1 DEF QueueOK
  <2>3. RingShape(mq[x].ring) /\ Contents(mq[x].ring) \in Seq(Message)
    BY <2>1 DEF QueueOK, RingOK
  <2>4. RingShape(p) /\ Contents(p) = Append(Contents(mq[x].ring), th[t].msg)
    BY <1>2, <2>3, PushContents DEF Cell
  <2>5. /\ mq' \in [Handle -> {mq'[h] : h \in Handle}]
        /\ mq'[x] = [mq[x] EXCEPT !.ring = p, !.in_global = TRUE]
        /\ \A h \in Handle \ {x} : mq'[h] = mq[h]
    BY <1>2, <1>5, <2>1
  <2> HIDE DEF p
  <2>6. RingOK(p)
    BY <1>2, <2>3, <2>4 DEF RingOK
  <2>7. mq'[x] = [ring |-> p, in_global |-> TRUE, release |-> FALSE, freed |-> FALSE]
    <3>1. [mq[x] EXCEPT !.ring = p, !.in_global = TRUE]
            = [ring |-> p, in_global |-> TRUE, release |-> mq[x].release, freed |-> mq[x].freed]
      BY <2>2, QueueFields, ZenonT(60)
    <3> QED
      BY <2>2, <2>5, <3>1
  <2> QED
    BY <2>1, <2>5, <2>6, <2>7
<1> HIDE DEF p, x
<1>9. gq' \in Seq(Handle) /\ PlacesKept(t, r)
  <2>1. ~mq'[x].freed /\ mq'[x].in_global /\ x \in Handle
    BY <1>2, <1>8 DEF x
  <2>2. /\ \A h \in Handle \ {x} : mq'[h] = mq[h]
        /\ gq' = IF mq[x].in_global THEN gq ELSE Append(gq, x)
        /\ \A h \in Handle : PlacesOf(r, h) = PlacesOf(th[t], h)
    BY <1>5, <1>6, <1>8
  <2> QED
    BY <1>4, <2>1, <2>2, EnqueueKeeps
<1>10. TypesKept
  <2>1. QueueOK(mq'[x])
    BY <1>8 DEF QueueOK
  <2>2. \A h \in Handle : QueueOK(mq'[h])
    BY <1>8, <2>1 DEF IInv, Typed
  <2> QED
    BY <1>5, <1>8, <1>9, <2>2 DEF IInv, Typed, TypesKept
<1>11. UsesKept(t, r)
  <2>1. \A u \in Thread \ {t} : (InDrop(th[u]) /\ th[u].dq = x) => mq[x].release
    BY DEF IInv, Uses, UsesOf
  <2>2. \A u \in Thread \ {t} : UsesOf(th[u], known, ref, mq')
    BY <1>2, <1>4, <1>8, <2>1, OthersUse
  <2>3. InDrop(r) => mq'[r.dq].release
    <3>1. InDrop(th[t]) => mq[th[t].dq].release /\ th[t].dq \in Handle
      BY <1>2 DEF UsesOf, InDrop, IInv, Control, Typed, Locals, Dropping, ThreadRec
    <3> QED
      BY <1>4, <1>6, <1>8, <3>1
  <2>4. UsesOf(r, known, ref, mq')
    BY <1>1, <1>2, <1>6, <2>3 DEF UsesOf, Deleting, x
  <2>5. ~Deleting(r)
    BY <1>6 DEF Deleting
  <2> QED
    BY <1>5, <1>6, <2>2, <2>4, <2>5 DEF UsesKept
<1>12. /\ ~Deleting(r) /\ r.pc # "registered" /\ r.pc # "exit"
  BY <1>6 DEF Deleting
<1>13. \A h \in Handle : h \notin known => mq'[h].freed
  BY <1>2, <1>8 DEF IInv, Life, x
<1>14. \A h \in Handle : (h \in known /\ ref[h] > 0) => ~mq'[h].freed /\ ~mq'[h].release
  BY <1>8 DEF IInv, Life
<1> QED
  BY <1>2, <1>5, <1>6, <1>7, <1>9, <1>10, <1>11, <1>12, <1>13, <1>14, QueueStep

LEMMA MarkStep ==
    ASSUME IInv, NEW t \in Thread, skynet_mq_mark_release(t)
    PROVE  IInv'
<1> DEFINE x == th[t].obj
           r == [th[t] EXCEPT !.pc = "dec"]
<1>1. th[t].pc = "mark"
  BY DEF skynet_mq_mark_release, At
<1>2. /\ x \in Handle /\ UsesOf(th[t], known, ref, mq) /\ th[t].pc # "registered"
  BY <1>1, CallIs DEF CallPC
<1>3. x \in known /\ Deleting(th[t]) /\ ref[x] = 0 /\ ~mq[x].freed /\ ~mq[x].release
  BY <1>1, <1>2 DEF UsesOf, Deleting
<1>4. /\ th' = [th EXCEPT ![t] = r]
      /\ mq' = [mq EXCEPT ![x].release = TRUE]
      /\ gq' = IF mq[x].in_global THEN gq ELSE Append(gq, x)
      /\ UNCHANGED <<H, known, ref, total, quit, sent>>
  BY GotoIs DEF skynet_mq_mark_release, IInv
<1>5. /\ Fits(t, r) /\ r.pc = "dec" /\ r.obj = x /\ r.ctx = th[t].ctx /\ r.new = th[t].new
      /\ r.dq = th[t].dq /\ (InDrop(r) <=> InDrop(th[t]))
      /\ \A h \in Handle : PlacesOf(r, h) = PlacesOf(th[t], h)
      /\ \A h \in Handle : RefsOf(r, h) + One(x = h /\ th[t].pc \in {"push", "release"})
                             = RefsOf(th[t], h) + One(x = h /\ "dec" \in {"push", "release"})
  BY <1>1, CallGoes
<1> HIDE DEF r
<1>6. \A h \in Handle : RefsOf(r, h) = RefsOf(th[t], h)
  BY <1>1, <1>5, CountTypes DEF One
<1>7. /\ QueueOK(mq[x])
      /\ mq' \in [Handle -> {mq'[h] : h \in Handle}]
      /\ mq'[x] = [ring |-> mq[x].ring, in_global |-> mq[x].in_global, release |-> TRUE, freed |-> FALSE]
      /\ \A h \in Handle \ {x} : mq'[h] = mq[h]
  <2>1. mq \in [Handle -> {mq[h] : h \in Handle}] /\ QueueOK(mq[x])
    BY <1>2 DEF IInv, Typed
  <2>2. /\ mq[x] = [ring |-> mq[x].ring, in_global |-> mq[x].in_global,
                    release |-> mq[x].release, freed |-> mq[x].freed]
        /\ mq[x].freed = FALSE
    BY <1>3, <2>1 DEF QueueOK
  <2>3. /\ mq' \in [Handle -> {mq'[h] : h \in Handle}]
        /\ mq'[x] = [mq[x] EXCEPT !.release = TRUE]
        /\ \A h \in Handle \ {x} : mq'[h] = mq[h]
    BY <1>2, <1>4, <2>1
  <2>4. [mq[x] EXCEPT !.release = TRUE]
          = [ring |-> mq[x].ring, in_global |-> mq[x].in_global, release |-> TRUE, freed |-> mq[x].freed]
    BY <2>2, QueueFields
  <2> QED
    BY <2>1, <2>2, <2>3, <2>4
<1> HIDE DEF x
<1>8. gq' \in Seq(Handle) /\ PlacesKept(t, r)
  <2>1. ~mq'[x].freed /\ mq'[x].release /\ x \in Handle
    BY <1>2, <1>7 DEF x
  <2>2. /\ \A h \in Handle \ {x} : mq'[h] = mq[h]
        /\ gq' = IF mq[x].in_global THEN gq ELSE Append(gq, x)
        /\ \A h \in Handle : PlacesOf(r, h) = PlacesOf(th[t], h)
    BY <1>4, <1>5, <1>7
  <2> QED
    BY <1>3, <2>1, <2>2, EnqueueKeeps
<1>9. TypesKept
  <2>1. QueueOK(mq'[x])
    BY <1>7 DEF QueueOK
  <2>2. \A h \in Handle : QueueOK(mq'[h])
    BY <1>7, <2>1 DEF IInv, Typed
  <2> QED
    BY <1>4, <1>7, <1>8, <2>2 DEF IInv, Typed, TypesKept
<1>10. \A u \in Thread \ {t} : Deleting(th[u]) => th[u].obj # x
  BY <1>3 DEF IInv, Uses, x
<1>11. UsesKept(t, r)
  <2>1. \A u \in Thread \ {t} : ~(th[u].pc = "mark" /\ th[u].obj = x)
    BY <1>10 DEF Deleting
  <2>2. \A u \in Thread \ {t} : UsesOf(th[u], known, ref, mq')
    BY <1>2, <1>7, <2>1, OthersUse, SMTT(60) DEF x
  <2>3. InDrop(r) => mq'[r.dq].release
    <3>1. InDrop(th[t]) => mq[th[t].dq].release /\ th[t].dq \in Handle
      BY <1>2 DEF UsesOf, InDrop, IInv, Control, Typed, Locals, Dropping, ThreadRec
    <3> QED
      BY <1>5, <1>7, <3>1
  <2>4. UsesOf(r, known, ref, mq')
    BY <1>1, <1>2, <1>3, <1>5, <2>3 DEF UsesOf, Deleting, x
  <2> QED
    BY <1>4, <1>5, <1>10, <2>2, <2>4 DEF UsesKept
<1>12. /\ Deleting(r) /\ r.obj = th[t].obj /\ r.pc # "registered" /\ r.pc # "exit"
  BY <1>5 DEF Deleting, x
<1>13. \A h \in Handle : h \notin known => mq'[h].freed
  BY <1>3, <1>7 DEF IInv, Life, x
<1>14. \A h \in Handle : (h \in known /\ ref[h] > 0) => ~mq'[h].freed /\ ~mq'[h].release
  BY <1>3, <1>7 DEF IInv, Life
<1> QED
  BY <1>2, <1>3, <1>4, <1>5, <1>6, <1>8, <1>9, <1>11, <1>12, <1>13, <1>14, QueueStep

LEMMA CountedFinite ==
    IsFiniteSet(Counted) /\ Cardinality(Counted) \in Nat /\ IsFiniteSet(Handle)
<1>1. IsFiniteSet(Handle)
  BY ServerAssumption, FS_Interval DEF Handle
<1>2. Counted \subseteq Handle
  BY DEF Counted
<1>3. IsFiniteSet(Counted)
  BY <1>1, <1>2, FS_Subset
<1> QED
  BY <1>1, <1>3, FS_CardinalityType

\* The end of delete_context.
LEMMA DecStep ==
    ASSUME IInv, NEW t \in Thread, context_dec(t)
    PROVE  IInv'
<1> DEFINE x == th[t].obj
           r == Return(th[t])
<1>1. th[t].pc = "dec"
  BY DEF context_dec, At
<1>2. /\ x \in Handle /\ UsesOf(th[t], known, ref, mq) /\ th[t].pc # "registered"
  BY <1>1, CallIs DEF CallPC
<1>3. x \in known /\ Deleting(th[t]) /\ ref[x] = 0
  BY <1>1, <1>2 DEF UsesOf, Deleting
<1>4. /\ th' = [th EXCEPT ![t] = r] /\ total' = total - 1
      /\ UNCHANGED <<H, known, ref, mq, gq, quit, sent>>
  BY DEF context_dec, Set
<1>5. /\ r \in ThreadRec /\ Fits(t, r) /\ r.pc \in AfterReturn
      /\ UsesOf(r, known, ref, mq) /\ ~Deleting(r) /\ r.pc # "registered"
      /\ \A h \in Handle : PlacesOf(r, h) = PlacesOf(th[t], h)
      /\ \A h \in Handle : RefsOf(th[t], h) = RefsOf(r, h) + One(th[t].pc = "release" /\ x = h)
  BY <1>1, ReturnFits
<1> HIDE DEF r
<1>6. /\ th'[t] = r
      /\ \A u \in Thread \ {t} : th'[u] = th[u]
  BY <1>4, <1>5, OneStep DEF IInv
<1>7. \A h \in Handle : RefsOf(r, h) = RefsOf(th[t], h)
  BY <1>1, <1>5, CountTypes DEF One
<1>8. Storage'
  BY <1>4 DEF IInv, Storage
<1>9. Life'
  <2>1. \A u \in Thread : th[u].pc = "registered" => th'[u].pc = "registered" /\ th'[u].new = th[u].new
    BY <1>2, <1>6
  <2> QED
    BY <1>4, <2>1 DEF IInv, Life, At
<1>10. total \in Nat /\ total' \in Nat /\ Totals'
  <2>1. x \in Counted
    BY <1>2, <1>3 DEF Counted
  <2>2. Counted' = Counted \ {x}
    <3>1. \A h \in Handle : h \in Counted' <=> \/ h \in known /\ ref[h] > 0
                                               \/ \E u \in Thread : Deleting(th'[u]) /\ th'[u].obj = h
      BY <1>4 DEF Counted, Deleting
    <3>2. \A u \in Thread \ {t} : Deleting(th[u]) => th[u].obj # x
      BY <1>3 DEF IInv, Uses
    <3>3. ~(x \in Counted')
      BY <1>2, <1>3, <1>5, <1>6, <3>1, <3>2
    <3> HIDE DEF x
    <3>4. \A h \in Handle \ {x} : h \in Counted' <=> h \in Counted
      BY <1>5, <1>6, <3>1 DEF Counted, x
    <3> QED
      BY <3>3, <3>4 DEF Counted
  <2>3. Cardinality(Counted') = Cardinality(Counted) - 1 /\ Cardinality(Counted) \in Nat
    BY <2>1, <2>2, CountedFinite, FS_RemoveElement
  <2>4. Cardinality(Counted) # 0
    BY <2>1, CountedFinite, FS_EmptySet
  <2>5. total = Cardinality(Counted) /\ ~quit /\ th[Timer].pc # "exit"
    BY <2>4 DEF IInv, Totals, At
  <2>6. th'[Timer].pc # "exit"
    BY <1>5, <1>6, <2>5 DEF AfterReturn, Thread
  <2>7. total' = Cardinality(Counted)'
    BY <1>4, <2>3, <2>5
  <2> QED
    BY <1>4, <2>3, <2>4, <2>5, <2>6, <2>7 DEF Totals, At
<1>11. UsesKept(t, r)
  <2>1. \A u \in Thread \ {t} : UsesOf(th[u], known, ref, mq)
    BY DEF IInv, Uses
  <2> QED
    BY <1>4, <1>5, <2>1 DEF UsesKept
<1>12. RefsKept(t, r)
  <2>1. ref' = ref /\ Contexts(H)' = Contexts(H)
    BY <1>4
  <2> QED
    BY <1>7, <2>1 DEF RefsKept
<1>13. PlacesKept(t, r)
  BY <1>4, <1>5 DEF PlacesKept
<1>14. TypesKept
  BY <1>4, <1>10 DEF IInv, Typed, TypesKept
<1>15. quit' = quit /\ sent' = sent
  BY <1>4
<1> QED
  BY <1>4, <1>5, <1>8, <1>9, <1>10, <1>11, <1>12, <1>13, <1>14, <1>15, StepInv

LEMMA EmptyRingOK == RingOK(EmptyRing) /\ Contents(EmptyRing) = <<>>
<1> DEFINE n == DEFAULT_QUEUE_SIZE
           c == [i \in 0 .. n - 1 |-> NoMessage]
           z == 0
<1>1. n \in Nat \ {0} /\ z = 0 /\ z \in Nat
  BY RingAssumption
<1>2. EmptyRing = [cap |-> n, head |-> z, tail |-> z, queue |-> c]
  BY DEF EmptyRing
<1>3. c \in [0 .. n - 1 -> Cell]
  BY DEF Cell
<1>4. z \in 0 .. n - 1
  BY <1>1
<1> HIDE DEF n, c, z
<1>5. c \in UNION {[0 .. m - 1 -> Cell] : m \in Nat}
  BY <1>1, <1>3
<1>6. /\ EmptyRing \in Ring /\ EmptyRing.cap = n /\ EmptyRing.head = z /\ EmptyRing.tail = z
      /\ EmptyRing.queue = c
  BY <1>1, <1>2, <1>5 DEF Ring
<1>7. RingShape(EmptyRing)
  BY <1>1, <1>3, <1>4, <1>6 DEF RingShape
<1>8. RingLength(EmptyRing) = 0
  BY <1>1, <1>6 DEF RingLength
<1>9. Contents(EmptyRing) \in Seq(Cell) /\ Len(Contents(EmptyRing)) = 0
  BY <1>7, <1>8, ContentsSeq
<1>10. Contents(EmptyRing) = <<>>
  BY <1>9
<1> QED
  BY <1>7, <1>10 DEF RingOK

\* A queue that is made, and one that is freed.
LEMMA MadeQueues ==
    /\ NewQueue = [ring |-> EmptyRing, in_global |-> TRUE, release |-> FALSE, freed |-> FALSE]
    /\ NoQueue = [ring |-> EmptyRing, in_global |-> TRUE, release |-> FALSE, freed |-> TRUE]
    /\ QueueOK(NewQueue) /\ QueueOK(NoQueue)
    /\ ~NewQueue.freed /\ ~NewQueue.release /\ NoQueue.freed
    /\ InUse(NewQueue) = 1 /\ InUse(NoQueue) = 0
    /\ NewQueue.ring = EmptyRing /\ NoQueue.ring = EmptyRing
<1>1. /\ NewQueue = [ring |-> EmptyRing, in_global |-> TRUE, release |-> FALSE, freed |-> FALSE]
      /\ NoQueue = [ring |-> EmptyRing, in_global |-> TRUE, release |-> FALSE, freed |-> TRUE]
  <2>1. NewQueue = [ring |-> EmptyRing, in_global |-> TRUE, release |-> FALSE, freed |-> FALSE]
    BY DEF NewQueue
  <2>2. /\ NewQueue.ring = EmptyRing /\ NewQueue.in_global = TRUE
        /\ NewQueue.release = FALSE /\ NewQueue.freed = FALSE
    BY <2>1
  <2>3. NewQueue = [ring |-> NewQueue.ring, in_global |-> NewQueue.in_global,
                    release |-> NewQueue.release, freed |-> NewQueue.freed]
    BY <2>1, <2>2
  <2>4. NoQueue = [ring |-> NewQueue.ring, in_global |-> NewQueue.in_global,
                   release |-> NewQueue.release, freed |-> TRUE]
    BY <2>3, QueueFields DEF NoQueue
  <2> QED
    BY <2>1, <2>2, <2>4
<1>2. QueueOK(NewQueue)
  BY <1>1, EmptyRingOK DEF QueueOK
<1>3. QueueOK(NoQueue)
  BY <1>1, EmptyRingOK DEF QueueOK
<1> QED
  BY <1>1, <1>2, <1>3 DEF InUse

\* A queue that goes out of use leaves the thread that has it.
LEMMA LeaveKeeps ==
    ASSUME IInv, NEW t \in Thread, NEW x \in Handle, NEW r, UNCHANGED gq,
           InUse(mq[x]) = 1, InUse(mq'[x]) = 0, \A h \in Handle \ {x} : mq'[h] = mq[h],
           \A h \in Handle : PlacesOf(th[t], h) = PlacesOf(r, h) + One(x = h)
    PROVE  PlacesKept(t, r)
<1>1. gq \in Seq(Handle)
  BY DEF IInv, Typed
<1>2. ASSUME NEW h \in Handle
      PROVE  InUse(mq'[h]) + PlacesOf(th[t], h) + Waiting(gq, h)
               = InUse(mq[h]) + PlacesOf(r, h) + Waiting(gq', h)
  <2>1. /\ Waiting(gq, h) \in Nat /\ PlacesOf(r, h) \in Nat /\ InUse(mq[h]) \in Nat
        /\ PlacesOf(th[t], h) = PlacesOf(r, h) + One(x = h) /\ Waiting(gq', h) = Waiting(gq, h)
    BY <1>1, PositionsFinite, CountTypes
  <2>2. CASE h = x
    <3>1. InUse(mq'[h]) = 0 /\ InUse(mq[h]) = 1 /\ One(x = h) = 1
      BY <2>2 DEF One
    <3>2. \A a, b \in Nat : 0 + (a + 1) + b = 1 + a + b
      OBVIOUS
    <3> QED
      BY <2>1, <3>1, <3>2
  <2>3. CASE h # x
    <3>1. InUse(mq'[h]) = InUse(mq[h]) /\ One(x = h) = 0
      BY <2>3 DEF One
    <3>2. \A a, b, c \in Nat : c + (a + 0) + b = c + a + b
      OBVIOUS
    <3> QED
      BY <2>1, <3>1, <3>2
  <2> QED
    BY <2>2, <2>3
<1> QED
  BY <1>2 DEF PlacesKept

LEMMA DropEndStep ==
    ASSUME IInv, NEW t \in Thread, DropEnd(t)
    PROVE  IInv'
<1> DEFINE x == th[t].dq
           r == DropDone(th[t])
<1>1. th[t].pc = "drop" /\ th[t].pc # "registered" /\ InDrop(th[t])
  BY DEF DropEnd, At, InDrop
<1>2. /\ x \in Handle /\ UsesOf(th[t], known, ref, mq) /\ ~Deleting(th[t])
  BY <1>1, DropIs
<1>3. mq[x].release
  BY <1>1, <1>2 DEF UsesOf
<1>4. /\ th' = [th EXCEPT ![t] = r] /\ mq' = [mq EXCEPT ![x] = NoQueue]
      /\ UNCHANGED <<H, known, ref, gq, total, quit, sent>>
  BY DEF DropEnd, Set, DropDone
<1>5. /\ r \in ThreadRec /\ Fits(t, r) /\ r.pc \in {"callback", "repop"} /\ ~InDrop(r)
      /\ UsesOf(r, known, ref, mq) /\ ~Deleting(r) /\ r.ctx = th[t].ctx /\ r.new = 0
      /\ \A h \in Handle : PlacesOf(th[t], h) = PlacesOf(r, h) + One(x = h)
      /\ \A h \in Handle : RefsOf(r, h) = RefsOf(th[t], h)
  BY <1>1, DropReturns
<1> HIDE DEF r
<1>6. /\ InUse(mq[x]) = 1
      /\ \A u \in Thread : PlacesOf(th[u], x) >= 1 => u = t
  <2>1. PlacesOf(th[t], x) >= 1
    BY <1>2, <1>5, CountTypes DEF One
  <2> QED
    BY <1>2, <2>1, HeldQueue
<1>7. /\ mq' \in [Handle -> {mq'[h] : h \in Handle}] /\ mq'[x] = NoQueue
      /\ \A h \in Handle \ {x} : mq'[h] = mq[h]
  BY <1>2, <1>4 DEF IInv, Typed
<1>8. PlacesKept(t, r)
  <2>1. InUse(mq'[x]) = 0 /\ UNCHANGED gq
    BY <1>4, <1>7, MadeQueues
  <2>2. \A h \in Handle : PlacesOf(th[t], h) = PlacesOf(r, h) + One(x = h)
    BY <1>5
  <2> HIDE DEF x
  <2> QED
    BY <1>2, <1>6, <1>7, <2>1, <2>2, LeaveKeeps DEF x
<1> HIDE DEF x
<1>9. TypesKept
  <2>1. \A h \in Handle : QueueOK(mq'[h])
    BY <1>7, MadeQueues DEF IInv, Typed
  <2> QED
    BY <1>4, <1>7, <2>1 DEF IInv, Typed, TypesKept
<1>10. UsesKept(t, r)
  <2>1. \A u \in Thread \ {t} : ~(th[u].pc = "mark" /\ th[u].obj = x)
    BY <1>3 DEF IInv, Uses, UsesOf
  <2>2. \A u \in Thread \ {t} : ~(InDrop(th[u]) /\ th[u].dq = x)
    <3> SUFFICES ASSUME NEW u \in Thread \ {t}, th[u].dq = x
                 PROVE  FALSE
      OBVIOUS
    <3>1. PlacesOf(th[u], x) >= 1
      BY DEF PlacesOf, One
    <3> QED
      BY <1>6, <3>1
  <2>3. \A u \in Thread \ {t} : UsesOf(th[u], known, ref, mq')
    BY <1>2, <1>7, <2>1, <2>2, OthersUse DEF x
  <2>4. UsesOf(r, known, ref, mq')
    BY <1>5 DEF UsesOf
  <2> QED
    BY <1>4, <1>5, <2>3, <2>4 DEF UsesKept
<1>11. \A h \in Handle : h \notin known => mq'[h].freed
  BY <1>7, MadeQueues DEF IInv, Life
<1>12. \A h \in Handle : (h \in known /\ ref[h] > 0) => ~mq'[h].freed /\ ~mq'[h].release
  BY <1>3, <1>7 DEF IInv, Life
<1>13. r.pc # "registered" /\ r.pc # "exit"
  BY <1>5
<1>14. /\ th' = [th EXCEPT ![t] = r] /\ Fits(t, r) /\ th[t].pc # "registered"
       /\ UNCHANGED <<H, known, ref, total, quit, sent>>
       /\ Deleting(r) <=> Deleting(th[t])
       /\ Deleting(r) => r.obj = th[t].obj
       /\ \A h \in Handle : RefsOf(r, h) = RefsOf(th[t], h)
  BY <1>1, <1>2, <1>4, <1>5
<1> QED
  BY <1>8, <1>9, <1>10, <1>11, <1>12, <1>13, <1>14, QueueStep

\* The worker finds its queue empty and lets go of it.
EmptiedLocals(r) == [ReleaseCall(r, r.ctx, "repop") EXCEPT !.q = 0, !.ctx = 0, !.left = 0]

LEMMA EmptiedHas ==
    ASSUME NEW r \in ThreadRec, r.stk = <<>>
    PROVE  Has(EmptiedLocals(r), "release", <<"repop">>, 0, 0, r.ctx, r.new, r.dq)
<1> DEFINE z == 0
           c == ReleaseCall(r, r.ctx, "repop")
<1>1. z \in {0} \cup Handle /\ z = 0 /\ z \in Int /\ "repop" \in PC /\ r.ctx \in {0} \cup Handle
  BY DEF PC, WorkerPC, ThreadRec
<1>2. EmptiedLocals(r) = [c EXCEPT !.q = z, !.ctx = z, !.left = z]
  BY DEF EmptiedLocals
<1> HIDE DEF z
<1>3. Has(c, "release", <<"repop">>, r.q, r.ctx, r.ctx, r.new, r.dq)
  BY <1>1, ReleaseHas
<1> HIDE DEF c
<1>4. c \in ThreadRec
  BY <1>3 DEF Has
<1>5. Has([c EXCEPT !.q = z, !.ctx = z, !.left = z], c.pc, c.stk, z, z, c.obj, c.new, c.dq)
  BY <1>1, <1>4, SetLeft
<1> QED
  BY <1>1, <1>2, <1>3, <1>5 DEF Has

LEMMA PopEmptyStep ==
    ASSUME IInv, NEW w \in Worker, PopEmpty(w)
    PROVE  IInv'
<1> DEFINE x == th[w].q
           r == EmptiedLocals(th[w])
<1>1. th[w].pc \in {"first", "next"} /\ th[w].pc \in WorkerPC /\ th[w].pc # "registered"
  BY DEF PopEmpty, WorkerPC
<1>2. /\ w \in Thread /\ th[w] \in ThreadRec /\ Plain(th[w]) /\ Base(th[w]) = th[w].pc
      /\ UsesOf(th[w], known, ref, mq) /\ ~Deleting(th[w])
  BY <1>1, PlainIs
<1>3. /\ th' = [th EXCEPT ![w] = r] /\ mq' = [mq EXCEPT ![x].in_global = FALSE]
      /\ UNCHANGED <<H, known, ref, gq, total, quit, sent>>
  BY DEF PopEmpty, Set, EmptiedLocals
<1>4. /\ x \in Handle /\ x = th[w].ctx /\ x # 0 /\ th[w].stk = <<>>
      /\ th[w].new = 0 /\ th[w].dq = 0 /\ x \in known
  BY <1>1, <1>2 DEF Plain, ThreadRec, Dispatching, Launching, UsesOf
<1>5. Has(r, "release", <<"repop">>, 0, 0, x, 0, 0)
  <2>1. Has(r, "release", <<"repop">>, 0, 0, th[w].ctx, th[w].new, th[w].dq)
    BY <1>2, <1>4, EmptiedHas
  <2> QED
    BY <1>4, <2>1
<1> HIDE DEF r
<1>6. Fits(w, r) /\ Base(r) = "repop" /\ ~InDrop(r) /\ ~Deleting(r)
  <2>1. "repop" \in WorkerPC /\ "repop" \notin Dispatching /\ "repop" \notin Launching
    BY DEF WorkerPC, Dispatching, Launching
  <2> QED
    BY <1>4, <1>5, <2>1, CallFits DEF Has
<1>7. \A h \in Handle : RefsOf(r, h) = RefsOf(th[w], h)
  BY <1>1, <1>2, <1>4, <1>5, <1>6, NoSource DEF RefsOf, One, Has
<1>8. \A h \in Handle : PlacesOf(th[w], h) = PlacesOf(r, h) + One(x = h)
  BY <1>1, <1>4, <1>5, NoSource DEF PlacesOf, One, Has
<1>9. ref[x] >= 1
  <2>1. RefsOf(th[w], x) >= 1
    BY <1>4 DEF RefsOf, One
  <2> QED
    BY <1>2, <1>4, <2>1, HeldRef
<1>10. ~mq[x].freed /\ ~mq[x].release
  BY <1>4, <1>9 DEF IInv, Life, Typed
<1>11. InUse(mq[x]) = 1
  <2>1. PlacesOf(th[w], x) >= 1
    BY <1>4, <1>8, CountTypes DEF One
  <2> QED
    BY <1>2, <1>4, <2>1, HeldQueue
<1>12. /\ QueueOK(mq[x])
       /\ mq' \in [Handle -> {mq'[h] : h \in Handle}]
       /\ mq'[x] = [ring |-> mq[x].ring, in_global |-> FALSE, release |-> FALSE, freed |-> FALSE]
       /\ \A h \in Handle \ {x} : mq'[h] = mq[h]
  <2>1. mq \in [Handle -> {mq[h] : h \in Handle}] /\ QueueOK(mq[x])
    BY <1>4 DEF IInv, Typed
  <2>2. /\ mq[x] = [ring |-> mq[x].ring, in_global |-> mq[x].in_global,
                    release |-> mq[x].release, freed |-> mq[x].freed]
        /\ mq[x].release = FALSE /\ mq[x].freed = FALSE
    BY <1>10, <2>1 DEF QueueOK
  <2>3. /\ mq' \in [Handle -> {mq'[h] : h \in Handle}]
        /\ mq'[x] = [mq[x] EXCEPT !.in_global = FALSE]
        /\ \A h \in Handle \ {x} : mq'[h] = mq[h]
    BY <1>3, <1>4, <2>1
  <2>4. [mq[x] EXCEPT !.in_global = FALSE]
          = [ring |-> mq[x].ring, in_global |-> FALSE, release |-> mq[x].release, freed |-> mq[x].freed]
    BY <2>2, QueueFields
  <2> QED
    BY <2>1, <2>2, <2>3, <2>4
<1>13. x \in Handle
  BY <1>4
<1> HIDE DEF x
<1>14. PlacesKept(w, r)
  <2>1. InUse(mq'[x]) = 0 /\ UNCHANGED gq
    BY <1>3, <1>12 DEF InUse
  <2>2. /\ w \in Thread /\ \A h \in Handle \ {x} : mq'[h] = mq[h]
        /\ \A h \in Handle : PlacesOf(th[w], h) = PlacesOf(r, h) + One(x = h)
    BY <1>2, <1>8, <1>12
  <2> QED
    BY <1>11, <1>13, <2>1, <2>2, LeaveKeeps
<1>15. TypesKept
  <2>1. QueueOK(mq'[x])
    BY <1>12 DEF QueueOK
  <2>2. \A h \in Handle : QueueOK(mq'[h])
    BY <1>12, <2>1 DEF IInv, Typed
  <2> QED
    BY <1>3, <1>12, <2>2 DEF IInv, Typed, TypesKept
<1>16. UsesKept(w, r)
  <2>1. ~mq'[x].freed /\ ~mq'[x].release
    BY <1>12
  <2>2. \A u \in Thread \ {w} : ~(InDrop(th[u]) /\ th[u].dq = x)
    BY <1>10 DEF IInv, Uses, UsesOf
  <2>3. \A u \in Thread \ {w} : UsesOf(th[u], known, ref, mq')
    BY <1>2, <1>12, <1>13, <2>1, <2>2, OthersUse
  <2>4. UsesOf(r, known, ref, mq')
    BY <1>4, <1>5, <1>6 DEF UsesOf, Has
  <2>5. r.pc # "registered"
    BY <1>5 DEF Has
  <2> QED
    BY <1>3, <1>6, <2>3, <2>4, <2>5 DEF UsesKept
<1>17. \A h \in Handle : h \notin known => mq'[h].freed
  BY <1>4, <1>12 DEF IInv, Life
<1>18. \A h \in Handle : (h \in known /\ ref[h] > 0) => ~mq'[h].freed /\ ~mq'[h].release
  BY <1>12 DEF IInv, Life
<1>19. /\ th' = [th EXCEPT ![w] = r] /\ Fits(w, r) /\ th[w].pc # "registered" /\ w \in Thread
       /\ UNCHANGED <<H, known, ref, total, quit, sent>>
       /\ Deleting(r) <=> Deleting(th[w])
       /\ Deleting(r) => r.obj = th[w].obj
       /\ \A h \in Handle : RefsOf(r, h) = RefsOf(th[w], h)
       /\ r.pc # "registered" /\ r.pc # "exit"
  BY <1>1, <1>2, <1>3, <1>5, <1>6, <1>7 DEF Has
<1> QED
  BY <1>14, <1>15, <1>16, <1>17, <1>18, <1>19, QueueStep

-----------------------------------------------------------------------------
(* The handle storage *)

StorageRecord(s) ==
    /\ s = [size |-> s.size, index |-> s.index, slot |-> s.slot, clash |-> s.clash]
    /\ s.size \in Nat \ {0} /\ s.index \in Nat \ {0} /\ s.clash \in BOOLEAN
    /\ s.slot \in [0 .. s.size - 1 -> {0} \cup Handle]
    /\ \A i, j \in 0 .. s.size - 1 : (s.slot[i] = s.slot[j] /\ s.slot[i] # 0) => i = j

LEMMA StorageFields ==
    ASSUME NEW s, s = [size |-> s.size, index |-> s.index, slot |-> s.slot, clash |-> s.clash],
           NEW a, NEW b, NEW c
    PROVE  /\ [s EXCEPT !.slot = a] = [size |-> s.size, index |-> s.index, slot |-> a, clash |-> s.clash]
           /\ [s EXCEPT !.clash = a] = [size |-> s.size, index |-> s.index, slot |-> s.slot, clash |-> a]
           /\ [s EXCEPT !.slot = a, !.index = b]
                = [size |-> s.size, index |-> b, slot |-> a, clash |-> s.clash]
           /\ [s EXCEPT !.size = c, !.slot = a]
                = [size |-> c, index |-> s.index, slot |-> a, clash |-> s.clash]
<1>1. [s EXCEPT !.slot = a] = [size |-> s.size, index |-> s.index, slot |-> a, clash |-> s.clash]
  OBVIOUS
<1>2. [s EXCEPT !.clash = a] = [size |-> s.size, index |-> s.index, slot |-> s.slot, clash |-> a]
  OBVIOUS
<1>3. [s EXCEPT !.slot = a, !.index = b]
        = [size |-> s.size, index |-> b, slot |-> a, clash |-> s.clash]
  <2> DEFINE k == [s EXCEPT !.slot = a]
  <2>1. k.size = s.size /\ k.index = s.index /\ k.slot = a /\ k.clash = s.clash
    BY <1>1
  <2>2. k = [size |-> k.size, index |-> k.index, slot |-> k.slot, clash |-> k.clash]
    BY <1>1, <2>1
  <2>3. [s EXCEPT !.slot = a, !.index = b] = [k EXCEPT !.index = b]
    OBVIOUS
  <2> HIDE DEF k
  <2>4. [k EXCEPT !.index = b] = [size |-> k.size, index |-> b, slot |-> k.slot, clash |-> k.clash]
    BY <2>2
  <2> QED
    BY <2>1, <2>3, <2>4
<1>4. [s EXCEPT !.size = c, !.slot = a]
        = [size |-> c, index |-> s.index, slot |-> a, clash |-> s.clash]
  <2> DEFINE k == [s EXCEPT !.size = c]
  <2>0. k = [size |-> c, index |-> s.index, slot |-> s.slot, clash |-> s.clash]
    OBVIOUS
  <2>1. k.size = c /\ k.index = s.index /\ k.slot = s.slot /\ k.clash = s.clash
    BY <2>0
  <2>2. k = [size |-> k.size, index |-> k.index, slot |-> k.slot, clash |-> k.clash]
    BY <2>0, <2>1
  <2>3. [s EXCEPT !.size = c, !.slot = a] = [k EXCEPT !.slot = a]
    OBVIOUS
  <2> HIDE DEF k
  <2>4. [k EXCEPT !.slot = a] = [size |-> k.size, index |-> k.index, slot |-> a, clash |-> k.clash]
    BY <2>2
  <2> QED
    BY <2>1, <2>3, <2>4
<1> QED
  BY <1>1, <1>2, <1>3, <1>4

\* A context leaves the table.
LEMMA RetiredIs ==
    ASSUME NEW s, StorageRecord(s), NEW x \in Handle, s.slot[x % s.size] = x,
           NEW n, n = Retired(s, x)
    PROVE  /\ StorageRecord(n) /\ n.index = s.index /\ n.clash = s.clash
           /\ Contexts(n) = Contexts(s) \ {x}
<1> DEFINE k == x % s.size
           z == 0
           a == [s.slot EXCEPT ![k] = z]
<1>1. k \in 0 .. s.size - 1 /\ z = 0 /\ s.size \in Nat \ {0}
  BY DEF StorageRecord, Handle
<1>2. n = [s EXCEPT !.slot = a]
  BY DEF Retired
<1>3. /\ a \in [0 .. s.size - 1 -> {0} \cup Handle] /\ a[k] = 0
      /\ \A i \in 0 .. s.size - 1 : i # k => a[i] = s.slot[i]
  <2> HIDE DEF k, z
  <2> QED
    BY <1>1 DEF StorageRecord
<1> HIDE DEF a
<1>4. n = [size |-> s.size, index |-> s.index, slot |-> a, clash |-> s.clash]
  BY <1>2, StorageFields DEF StorageRecord
<1>5. n.size = s.size /\ n.index = s.index /\ n.slot = a /\ n.clash = s.clash
  BY <1>4
<1> HIDE DEF k, z
<1>6. StorageRecord(n)
  <2>1. n = [size |-> n.size, index |-> n.index, slot |-> n.slot, clash |-> n.clash]
    BY <1>4, <1>5
  <2>2. \A i, j \in 0 .. s.size - 1 : (a[i] = a[j] /\ a[i] # 0) => i = j
    <3>1. \A i, j \in 0 .. s.size - 1 : (s.slot[i] = s.slot[j] /\ s.slot[i] # 0) => i = j
      BY DEF StorageRecord
    <3> SUFFICES ASSUME NEW i \in 0 .. s.size - 1, NEW j \in 0 .. s.size - 1, a[i] = a[j], a[i] # 0
                 PROVE  i = j
      OBVIOUS
    <3>2. i # k /\ j # k
      BY <1>3
    <3>3. s.slot[i] = a[i] /\ s.slot[j] = a[j]
      BY <1>3, <3>2
    <3> QED
      BY <3>1, <3>3
  <2>3. s.size \in Nat \ {0} /\ s.index \in Nat \ {0} /\ s.clash \in BOOLEAN
    BY DEF StorageRecord
  <2> QED
    BY <1>3, <1>5, <2>1, <2>2, <2>3 DEF StorageRecord
<1>7. DOMAIN s.slot = 0 .. s.size - 1 /\ DOMAIN a = 0 .. s.size - 1
  BY <1>3 DEF StorageRecord
<1>8. s.slot[k] = x /\ x # 0
  BY NoSource DEF k
<1>9. \A i \in 0 .. s.size - 1 : s.slot[i] = x => i = k
  BY <1>1, <1>8 DEF StorageRecord
<1>10. \A c : c \in Contexts(s) <=> c # 0 /\ \E i \in 0 .. s.size - 1 : s.slot[i] = c
  BY <1>7 DEF Contexts
<1>11. \A c : c \in Contexts(n) <=> c # 0 /\ \E i \in 0 .. s.size - 1 : a[i] = c
  BY <1>5, <1>7 DEF Contexts
<1>12. ASSUME NEW c PROVE c \in Contexts(n) <=> c \in Contexts(s) /\ c # x
  BY <1>1, <1>3, <1>8, <1>9, <1>10, <1>11
<1> QED
  BY <1>5, <1>6, <1>12

\* The context leaves the table and its reference goes to the thread.
LEMMA RetireStep ==
    ASSUME IInv, NEW t \in Thread, NEW r, th' = [th EXCEPT ![t] = r], Fits(t, r),
           NEW x \in Handle, Found(H, x, known), H' = Retired(H, x),
           UNCHANGED <<known, ref, mq, gq, total, quit, sent>>,
           UsesOf(r, known, ref, mq), ~Deleting(r), ~Deleting(th[t]),
           r.pc # "registered", th[t].pc # "registered", r.pc # "exit",
           \A h \in Handle : RefsOf(r, h) = RefsOf(th[t], h) + One(x = h),
           \A h \in Handle : PlacesOf(r, h) = PlacesOf(th[t], h)
    PROVE  IInv'
<1>1. /\ th'[t] = r
      /\ \A u \in Thread \ {t} : th'[u] = th[u]
  BY OneStep DEF IInv, Fits
<1>2. StorageRecord(H) /\ H.slot[x % H.size] = x
  BY DEF IInv, Storage, StorageRecord, Found
<1>3. StorageRecord(H') /\ H'.index = H.index /\ Contexts(H') = Contexts(H) \ {x}
  BY <1>2, RetiredIs
<1>4. Storage'
  <2>1. \A h \in Handle : h >= H'.index => h \notin known /\ h \notin Contexts(H') /\ ref[h] = 0
    BY <1>3 DEF IInv, Storage
  <2> QED
    BY <1>3, <2>1 DEF Storage, StorageRecord, Contexts
<1>5. Life'
  <2>1. \A u \in Thread : th[u].pc = "registered" => th'[u].pc = "registered" /\ th'[u].new = th[u].new
    BY <1>1
  <2> QED
    BY <2>1 DEF IInv, Life, At
<1>6. Totals'
  <2>1. Counted' = Counted
    BY <1>1 DEF Counted, Deleting
  <2> QED
    BY <1>1, <2>1 DEF IInv, Totals, At, Thread
<1>7. UsesKept(t, r)
  <2>1. \A u \in Thread \ {t} : UsesOf(th[u], known, ref, mq)
    BY DEF IInv, Uses
  <2> QED
    BY <2>1 DEF UsesKept
<1>8. RefsKept(t, r)
  <2> SUFFICES ASSUME NEW h \in Handle
               PROVE  ref'[h] + RefsOf(th[t], h) + One(h \in Contexts(H))
                        = ref[h] + RefsOf(r, h) + One(h \in Contexts(H)')
    BY DEF RefsKept
  <2>1. ref'[h] = ref[h] /\ ref[h] \in Nat /\ RefsOf(r, h) = RefsOf(th[t], h) + One(x = h)
    BY DEF IInv, Typed
  <2>2. x \in Contexts(H)
    BY FoundIs
  <2>3. Contexts(H)' = Contexts(H')
    BY DEF Contexts
  <2>4. One(h \in Contexts(H)) = One(x = h) + One(h \in Contexts(H)')
    BY <1>3, <2>2, <2>3 DEF One
  <2>5. RefsOf(th[t], h) \in Nat /\ One(x = h) \in Nat /\ One(h \in Contexts(H)') \in Nat
    BY CountTypes DEF One
  <2>6. \A a, b, c, d \in Nat : a + b + (c + d) = a + (b + c) + d
    OBVIOUS
  <2> QED
    BY <2>1, <2>4, <2>5, <2>6
<1>9. PlacesKept(t, r)
  BY DEF PlacesKept
<1>10. TypesKept
  BY DEF IInv, Typed, TypesKept
<1>11. quit' = quit /\ sent' = sent
  OBVIOUS
<1> QED
  BY <1>4, <1>5, <1>6, <1>7, <1>8, <1>9, <1>10, <1>11, StepInv

\* A callback kills a service.
LEMMA KillStep ==
    ASSUME IInv, NEW w \in Worker, NEW x \in Handle, skynet_handle_retire(w, x)
    PROVE  IInv'
<1> DEFINE r == ReleaseCall(th[w], x, "callback")
<1>1. th[w].pc = "callback" /\ th[w].pc \in WorkerPC /\ Found(H, x, known)
  BY DEF skynet_handle_retire, At, WorkerPC
<1>2. /\ w \in Thread /\ th[w] \in ThreadRec /\ Plain(th[w]) /\ Base(th[w]) = "callback"
      /\ UsesOf(th[w], known, ref, mq) /\ ~Deleting(th[w])
  BY <1>1, PlainIs
<1>3. /\ th' = [th EXCEPT ![w] = r] /\ H' = Retired(H, x)
      /\ UNCHANGED <<known, ref, mq, gq, total, quit, sent>>
  BY DEF skynet_handle_retire, Set
<1>4. /\ th[w].stk = <<>> /\ th[w].q = th[w].ctx /\ th[w].ctx # 0 /\ th[w].new = 0 /\ th[w].dq = 0
      /\ th[w].ctx \in known
  BY <1>1, <1>2 DEF Plain, Dispatching, Launching, UsesOf
<1>5. Has(r, "release", <<"callback">>, th[w].q, th[w].ctx, x, 0, 0)
  <2>1. "callback" \in PC /\ x \in {0} \cup Handle
    BY DEF PC, WorkerPC
  <2>2. Has(r, "release", <<"callback">>, th[w].q, th[w].ctx, x, th[w].new, th[w].dq)
    BY <1>2, <1>4, <2>1, ReleaseHas
  <2> QED
    BY <1>4, <2>2
<1> HIDE DEF r
<1>6. Fits(w, r) /\ Base(r) = "callback" /\ ~InDrop(r) /\ ~Deleting(r)
  <2>1. "callback" \in WorkerPC /\ "callback" \in Dispatching /\ "callback" \notin Launching /\ x # 0
    BY NoSource DEF WorkerPC, Dispatching, Launching
  <2> QED
    BY <1>4, <1>5, <2>1, CallFits DEF Has
<1>7. UsesOf(r, known, ref, mq)
  BY <1>1, <1>4, <1>5, <1>6 DEF UsesOf, Has, Found
<1>8. \A h \in Handle : RefsOf(r, h) = RefsOf(th[w], h) + One(x = h)
  BY <1>1, <1>2, <1>4, <1>5, <1>6, NoSource DEF RefsOf, One, Has
<1>9. \A h \in Handle : PlacesOf(r, h) = PlacesOf(th[w], h)
  BY <1>1, <1>4, <1>5, NoSource DEF PlacesOf, One, Has
<1>10. r.pc # "registered" /\ th[w].pc # "registered" /\ r.pc # "exit"
  BY <1>1, <1>5 DEF Has
<1> QED
  BY <1>1, <1>2, <1>3, <1>6, <1>7, <1>8, <1>9, <1>10, RetireStep

LEMMA NestedRelease ==
    ASSUME NEW r \in ThreadRec, NEW back \in PC, r.stk = <<back>>, NEW c \in {0} \cup Handle
    PROVE  Has(ReleaseCall(r, c, "mq_release"), "release", <<"mq_release", back>>,
               r.q, r.ctx, c, r.new, r.dq)
<1> DEFINE k == <<"mq_release">> \o r.stk
           s == [r EXCEPT !.pc = "release", !.stk = k]
<1>1. k = <<"mq_release", back>> /\ k \in Seq(PC) /\ "release" \in PC
  <2>1. "mq_release" \in PC /\ "release" \in PC
    BY DEF PC
  <2>2. <<"mq_release">> \o <<back>> = <<"mq_release", back>> /\ <<"mq_release", back>> \in Seq(PC)
    BY <2>1, Stack2
  <2> QED
    BY <2>1, <2>2
<1> HIDE DEF k
<1>2. Call(r, "release", "mq_release") = s
  BY DEF Call, k
<1>3. Has(s, "release", <<"mq_release", back>>, r.q, r.ctx, r.obj, r.new, r.dq)
  BY <1>1 DEF ThreadRec, Has
<1>4. ReleaseCall(r, c, "mq_release") = [s EXCEPT !.obj = c]
  BY <1>2 DEF ReleaseCall
<1> HIDE DEF s
<1>5. Has([s EXCEPT !.obj = c], "release", <<"mq_release", back>>, r.q, r.ctx, c, r.new, r.dq)
  BY <1>3 DEF ThreadRec, Has
<1> QED
  BY <1>4, <1>5

\* The service that could not be started is retired.
LEMMA FailFound ==
    ASSUME IInv, NEW w \in Worker, FailRetire(w), Found(H, th[w].new, known)
    PROVE  IInv'
<1> DEFINE x == th[w].new
           b == FailedLocals(th[w])
           r == ReleaseCall(b, x, "mq_release")
<1>1. th[w].pc = "failed" /\ th[w].pc \in WorkerPC /\ th[w].pc # "registered"
  BY DEF FailRetire, At, WorkerPC
<1>2. /\ w \in Thread /\ w # Timer /\ th[w] \in ThreadRec /\ Plain(th[w]) /\ Base(th[w]) = "failed"
      /\ UsesOf(th[w], known, ref, mq) /\ ~Deleting(th[w])
  BY <1>1, PlainIs
<1>3. /\ th' = [th EXCEPT ![w] = r] /\ H' = Retired(H, x)
      /\ UNCHANGED <<known, ref, mq, gq, total, quit, sent>>
  BY DEF FailRetire, Set, FailedLocals
<1>4. /\ th[w].stk = <<>> /\ th[w].q = th[w].ctx /\ th[w].ctx # 0 /\ x \in Handle /\ x # 0 /\ th[w].dq = 0
      /\ th[w].ctx \in known /\ x \in known
  BY <1>1, <1>2 DEF Plain, Dispatching, Launching, UsesOf, ThreadRec
<1>5. Has(r, "release", <<"mq_release", "callback">>, th[w].q, th[w].ctx, x, 0, x)
  <2>1. "callback" \in PC /\ x \in {0} \cup Handle
    BY <1>4 DEF PC, WorkerPC
  <2>2. Has(b, "mq_release", <<"callback">>, th[w].q, th[w].ctx, th[w].obj, 0, x)
    BY <1>2, FailedHas
  <2> HIDE DEF b
  <2>3. b \in ThreadRec /\ b.stk = <<"callback">>
    BY <2>2 DEF Has
  <2>4. Has(r, "release", <<"mq_release", "callback">>, b.q, b.ctx, x, b.new, b.dq)
    BY <2>1, <2>3, NestedRelease
  <2> QED
    BY <2>2, <2>4 DEF Has
<1> HIDE DEF r, b
<1>6. /\ r.stk # <<>> /\ Head(r.stk) = "mq_release" /\ Base(r) = "callback"
      /\ ~InDrop(r) /\ ~Deleting(r) /\ Dropping(r)
  <2>1. r.stk # <<>> /\ Head(r.stk) = "mq_release" /\ Last(r.stk) = "callback"
    <3>1. "mq_release" \in PC /\ "callback" \in PC
      BY DEF PC, WorkerPC
    <3>2. r.stk = <<"mq_release", "callback">>
      BY <1>5 DEF Has
    <3>3. /\ <<"mq_release", "callback">> # <<>> /\ Head(<<"mq_release", "callback">>) = "mq_release"
          /\ Last(<<"mq_release", "callback">>) = "callback"
      BY <3>1, Stack2
    <3> QED
      BY <3>2, <3>3
  <2> QED
    BY <1>5, <2>1 DEF Has, Base, InDrop, Deleting, Dropping
<1>7. Fits(w, r)
  <2>1. WorkerControl(r)
    BY <1>5 DEF Has, WorkerControl, ReleaseStacks
  <2>2. Locals(r)
    BY <1>4, <1>5, <1>6 DEF Locals, Has, Dispatching, Launching
  <2> QED
    BY <1>2, <1>5, <2>1, <2>2 DEF Fits, Has
<1>8. UsesOf(r, known, ref, mq)
  BY <1>4, <1>5, <1>6 DEF UsesOf, Has
<1>9. \A h \in Handle : RefsOf(r, h) = RefsOf(th[w], h) + One(x = h)
  BY <1>1, <1>2, <1>4, <1>5, <1>6, NoSource DEF RefsOf, One, Has
<1>10. \A h \in Handle : PlacesOf(r, h) = PlacesOf(th[w], h)
  BY <1>1, <1>4, <1>5, NoSource DEF PlacesOf, One, Has
<1>11. r.pc # "registered" /\ r.pc # "exit"
  BY <1>5 DEF Has
<1> QED
  BY <1>1, <1>2, <1>3, <1>4, <1>6, <1>7, <1>8, <1>9, <1>10, <1>11, RetireStep

\* ctx->handle is set and the queue is made.
LEMMA CreateStep ==
    ASSUME IInv, NEW w \in Worker, Create(w)
    PROVE  IInv'
<1> DEFINE x == th[w].new
           r == [th[w] EXCEPT !.pc = "init"]
<1>1. th[w].pc = "registered" /\ th[w].pc \in WorkerPC /\ "init" \in PC
  BY DEF Create, At, WorkerPC, PC
<1>2. /\ w \in Thread /\ w # Timer /\ th[w] \in ThreadRec /\ Plain(th[w]) /\ Base(th[w]) = "registered"
      /\ UsesOf(th[w], known, ref, mq) /\ ~Deleting(th[w])
  BY <1>1, PlainIs
<1>3. /\ th' = [th EXCEPT ![w] = r] /\ known' = known \cup {x} /\ mq' = [mq EXCEPT ![x] = NewQueue]
      /\ total' = total + 1 /\ UNCHANGED <<H, ref, gq, quit, sent>>
  BY <1>2, GotoIs DEF Create, IInv
<1>4. /\ th[w].stk = <<>> /\ th[w].q = th[w].ctx /\ th[w].ctx # 0 /\ x \in Handle /\ x # 0 /\ th[w].dq = 0
      /\ th[w].ctx \in known /\ x \notin known /\ th[w].ctx \in Handle
  BY <1>1, <1>2 DEF Plain, Dispatching, Launching, UsesOf, ThreadRec
<1>5. Has(r, "init", <<>>, th[w].ctx, th[w].ctx, th[w].obj, x, 0)
  <2>1. Has(r, "init", th[w].stk, th[w].q, th[w].ctx, th[w].obj, x, th[w].dq)
    BY <1>1, <1>2 DEF Has, ThreadRec
  <2> QED
    BY <1>4, <2>1
<1> HIDE DEF r
<1>6. Fits(w, r) /\ Base(r) = "init" /\ ~InDrop(r) /\ ~Deleting(r)
  <2>1. Plain(r)
    BY <1>4, <1>5 DEF Plain, Has, WorkerPC, Dispatching, Launching
  <2> QED
    BY <1>5, <2>1, PlainFits DEF Has
<1>7. \A h \in Handle : RefsOf(r, h) = RefsOf(th[w], h)
  BY <1>1, <1>2, <1>4, <1>5, <1>6, NoSource DEF RefsOf, One, Has
<1>8. \A h \in Handle : PlacesOf(r, h) = PlacesOf(th[w], h) + One(x = h)
  BY <1>1, <1>4, <1>5, NoSource DEF PlacesOf, One, Has
<1>9. ref[x] \in Nat /\ ref[x] >= 1 /\ ref[th[w].ctx] \in Nat /\ ref[th[w].ctx] >= 1
  <2>1. RefsOf(th[w], x) >= 1 /\ RefsOf(th[w], th[w].ctx) >= 1
    BY <1>2, <1>4 DEF RefsOf, One
  <2> QED
    BY <1>2, <1>4, <2>1, HeldRef
<1>10. mq[x] = NoQueue /\ mq[x].freed /\ ~mq[x].release
  BY <1>4, MadeQueues DEF IInv, Life, Typed, QueueOK
<1>11. x \in Handle /\ x \notin known /\ w \in Thread
  BY <1>2, <1>4
<1>12. \A u \in Thread \ {w} : th[u].new # x
  <2> SUFFICES ASSUME NEW u \in Thread \ {w}, th[u].new = x
               PROVE  FALSE
    OBVIOUS
  <2>1. UsesOf(th[u], known, ref, mq)
    BY DEF IInv, Uses
  <2>2. th[u].pc = "registered"
    BY <1>4, <2>1 DEF UsesOf
  <2> QED
    BY <1>1, <1>2, <2>2 DEF IInv, Uses, At
<1> HIDE DEF x
<1>13. /\ th'[w] = r
       /\ \A u \in Thread \ {w} : th'[u] = th[u]
  BY <1>3, <1>6, <1>11, OneStep DEF IInv, Fits
<1>14. /\ mq' \in [Handle -> {mq'[h] : h \in Handle}] /\ mq'[x] = NewQueue
       /\ \A h \in Handle \ {x} : mq'[h] = mq[h]
  BY <1>3, <1>11 DEF IInv, Typed
<1>15. Storage'
  <2>1. ~(x >= H.index)
    BY <1>9, <1>11 DEF IInv, Storage
  <2>2. \A h \in Handle : h >= H.index => h \notin known' /\ h \notin Contexts(H) /\ ref[h] = 0
    BY <1>3, <2>1 DEF IInv, Storage
  <2> QED
    BY <1>3, <2>2 DEF IInv, Storage
<1>16. Life'
  <2>1. \A h \in Handle : h \notin known' => mq'[h].freed
    BY <1>3, <1>14 DEF IInv, Life
  <2>2. \A h \in Handle : (h \in known' /\ ref[h] > 0) => ~mq'[h].freed /\ ~mq'[h].release
    BY <1>3, <1>14, MadeQueues DEF IInv, Life
  <2>3. \A h \in Handle : (h \notin known' /\ ref[h] > 0) => \E u \in Thread : th'[u].pc = "registered" /\ th'[u].new = h
    <3> SUFFICES ASSUME NEW h \in Handle, h \notin known', ref[h] > 0
                 PROVE  \E u \in Thread : th'[u].pc = "registered" /\ th'[u].new = h
      OBVIOUS
    <3>1. h \notin known /\ h # x
      BY <1>3
    <3>2. PICK u \in Thread : th[u].pc = "registered" /\ th[u].new = h
      BY <3>1 DEF IInv, Life, At
    <3>3. u # w
      BY <3>1, <3>2 DEF x
    <3> QED
      BY <1>13, <3>2, <3>3
  <2> QED
    BY <1>3, <2>1, <2>2, <2>3 DEF Life, At
<1>17. \A u \in Thread : Deleting(th[u]) => th[u].obj # x
  <2> TAKE u \in Thread
  <2>1. UsesOf(th[u], known, ref, mq)
    BY DEF IInv, Uses
  <2> QED
    BY <1>11, <2>1 DEF UsesOf, Deleting
<1>18. total' \in Nat /\ Totals'
  <2>1. x \notin Counted
    BY <1>11, <1>17 DEF Counted
  <2>2. Counted' = Counted \cup {x}
    <3>1. \A h \in Handle : h \in Counted' <=> \/ h \in known' /\ ref[h] > 0
                                               \/ \E u \in Thread : Deleting(th'[u]) /\ th'[u].obj = h
      BY <1>3 DEF Counted, Deleting
    <3>2. x \in Counted'
      BY <1>3, <1>9, <1>11, <3>1
    <3>3. \A h \in Handle \ {x} : h \in Counted' <=> h \in Counted
      BY <1>2, <1>3, <1>6, <1>13, <3>1 DEF Counted
    <3> QED
      BY <1>11, <3>2, <3>3 DEF Counted
  <2>3. Cardinality(Counted') = Cardinality(Counted) + 1 /\ Cardinality(Counted) \in Nat
    BY <2>1, <2>2, CountedFinite, FS_AddElement
  <2>4. th[w].ctx \in Counted
    BY <1>4, <1>9 DEF Counted
  <2>5. Cardinality(Counted) # 0
    BY <2>4, CountedFinite, FS_EmptySet
  <2>6. total = Cardinality(Counted) /\ ~quit /\ th[Timer].pc # "exit"
    BY <2>5 DEF IInv, Totals, At
  <2>7. th'[Timer].pc # "exit"
    BY <1>2, <1>13, <2>6 DEF Thread
  <2>8. total' = Cardinality(Counted)'
    BY <1>3, <2>3, <2>6
  <2> QED
    BY <1>3, <2>3, <2>6, <2>7, <2>8 DEF Totals, At
<1>19. UsesKept(w, r)
  <2>1. ASSUME NEW u \in Thread \ {w}
        PROVE  UsesOf(th[u], known', ref, mq')
    <3>1. UsesOf(th[u], known, ref, mq) /\ th[u] \in ThreadRec /\ Locals(th[u]) /\ th[u].new # x
      BY <1>12 DEF IInv, Uses, Control, Typed
    <3>2. InDrop(th[u]) => th[u].dq \in Handle /\ th[u].dq # x
      BY <1>10, <3>1 DEF UsesOf, InDrop, Locals, Dropping, ThreadRec
    <3>3. th[u].pc = "mark" => th[u].obj \in Handle /\ th[u].obj # x
      BY <1>17, <3>1 DEF Locals, ThreadRec, Deleting
    <3> QED
      BY <1>3, <1>14, <3>1, <3>2, <3>3 DEF UsesOf
  <2>2. UsesOf(r, known', ref, mq')
    BY <1>3, <1>4, <1>5, <1>6 DEF UsesOf, Has
  <2>3. r.pc # "registered"
    BY <1>5 DEF Has
  <2> QED
    BY <1>3, <1>6, <2>1, <2>2, <2>3 DEF UsesKept
<1>20. RefsKept(w, r)
  <2>1. ref' = ref /\ Contexts(H)' = Contexts(H)
    BY <1>3
  <2> QED
    BY <1>7, <2>1 DEF RefsKept
<1>21. PlacesKept(w, r)
  <2> SUFFICES ASSUME NEW h \in Handle
               PROVE  InUse(mq'[h]) + PlacesOf(th[w], h) + Waiting(gq, h)
                        = InUse(mq[h]) + PlacesOf(r, h) + Waiting(gq', h)
    BY DEF PlacesKept
  <2>1. gq \in Seq(Handle)
    BY DEF IInv, Typed
  <2>2. /\ Waiting(gq, h) \in Nat /\ PlacesOf(th[w], h) \in Nat /\ InUse(mq[h]) \in Nat
        /\ PlacesOf(r, h) = PlacesOf(th[w], h) + One(x = h) /\ Waiting(gq', h) = Waiting(gq, h)
    BY <1>3, <1>8, <2>1, PositionsFinite, CountTypes
  <2>3. InUse(mq'[h]) = InUse(mq[h]) + One(x = h) /\ One(x = h) \in Nat
    <3>1. CASE h = x
      <4>1. InUse(mq'[h]) = 1 /\ InUse(mq[h]) = 0
        BY <1>10, <1>14, <3>1, MadeQueues
      <4> QED
        BY <3>1, <4>1 DEF One
    <3>2. CASE h # x
      BY <1>14, <2>2, <3>2 DEF One
    <3> QED
      BY <3>1, <3>2
  <2>4. \A a, b, c, d \in Nat : (a + b) + c + d = a + (c + b) + d
    OBVIOUS
  <2> QED
    BY <2>2, <2>3, <2>4
<1>22. TypesKept
  <2>1. \A h \in Handle : QueueOK(mq'[h])
    BY <1>14, MadeQueues DEF IInv, Typed
  <2> QED
    BY <1>3, <1>11, <1>14, <1>18, <2>1 DEF IInv, Typed, TypesKept
<1>23. quit' = quit /\ sent' = sent
  BY <1>3
<1> QED
  BY <1>3, <1>6, <1>11, <1>15, <1>16, <1>18, <1>19, <1>20, <1>21, <1>22, <1>23, StepInv

\* The table before a handle is given: the one there was, its double, or a failed assert.
LEMMA WithRoomIs ==
    ASSUME NEW s, StorageRecord(s), ~s.clash, NEW K, NEW n, n = WithRoom(s, K)
    PROVE  /\ StorageRecord(n) /\ n.index = s.index /\ Contexts(n) = Contexts(s)
           /\ n.clash => n.slot = s.slot /\ n.size = s.size
<1>1. CASE HasFree(s)
  BY <1>1 DEF WithRoom
<1>2. CASE ~HasFree(s)
  <2> DEFINE m == 2 * s.size
             hash(c) == skynet_context_handle(c, K) % m
             at(i) == {c \in Contexts(s) : hash(c) = i}
             a == [i \in 0 .. m - 1 |-> IF at(i) = {} THEN 0 ELSE CHOOSE c \in at(i) : TRUE]
  <2>1. n = IF \E c, d \in Contexts(s) : c # d /\ hash(c) = hash(d)
            THEN [s EXCEPT !.clash = TRUE] ELSE [s EXCEPT !.size = m, !.slot = a]
    BY <1>2 DEF WithRoom, expand
  <2>2. /\ s = [size |-> s.size, index |-> s.index, slot |-> s.slot, clash |-> s.clash]
        /\ s.size \in Nat \ {0} /\ s.index \in Nat \ {0} /\ s.clash = FALSE
        /\ s.slot \in [0 .. s.size - 1 -> {0} \cup Handle]
        /\ \A i, j \in 0 .. s.size - 1 : (s.slot[i] = s.slot[j] /\ s.slot[i] # 0) => i = j
    BY DEF StorageRecord
  <2>3. m \in Nat \ {0}
    BY <2>2
  <2>4. CASE \E c, d \in Contexts(s) : c # d /\ hash(c) = hash(d)
    <3>1. n = [size |-> s.size, index |-> s.index, slot |-> s.slot, clash |-> TRUE]
      BY <2>1, <2>2, <2>4, StorageFields
    <3>2. n.size = s.size /\ n.index = s.index /\ n.slot = s.slot /\ n.clash = TRUE
      BY <3>1
    <3>3. n = [size |-> n.size, index |-> n.index, slot |-> n.slot, clash |-> n.clash]
      BY <3>1, <3>2
    <3>4. StorageRecord(n)
      <4>1. /\ n.size \in Nat \ {0} /\ n.index \in Nat \ {0} /\ n.clash \in BOOLEAN
            /\ n.slot \in [0 .. n.size - 1 -> {0} \cup Handle]
        BY <2>2, <3>2
      <4>2. \A i, j \in 0 .. n.size - 1 : (n.slot[i] = n.slot[j] /\ n.slot[i] # 0) => i = j
        BY <2>2, <3>2
      <4> QED
        BY <3>3, <4>1, <4>2 DEF StorageRecord
    <3>5. Contexts(n) = Contexts(s)
      BY <3>2 DEF Contexts
    <3> QED
      BY <3>2, <3>4, <3>5
  <2>5. CASE ~\E c, d \in Contexts(s) : c # d /\ hash(c) = hash(d)
    <3>1. n = [size |-> m, index |-> s.index, slot |-> a, clash |-> s.clash]
      BY <2>1, <2>2, <2>5, StorageFields, ZenonT(60)
    <3>2. n.size = m /\ n.index = s.index /\ n.slot = a /\ n.clash = FALSE
      BY <2>2, <3>1
    <3>3. n = [size |-> n.size, index |-> n.index, slot |-> n.slot, clash |-> n.clash]
      BY <3>1, <3>2
    <3>4. Contexts(s) \subseteq Handle /\ 0 \notin Contexts(s)
      BY <2>2 DEF Contexts
    <3> HIDE DEF m
    <3>5. \A c \in Contexts(s) : hash(c) \in 0 .. m - 1
      <4> TAKE c \in Contexts(s)
      <4>1. skynet_context_handle(c, K) \in Nat
        BY <3>4 DEF skynet_context_handle, Handle
      <4> QED
        BY <2>3, <4>1
    <3>6. \A c, d \in Contexts(s) : hash(c) = hash(d) => c = d
      BY <2>5
    <3>7. \A i \in 0 .. m - 1 : a[i] = IF at(i) = {} THEN 0 ELSE CHOOSE c \in at(i) : TRUE
      OBVIOUS
    <3> HIDE DEF hash, a
    <3>8. \A i \in 0 .. m - 1 : \/ a[i] = 0 /\ at(i) = {}
                                \/ a[i] \in Contexts(s) /\ hash(a[i]) = i
      <4> TAKE i \in 0 .. m - 1
      <4>1. CASE at(i) = {}
        BY <3>7, <4>1
      <4>2. CASE at(i) # {}
        <5>1. a[i] = CHOOSE c \in at(i) : TRUE
          BY <3>7, <4>2
        <5>2. PICK c : c \in at(i)
          BY <4>2
        <5>3. (CHOOSE d \in at(i) : TRUE) \in at(i)
          BY <5>2
        <5> QED
          BY <5>1, <5>3
      <4> QED
        BY <4>1, <4>2
    <3>9. a \in [0 .. m - 1 -> {0} \cup Handle]
      <4>1. \A i \in 0 .. m - 1 : a[i] \in {0} \cup Handle
        BY <3>4, <3>8
      <4>2. DOMAIN a = 0 .. m - 1 /\ a = [i \in 0 .. m - 1 |-> a[i]]
        BY DEF a
      <4> QED
        BY <4>1, <4>2
    <3>10. \A i, j \in 0 .. m - 1 : (a[i] = a[j] /\ a[i] # 0) => i = j
      BY <3>8
    <3>11. StorageRecord(n)
      BY <2>2, <2>3, <3>2, <3>3, <3>9, <3>10 DEF StorageRecord
    <3>12. \A c : c \in Contexts(n) <=> c # 0 /\ \E i \in 0 .. m - 1 : a[i] = c
      BY <3>2, <3>9 DEF Contexts
    <3>13. ASSUME NEW c \in Contexts(s)
           PROVE  c \in Contexts(n)
      <4>1. hash(c) \in 0 .. m - 1 /\ c \in at(hash(c)) /\ c # 0
        BY <3>4, <3>5
      <4>2. a[hash(c)] = c
        BY <3>6, <3>8, <4>1
      <4> QED
        BY <3>12, <4>1, <4>2
    <3>14. \A c : c \in Contexts(n) => c \in Contexts(s)
      BY <3>8, <3>12
    <3> QED
      BY <3>2, <3>11, <3>13, <3>14
  <2> QED
    BY <2>4, <2>5
<1> QED
  BY <1>1, <1>2

\* A context comes into an empty slot.
LEMMA RegisteredIs ==
    ASSUME NEW s, StorageRecord(s), NEW x \in Handle, s.slot[x % s.size] = 0, x \notin Contexts(s),
           NEW n, n = skynet_handle_register(s, x)
    PROVE  /\ StorageRecord(n) /\ n.index = x + 1 /\ n.clash = s.clash
           /\ Contexts(n) = Contexts(s) \cup {x}
<1> DEFINE k == x % s.size
           a == [s.slot EXCEPT ![k] = x]
           y == x + 1
<1>1. /\ k \in 0 .. s.size - 1 /\ s.size \in Nat \ {0} /\ s.clash \in BOOLEAN
      /\ y \in Nat \ {0} /\ y = x + 1 /\ s.slot[k] = 0 /\ x # 0
      /\ s.slot \in [0 .. s.size - 1 -> {0} \cup Handle]
      /\ \A i, j \in 0 .. s.size - 1 : (s.slot[i] = s.slot[j] /\ s.slot[i] # 0) => i = j
  BY DEF StorageRecord, Handle
<1>2. n = [s EXCEPT !.slot = a, !.index = y]
  BY DEF skynet_handle_register
<1> HIDE DEF k, y
<1>3. /\ a \in [0 .. s.size - 1 -> {0} \cup Handle] /\ a[k] = x
      /\ \A i \in 0 .. s.size - 1 : i # k => a[i] = s.slot[i]
  BY <1>1
<1> HIDE DEF a
<1>4. n = [size |-> s.size, index |-> y, slot |-> a, clash |-> s.clash]
  BY <1>2, StorageFields DEF StorageRecord
<1>5. n.size = s.size /\ n.index = y /\ n.slot = a /\ n.clash = s.clash
  BY <1>4
<1>6. n = [size |-> n.size, index |-> n.index, slot |-> n.slot, clash |-> n.clash]
  BY <1>4, <1>5
<1>7. DOMAIN s.slot = 0 .. s.size - 1 /\ DOMAIN a = 0 .. s.size - 1
  BY <1>1, <1>3
<1>8. \A c : c \in Contexts(s) <=> c # 0 /\ \E i \in 0 .. s.size - 1 : s.slot[i] = c
  BY <1>7 DEF Contexts
<1>9. \A c : c \in Contexts(n) <=> c # 0 /\ \E i \in 0 .. s.size - 1 : a[i] = c
  BY <1>5, <1>7 DEF Contexts
<1>10. \A i \in 0 .. s.size - 1 : s.slot[i] # x
  BY <1>1, <1>8
<1>11. \A i, j \in 0 .. s.size - 1 : (a[i] = a[j] /\ a[i] # 0) => i = j
  <2> SUFFICES ASSUME NEW i \in 0 .. s.size - 1, NEW j \in 0 .. s.size - 1, a[i] = a[j], a[i] # 0
               PROVE  i = j
    OBVIOUS
  <2>1. CASE i = k \/ j = k
    BY <1>3, <1>10, <2>1
  <2>2. CASE i # k /\ j # k
    <3>1. a[i] = s.slot[i] /\ a[j] = s.slot[j]
      BY <1>3, <2>2
    <3> QED
      BY <1>1, <3>1
  <2> QED
    BY <2>1, <2>2
<1>12. StorageRecord(n)
  BY <1>1, <1>3, <1>5, <1>6, <1>11 DEF StorageRecord
<1>13. ASSUME NEW c PROVE c \in Contexts(n) <=> c \in Contexts(s) \/ c = x
  <2>1. ASSUME c \in Contexts(s) PROVE c \in Contexts(n)
    <3>1. PICK i \in 0 .. s.size - 1 : s.slot[i] = c /\ c # 0
      BY <1>8, <2>1
    <3>2. a[i] = c
      BY <1>1, <1>3, <3>1
    <3> QED
      BY <1>9, <3>1, <3>2
  <2>2. x \in Contexts(n)
    BY <1>1, <1>3, <1>9
  <2>3. ASSUME c \in Contexts(n), c # x PROVE c \in Contexts(s)
    <3>1. PICK i \in 0 .. s.size - 1 : a[i] = c /\ c # 0
      BY <1>9, <2>3
    <3>2. s.slot[i] = c
      BY <1>3, <2>3, <3>1
    <3> QED
      BY <1>8, <3>1, <3>2
  <2> QED
    BY <2>1, <2>2, <2>3
<1> QED
  BY <1>1, <1>5, <1>12, <1>13

\* The assert in skynet_handle_register fails: no more than that is recorded.
LEMMA ClashStep ==
    ASSUME IInv, NEW w \in Worker, Register(w), ~H.clash, WithRoom(H, known).clash
    PROVE  IInv'
<1> DEFINE r == th[w]
<1>1. th[w].pc = "callback" /\ th[w].pc \in WorkerPC
  BY DEF Register, At, WorkerPC
<1>2. /\ w \in Thread /\ w # Timer /\ th[w] \in ThreadRec /\ Plain(th[w])
      /\ UsesOf(th[w], known, ref, mq) /\ ~Deleting(th[w])
  BY <1>1, PlainIs
<1>3. H' = WithRoom(H, known) /\ UNCHANGED <<known, ref, mq, gq, total, quit, sent, th>>
  BY DEF Register
<1>4. StorageRecord(H)
  BY DEF IInv, Storage, StorageRecord
<1>5. StorageRecord(H') /\ H'.index = H.index /\ Contexts(H') = Contexts(H)
  BY <1>3, <1>4, WithRoomIs
<1>6. th' = [th EXCEPT ![w] = r]
  BY <1>2, <1>3 DEF IInv, Typed
<1>7. Fits(w, r)
  BY <1>1, <1>2 DEF IInv, Control, Fits
<1> HIDE DEF r
<1>8. Storage'
  <2>1. \A h \in Handle : h >= H'.index => h \notin known /\ h \notin Contexts(H') /\ ref[h] = 0
    BY <1>5 DEF IInv, Storage
  <2> QED
    BY <1>3, <1>5, <2>1 DEF Storage, StorageRecord, Contexts
<1>9. Life'
  BY <1>3 DEF IInv, Life, At
<1>10. Totals'
  <2>1. Counted' = Counted
    BY <1>3 DEF Counted, Deleting
  <2> QED
    BY <1>3, <2>1 DEF IInv, Totals, At
<1>11. UsesKept(w, r)
  <2>1. \A u \in Thread : UsesOf(th[u], known, ref, mq)
    BY DEF IInv, Uses
  <2> QED
    BY <1>1, <1>2, <1>3, <2>1 DEF UsesKept, r
<1>12. RefsKept(w, r)
  <2>1. ref' = ref /\ Contexts(H)' = Contexts(H)
    BY <1>3, <1>5 DEF Contexts
  <2> QED
    BY <2>1 DEF RefsKept, r
<1>13. PlacesKept(w, r)
  BY <1>3 DEF PlacesKept, r
<1>14. TypesKept
  BY <1>3 DEF IInv, Typed, TypesKept
<1>15. quit' = quit /\ sent' = sent
  BY <1>3
<1> QED
  BY <1>2, <1>6, <1>7, <1>8, <1>9, <1>10, <1>11, <1>12, <1>13, <1>14, <1>15, StepInv

\* A new context has two references: the table's and its launcher's.
LEMMA RegisterStep ==
    ASSUME IInv, NEW w \in Worker, Register(w), ~H.clash, ~WithRoom(H, known).clash
    PROVE  IInv'
<1> DEFINE s == WithRoom(H, known)
<1>1. th[w].pc = "callback" /\ th[w].pc \in WorkerPC /\ "registered" \in PC /\ "registered" \in WorkerPC
  BY DEF Register, At, WorkerPC, PC
<1>2. /\ w \in Thread /\ w # Timer /\ th[w] \in ThreadRec /\ Plain(th[w]) /\ Base(th[w]) = "callback"
      /\ UsesOf(th[w], known, ref, mq) /\ ~Deleting(th[w])
  BY <1>1, PlainIs
<1>3. PICK x \in s.index .. MaxHandle :
        /\ IsNextHandle(s, x)
        /\ H' = skynet_handle_register(s, x)
        /\ ref' = [ref EXCEPT ![x] = 2]
        /\ Set(w, [th[w] EXCEPT !.pc = "registered", !.new = x])
  BY DEF Register
<1>4. UNCHANGED <<known, mq, gq, total, quit, sent>>
  BY DEF Register
<1>5. StorageRecord(s) /\ s.index = H.index /\ Contexts(s) = Contexts(H)
  <2>1. StorageRecord(H)
    BY DEF IInv, Storage, StorageRecord
  <2> QED
    BY <2>1, WithRoomIs
<1> HIDE DEF s
<1>6. x \in Handle /\ x >= H.index /\ H.index \in Nat \ {0}
  <2>1. s.index \in Nat \ {0}
    BY <1>5 DEF StorageRecord
  <2> QED
    BY <1>5, <2>1, ServerAssumption DEF Handle
<1>7. x \notin known /\ x \notin Contexts(H) /\ ref[x] = 0
  BY <1>6 DEF IInv, Storage
<1>8. s.slot[x % s.size] = 0
  BY <1>3 DEF IsNextHandle, IsFree
<1>9. StorageRecord(H') /\ H'.index = x + 1 /\ Contexts(H') = Contexts(H) \cup {x}
  BY <1>3, <1>5, <1>6, <1>7, <1>8, RegisteredIs
<1> DEFINE r == [th[w] EXCEPT !.pc = "registered", !.new = x]
<1>10. th' = [th EXCEPT ![w] = r]
  BY <1>3 DEF Set
<1>11. /\ th[w].stk = <<>> /\ th[w].q = th[w].ctx /\ th[w].ctx # 0 /\ th[w].new = 0 /\ th[w].dq = 0
       /\ th[w].ctx \in known /\ x # 0
  BY <1>1, <1>2, <1>6, NoSource DEF Plain, Dispatching, Launching, UsesOf
<1>12. Has(r, "registered", <<>>, th[w].ctx, th[w].ctx, th[w].obj, x, 0)
  <2>1. x \in {0} \cup Handle
    BY <1>6
  <2>2. Has(r, "registered", th[w].stk, th[w].q, th[w].ctx, th[w].obj, x, th[w].dq)
    BY <1>1, <1>2, <2>1, SetTaken
  <2> QED
    BY <1>11, <2>2
<1> HIDE DEF r
<1>13. Fits(w, r) /\ Base(r) = "registered" /\ ~InDrop(r) /\ ~Deleting(r) /\ r.pc = "registered" /\ r.new = x
  <2>1. Plain(r) /\ r \in ThreadRec /\ r.pc = "registered" /\ r.new = x
    BY <1>1, <1>11, <1>12 DEF Plain, Has, Dispatching, Launching
  <2> QED
    BY <2>1, PlainFits
<1>14. \A h \in Handle : RefsOf(r, h) = RefsOf(th[w], h) + One(x = h)
  BY <1>1, <1>2, <1>11, <1>12, <1>13, NoSource DEF RefsOf, One, Has
<1>15. \A h \in Handle : PlacesOf(r, h) = PlacesOf(th[w], h)
  BY <1>1, <1>11, <1>12, NoSource DEF PlacesOf, One, Has
<1>16. /\ th'[w] = r
       /\ \A u \in Thread \ {w} : th'[u] = th[u]
  BY <1>2, <1>10, <1>13, OneStep DEF IInv, Fits
<1>17. /\ ref' \in [Handle -> Nat] /\ ref'[x] = 2 /\ ref \in [Handle -> Nat]
       /\ \A h \in Handle \ {x} : ref'[h] = ref[h]
  BY <1>3, <1>6 DEF IInv, Typed
<1>18. Storage'
  <2>1. ASSUME NEW h \in Handle, h >= x + 1
        PROVE  h \notin known /\ h \notin Contexts(H') /\ ref'[h] = 0
    <3>1. h >= H.index /\ h # x
      BY <1>6, <2>1 DEF Handle
    <3> QED
      BY <1>9, <1>17, <3>1 DEF IInv, Storage
  <2> QED
    BY <1>4, <1>9, <2>1 DEF Storage, StorageRecord, Contexts
<1>19. Life'
  <2>1. \A u \in Thread : th[u].pc = "registered" => th'[u].pc = "registered" /\ th'[u].new = th[u].new
    BY <1>1, <1>16
  <2>2. \A h \in Handle : h \notin known => mq[h].freed
    BY DEF IInv, Life
  <2>3. \A h \in Handle : (h \in known /\ ref'[h] > 0) => ~mq[h].freed /\ ~mq[h].release
    BY <1>7, <1>17 DEF IInv, Life
  <2>4. ASSUME NEW h \in Handle, h \notin known, ref'[h] > 0
        PROVE  \E u \in Thread : th'[u].pc = "registered" /\ th'[u].new = h
    <3>1. CASE h = x
      BY <1>2, <1>13, <1>16, <3>1
    <3>2. CASE h # x
      <4>1. ref[h] > 0
        BY <1>17, <2>4, <3>2
      <4>2. PICK u \in Thread : th[u].pc = "registered" /\ th[u].new = h
        BY <2>4, <4>1 DEF IInv, Life, At
      <4> QED
        BY <2>1, <4>2
    <3> QED
      BY <3>1, <3>2
  <2> QED
    BY <1>4, <2>2, <2>3, <2>4 DEF Life, At
<1>20. \A u \in Thread : Deleting(th[u]) => th[u].obj \in Handle /\ th[u].obj # x
  <2> TAKE u \in Thread
  <2>1. UsesOf(th[u], known, ref, mq) /\ th[u] \in ThreadRec /\ Locals(th[u])
    BY DEF IInv, Uses, Control, Typed
  <2> QED
    BY <1>7, <2>1 DEF UsesOf, Deleting, Locals, ThreadRec
<1>21. Totals'
  <2>1. Counted' = Counted
    <3>1. \A h \in Handle : h \in Counted' <=> \/ h \in known /\ ref'[h] > 0
                                               \/ \E u \in Thread : Deleting(th'[u]) /\ th'[u].obj = h
      BY <1>4 DEF Counted, Deleting
    <3>2. \A h \in Handle : (h \in known /\ ref'[h] > 0) <=> (h \in known /\ ref[h] > 0)
      BY <1>7, <1>17
    <3>3. \A h \in Handle : (\E u \in Thread : Deleting(th'[u]) /\ th'[u].obj = h)
                              <=> (\E u \in Thread : Deleting(th[u]) /\ th[u].obj = h)
      BY <1>2, <1>13, <1>16
    <3> QED
      BY <3>1, <3>2, <3>3 DEF Counted
  <2>2. th'[Timer].pc = th[Timer].pc
    BY <1>2, <1>16 DEF Thread
  <2> QED
    BY <1>4, <2>1, <2>2 DEF IInv, Totals, At
<1>22. UsesKept(w, r)
  <2>1. ASSUME NEW u \in Thread \ {w}
        PROVE  UsesOf(th[u], known, ref', mq) /\ (At(u, "registered") => th[u].new # x)
    <3>1. UsesOf(th[u], known, ref, mq) /\ th[u] \in ThreadRec /\ Locals(th[u])
          /\ (u \in Worker => WorkerControl(th[u])) /\ (u = Timer => TimerControl(th[u]))
      BY DEF IInv, Uses, Control, Typed
    <3>2. UsesOf(th[u], known, ref', mq)
      BY <1>17, <1>20, <3>1 DEF UsesOf
    <3>3. ASSUME th[u].pc = "registered", th[u].new = x
          PROVE  FALSE
      <4>1. th[u].stk = <<>>
        BY <3>1, <3>3 DEF WorkerControl, TimerControl, Thread
      <4>2. Base(th[u]) = "registered"
        BY <3>3, <4>1 DEF Base
      <4>3. RefsOf(th[u], x) >= 1
        BY <3>3, <4>2 DEF RefsOf, One
      <4> QED
        BY <1>6, <1>7, <4>3, HeldRef
    <3> QED
      BY <3>2, <3>3 DEF At
  <2>2. UsesOf(r, known, ref', mq)
    BY <1>7, <1>11, <1>12, <1>13 DEF UsesOf, Has
  <2> QED
    BY <1>4, <1>13, <2>1, <2>2 DEF UsesKept
<1>23. RefsKept(w, r)
  <2> SUFFICES ASSUME NEW h \in Handle
               PROVE  ref'[h] + RefsOf(th[w], h) + One(h \in Contexts(H))
                        = ref[h] + RefsOf(r, h) + One(h \in Contexts(H)')
    BY DEF RefsKept
  <2>1. Contexts(H)' = Contexts(H')
    BY DEF Contexts
  <2>2. /\ RefsOf(th[w], h) \in Nat /\ ref[h] \in Nat /\ ref'[h] \in Nat
        /\ RefsOf(r, h) = RefsOf(th[w], h) + One(x = h)
    BY <1>14, <1>17, CountTypes
  <2>3. CASE h = x
    <3>1. /\ ref'[h] = 2 /\ ref[h] = 0 /\ One(x = h) = 1 /\ One(h \in Contexts(H)) = 0
          /\ One(h \in Contexts(H)') = 1
      BY <1>7, <1>9, <1>17, <2>1, <2>3 DEF One
    <3>2. \A a \in Nat : 2 + a + 0 = 0 + (a + 1) + 1
      OBVIOUS
    <3> QED
      BY <2>2, <3>1, <3>2
  <2>4. CASE h # x
    <3>1. /\ ref'[h] = ref[h] /\ One(x = h) = 0 /\ One(h \in Contexts(H)') = One(h \in Contexts(H))
          /\ One(h \in Contexts(H)) \in Nat
      BY <1>9, <1>17, <2>1, <2>4 DEF One
    <3>2. \A a, b, c \in Nat : a + b + c = a + (b + 0) + c
      OBVIOUS
    <3> QED
      BY <2>2, <3>1, <3>2
  <2> QED
    BY <2>3, <2>4
<1>24. PlacesKept(w, r)
  BY <1>4, <1>15 DEF PlacesKept
<1>25. TypesKept
  BY <1>4, <1>17 DEF IInv, Typed, TypesKept
<1>26. quit' = quit /\ sent' = sent
  BY <1>4
<1> QED
  BY <1>2, <1>10, <1>13, <1>18, <1>19, <1>21, <1>22, <1>23, <1>24, <1>25, <1>26, StepInv

-----------------------------------------------------------------------------
(* The invariant *)

LEMMA CallStepInv ==
    ASSUME IInv, NEW t \in Thread, CallStep(t)
    PROVE  IInv'
<1>1. CASE GrabDest(t)
  BY <1>1, GrabDestFound, GrabDestMissing
<1>2. CASE skynet_mq_push(t)
  BY <1>2, PushStep
<1>3. CASE skynet_context_release(t)
  BY <1>3, ReleaseStep
<1>4. CASE skynet_mq_mark_release(t)
  BY <1>4, MarkStep
<1>5. CASE context_dec(t)
  BY <1>5, DecStep
<1>6. CASE skynet_mq_release(t)
  BY <1>6, ReleaseMarked, ReleaseUnmarked
<1>7. CASE drop_message(t)
  BY <1>7, DropMessageStep
<1>8. CASE DropEnd(t)
  BY <1>8, DropEndStep
<1> QED
  BY <1>1, <1>2, <1>3, <1>4, <1>5, <1>6, <1>7, <1>8 DEF CallStep

LEMMA DispatchStepInv ==
    ASSUME IInv, NEW w \in Worker, DispatchStep(w)
    PROVE  IInv'
<1>1. CASE Loop(w)
  BY <1>1, LoopStep
<1>2. CASE PopFirst(w) \/ PopNext(w)
  BY <1>2, PopFirstEmpty, PopStep
<1>3. CASE skynet_handle_grab(w)
  BY <1>3, GrabFound, GrabMissing
<1>4. CASE PopEmpty(w)
  BY <1>4, PopEmptyStep
<1>5. CASE skynet_mq_pop(w)
  BY <1>5, MessageStep
<1>6. CASE skynet_mq_length(w)
  BY <1>6, LengthStep
<1>7. CASE CallbackReturns(w)
  BY <1>7, CallbackReturnsStep
<1>8. CASE PopOther(w)
  BY <1>8, PopOtherEmpty, PopOtherStep
<1>9. CASE PutBack(w)
  BY <1>9, PutBackStep
<1>10. CASE Sleep(w)
  <2>1. PICK p \in {"top", "wait", "woken"} : Goto(w, p)
    BY <1>10 DEF Sleep
  <2>2. th[w].pc \in {"sleep", "woken", "wait"} /\ UNCHANGED <<H, known, ref, mq, gq, total, quit, sent>>
    BY <1>10 DEF Sleep, At
  <2> QED
    BY <2>1, <2>2, SleepStep
<1>11. CASE Awake(w)
  <2>1. Goto(w, "top")
    BY <1>11 DEF Awake
  <2>2. th[w].pc \in {"sleep", "woken", "wait"} /\ UNCHANGED <<H, known, ref, mq, gq, total, quit, sent>>
    BY <1>11 DEF Awake, At
  <2> QED
    BY <2>1, <2>2, SleepStep
<1> QED
  BY <1>1, <1>2, <1>3, <1>4, <1>5, <1>6, <1>7, <1>8, <1>9, <1>10, <1>11 DEF DispatchStep

LEMMA ServiceStepInv ==
    ASSUME IInv, NEW w \in Worker, ServiceStep(w), ~H.clash
    PROVE  IInv'
<1>1. ASSUME NEW h \in Handle, skynet_send(w, h) PROVE IInv'
  BY <1>1, SendStep
<1>2. ASSUME NEW h \in Handle, skynet_handle_retire(w, h) PROVE IInv'
  BY <1>2, KillStep
<1>3. CASE Register(w)
  BY <1>3, ClashStep, RegisterStep
<1>4. CASE Create(w)
  BY <1>4, CreateStep
<1>5. CASE InitOk(w) \/ InitFails(w)
  BY <1>5, InitStep
<1>6. CASE Launched(w)
  BY <1>6, LaunchedStep
<1>7. CASE FailRetire(w)
  BY <1>7, FailFound, FailMissing
<1> QED
  BY <1>1, <1>2, <1>3, <1>4, <1>5, <1>6, <1>7 DEF ServiceStep

LEMMA NextInv ==
    ASSUME IInv, [Next]_vars
    PROVE  IInv'
<1>1. CASE TimerStep
  <2>1. Timer \in Thread
    BY DEF Thread
  <2>2. CASE CallStep(Timer)
    BY <2>1, <2>2, CallStepInv
  <2>3. CASE TimerLoop
    BY <2>3, TimerLoopStep
  <2>4. CASE TimerExit
    BY <2>4, TimerExitStep
  <2>5. ASSUME NEW h \in Handle, TimeoutPush(h) PROVE IInv'
    BY <2>5, TimeoutStep
  <2> QED
    BY <1>1, <2>2, <2>3, <2>4, <2>5 DEF TimerStep
<1>2. ASSUME NEW w \in Worker, WorkerStep(w)
      PROVE  IInv'
  <2>1. w \in Thread
    BY DEF Thread
  <2> QED
    BY <1>2, <2>1, CallStepInv, DispatchStepInv, ServiceStepInv DEF WorkerStep
<1>3. ASSUME NEW w \in Worker, SpuriousWakeup(w)
      PROVE  IInv'
  <2>1. Goto(w, "woken")
    BY <1>3 DEF SpuriousWakeup
  <2>2. th[w].pc \in {"sleep", "woken", "wait"} /\ UNCHANGED <<H, known, ref, mq, gq, total, quit, sent>>
    BY <1>3 DEF SpuriousWakeup, At, ServerState
  <2> QED
    BY <2>1, <2>2, SleepStep
<1>4. CASE UNCHANGED vars
  <2>1. UNCHANGED <<H, known, ref, mq, gq, total, quit, sent, th>>
    BY <1>4 DEF vars
  <2>2. Typed'
    BY <2>1 DEF IInv, Typed, QueueOK, RingOK, RingShape
  <2>3. Control'
    BY <2>1 DEF IInv, Control, TimerControl, WorkerControl, Locals, Base, Dropping, At
  <2>4. Storage' /\ Life'
    BY <2>1 DEF IInv, Storage, Life, At
  <2>5. Uses'
    BY <2>1 DEF IInv, Uses, UsesOf, Deleting, InDrop, At
  <2>6. RefCounts'
    BY <2>1 DEF IInv, RefCounts, Holders, Base
  <2>7. QueueInOnePlace'
    BY <2>1 DEF IInv, QueueInOnePlace, Places, At
  <2>8. Totals'
    BY <2>1 DEF IInv, Totals, Counted, Deleting, At
  <2> QED
    BY <2>2, <2>3, <2>4, <2>5, <2>6, <2>7, <2>8 DEF IInv
<1>5. CASE Ended
  BY <1>4, <1>5 DEF Ended
<1> QED
  BY <1>1, <1>2, <1>3, <1>4, <1>5 DEF Next

-----------------------------------------------------------------------------
(* The first state *)

LEMMA UsedQueueIs ==
    /\ QueueOK(UsedQueue) /\ InUse(UsedQueue) = 0 /\ Contents(UsedQueue.ring) = <<>>
    /\ ~UsedQueue.freed /\ ~UsedQueue.release
<1> DEFINE p == RingPush(EmptyRing, None)
           s == RingPop(p)
<1>1. None \in Cell /\ RingShape(EmptyRing) /\ Contents(EmptyRing) = <<>>
  BY EmptyRingOK DEF Cell, RingOK
<1>2. RingShape(p) /\ Contents(p) = Append(<<>>, None)
  BY <1>1, PushContents
<1> HIDE DEF p
<1>3. Append(<<>>, None) = <<None>> /\ Len(<<None>>) = 1 /\ Tail(<<None>>) = <<>>
  OBVIOUS
<1>4. RingLength(p) = 1
  BY <1>2, <1>3, ContentsSeq
<1>5. RingShape(s) /\ Contents(s) = <<>>
  BY <1>2, <1>3, <1>4, PopContents
<1>6. RingOK(s)
  BY <1>5 DEF RingOK
<1>7. UsedQueue = [NewQueue EXCEPT !.ring = s, !.in_global = FALSE]
  <2>1. NewQueue.ring = EmptyRing
    BY MadeQueues
  <2>2. UsedQueue = [NewQueue EXCEPT !.ring = RingPop(RingPush(NewQueue.ring, None)), !.in_global = FALSE]
    BY DEF UsedQueue
  <2> QED
    BY <2>1, <2>2 DEF p
<1> HIDE DEF s
<1>8. /\ NewQueue.release = FALSE /\ NewQueue.freed = FALSE
      /\ NewQueue = [ring |-> NewQueue.ring, in_global |-> NewQueue.in_global,
                     release |-> NewQueue.release, freed |-> NewQueue.freed]
  <2>1. NewQueue = [ring |-> EmptyRing, in_global |-> TRUE, release |-> FALSE, freed |-> FALSE]
    BY MadeQueues
  <2>2. /\ NewQueue.ring = EmptyRing /\ NewQueue.in_global = TRUE
        /\ NewQueue.release = FALSE /\ NewQueue.freed = FALSE
    BY <2>1
  <2> QED
    BY <2>1, <2>2
<1>9. UsedQueue = [ring |-> s, in_global |-> FALSE, release |-> FALSE, freed |-> FALSE]
  BY <1>7, <1>8, QueueFields
<1>10. /\ UsedQueue.ring = s /\ UsedQueue.in_global = FALSE /\ UsedQueue.release = FALSE
       /\ UsedQueue.freed = FALSE
  BY <1>9
<1>11. QueueOK(UsedQueue)
  BY <1>6, <1>9, <1>10 DEF QueueOK
<1> QED
  BY <1>5, <1>10, <1>11 DEF InUse

\* The storage of the first services, each in the slot of its handle.
LEMMA FirstStorage ==
    ASSUME Init
    PROVE  /\ StorageRecord(H) /\ Contexts(H) = First /\ H.clash = FALSE
           /\ \A h \in First : h < H.index
<1> DEFINE n == DEFAULT_SLOT_SIZE
           f == [i \in 0 .. n - 1 |-> IF \E h \in First : h % n = i
                                      THEN CHOOSE h \in First : h % n = i ELSE 0]
           m == CHOOSE h \in First : \A g \in First : g <= h
           k == 1 + m
<1>1. n \in Nat \ {0} /\ First \subseteq Handle /\ (\A g, h \in First : g % n = h % n => g = h)
  BY ServerAssumption, HandleAssumption DEF Handle
<1>2. \A h \in Handle : h \in Nat \ {0}
  BY ServerAssumption DEF Handle
<1>3. m \in First /\ \A g \in First : g <= m
  BY ServerAssumption
<1>4. k \in Nat \ {0} /\ \A h \in First : h < k
  <2> HIDE DEF m
  <2> QED
    BY <1>1, <1>2, <1>3
<1>5. H = [EmptyStorage EXCEPT !.slot = f, !.index = k]
  <2>1. EmptyStorage.slot = [i \in 0 .. n - 1 |-> 0]
    BY DEF EmptyStorage
  <2>2. DOMAIN EmptyStorage.slot = 0 .. n - 1
    BY <2>1
  <2> QED
    BY <2>2 DEF Init
<1>6. /\ EmptyStorage.size = n /\ EmptyStorage.clash = FALSE
      /\ EmptyStorage = [size |-> EmptyStorage.size, index |-> EmptyStorage.index,
                         slot |-> EmptyStorage.slot, clash |-> EmptyStorage.clash]
  BY DEF EmptyStorage
<1>7. \A i \in 0 .. n - 1 : /\ \A h \in First : h % n = i => f[i] = h
                            /\ f[i] # 0 => f[i] \in First /\ f[i] % n = i
                            /\ f[i] \in {0} \cup Handle
  <2> SUFFICES ASSUME NEW i \in 0 .. n - 1
               PROVE  /\ \A h \in First : h % n = i => f[i] = h
                      /\ f[i] # 0 => f[i] \in First /\ f[i] % n = i
                      /\ f[i] \in {0} \cup Handle
    OBVIOUS
  <2>1. CASE \E h \in First : h % n = i
    <3> DEFINE c == CHOOSE h \in First : h % n = i
    <3>1. f[i] = c
      BY <2>1
    <3>2. c \in First /\ c % n = i
      BY <2>1
    <3> HIDE DEF c, f, n
    <3> QED
      BY <1>1, <3>1, <3>2
  <2>2. CASE ~\E h \in First : h % n = i
    BY <2>2
  <2> QED
    BY <2>1, <2>2
<1>8. f \in [0 .. n - 1 -> {0} \cup Handle] /\ DOMAIN f = 0 .. n - 1
  <2>1. DOMAIN f = 0 .. n - 1 /\ f = [i \in 0 .. n - 1 |-> f[i]]
    OBVIOUS
  <2> HIDE DEF f, n
  <2> QED
    BY <1>7, <2>1
<1> HIDE DEF f, k, m
<1>9. H = [size |-> n, index |-> k, slot |-> f, clash |-> FALSE]
  BY <1>5, <1>6, StorageFields
<1>10. H.size = n /\ H.index = k /\ H.slot = f /\ H.clash = FALSE
  BY <1>9
<1> HIDE DEF n
<1>11. StorageRecord(H)
  BY <1>1, <1>4, <1>7, <1>8, <1>9, <1>10 DEF StorageRecord
<1>12. \A h \in First : h % n \in 0 .. n - 1 /\ h # 0
  BY <1>1, <1>2
<1>13. Contexts(H) = First
  BY <1>7, <1>8, <1>10, <1>12 DEF Contexts
<1> QED
  BY <1>4, <1>10, <1>11, <1>13

\* Every thread starts outside all calls and holds nothing.
LEMMA FirstThreads ==
    ASSUME Init, NEW t \in Thread
    PROVE  /\ th[t] \in ThreadRec /\ th[t].stk = <<>>
           /\ th[t].pc = IF t = Timer THEN "update" ELSE "top"
           /\ th[t].q = 0 /\ th[t].ctx = 0 /\ th[t].obj = 0 /\ th[t].new = 0 /\ th[t].dq = 0
<1> DEFINE p == IF t = Timer THEN "update" ELSE "top"
           z == 0
           e == <<>>
<1>1. z \in {0} \cup Handle /\ z = 0 /\ z \in Int /\ None \in Message \cup {None} /\ p \in PC
  BY DEF PC, WorkerPC
<1>2. e \in Seq(PC) /\ e = <<>>
  OBVIOUS
<1>3. th[t] = [pc |-> p, stk |-> e, q |-> z, ctx |-> z, left |-> z,
               obj |-> z, msg |-> None, new |-> z, dq |-> z]
  BY DEF Init, Idle
<1> HIDE DEF p, z, e
<1>4. th[t] \in ThreadRec
  BY <1>1, <1>2, <1>3 DEF ThreadRec
<1>5. /\ th[t].stk = e /\ th[t].pc = p
      /\ th[t].q = z /\ th[t].ctx = z /\ th[t].obj = z /\ th[t].new = z /\ th[t].dq = z
  BY <1>3
<1> QED
  BY <1>1, <1>2, <1>4, <1>5 DEF p

LEMMA InitInv == Init => IInv
<1> SUFFICES ASSUME Init PROVE IInv
  OBVIOUS
<1>1. First \subseteq Handle /\ 0 \notin Handle /\ Timer \in Thread /\ Timer \notin Worker
  BY ServerAssumption DEF Handle, Thread
<1>2. /\ StorageRecord(H) /\ Contexts(H) = First
      /\ \A h \in First : h < H.index
  BY FirstStorage
<1>3. \A t \in Thread : /\ th[t] \in ThreadRec /\ th[t].stk = <<>>
                        /\ th[t].pc = IF t = Timer THEN "update" ELSE "top"
                        /\ th[t].q = 0 /\ th[t].ctx = 0 /\ th[t].obj = 0 /\ th[t].new = 0
                        /\ th[t].dq = 0
  BY FirstThreads
<1>4. /\ known = First
      /\ ref \in [Handle -> Nat]
      /\ \A h \in Handle : ref[h] = One(h \in First)
  BY DEF Init, One
<1>5. /\ mq \in [Handle -> {mq[h] : h \in Handle}]
      /\ \A h \in Handle : mq[h] = IF h \in First THEN UsedQueue ELSE NoQueue
  <2>1. mq = [h \in Handle |-> IF h \in First THEN UsedQueue ELSE NoQueue]
    BY DEF Init
  <2> QED
    BY <2>1
<1>6. /\ gq = <<>> /\ total = Cardinality(First) /\ quit = FALSE /\ sent = 0
  BY DEF Init
<1>7. \A h \in Handle : /\ QueueOK(mq[h]) /\ InUse(mq[h]) = 0
                        /\ mq[h].freed <=> h \notin First
                        /\ h \in First => ~mq[h].release
  BY <1>5, UsedQueueIs, MadeQueues
<1>8. Typed
  <2>1. IsFiniteSet(First) /\ Cardinality(First) \in Nat
    <3>1. IsFiniteSet(First)
      BY <1>1, CountedFinite, FS_Subset
    <3> QED
      BY <3>1, FS_CardinalityType
  <2>2. th \in [Thread -> ThreadRec]
    <3>1. th = [t \in Thread |-> th[t]]
      BY DEF Init
    <3> QED
      BY <1>3, <3>1
  <2>3. gq \in Seq(Handle) /\ quit \in BOOLEAN
    <3>1. gq \in Seq(Handle)
      BY <1>6
    <3>2. quit \in BOOLEAN
      BY <1>6
    <3> QED
      BY <3>1, <3>2
  <2>4. sent \in 0 .. MaxMessage
    BY <1>6, ServerAssumption
  <2>5. total \in Nat
    BY <1>6, <2>1
  <2> QED
    BY <1>1, <1>4, <1>5, <1>7, <2>2, <2>3, <2>4, <2>5 DEF Typed
<1>9. Control
  <2>1. TimerControl(th[Timer])
    BY <1>1, <1>3 DEF TimerControl
  <2>2. \A w \in Worker : WorkerControl(th[w]) /\ (At(w, "length") => Weight[w] >= 0)
    BY <1>1, <1>3 DEF WorkerControl, WorkerPC, At, Thread
  <2>3. \A t \in Thread : Locals(th[t])
    BY <1>3 DEF Locals, Base, Dispatching, Launching, Dropping
  <2> QED
    BY <2>1, <2>2, <2>3 DEF Control
<1>10. Storage
  <2>1. \A h \in Handle : h >= H.index => h \notin First
    BY <1>2, ServerAssumption DEF StorageRecord, Handle
  <2>2. \A h \in Handle : h >= H.index => h \notin known /\ h \notin Contexts(H) /\ ref[h] = 0
    BY <1>2, <1>4, <2>1 DEF One
  <2> QED
    BY <1>2, <2>2 DEF Storage, StorageRecord
<1>11. Life
  BY <1>4, <1>7 DEF Life, One
<1>12. Uses
  <2>1. \A t \in Thread : UsesOf(th[t], known, ref, mq)
    BY <1>3 DEF UsesOf, Deleting, InDrop
  <2> QED
    BY <1>3, <2>1 DEF Uses, Deleting, At
<1>13. RefCounts
  <2> SUFFICES ASSUME NEW h \in Handle PROVE ref[h] = Cardinality(Holders(h))
    BY DEF RefCounts
  <2>1. DispatchRefs(h) = {} /\ CallRefs(h) = {} /\ LaunchRefs(h) = {}
    BY <1>1, <1>3 DEF DispatchRefs, CallRefs, LaunchRefs
  <2>2. Cardinality(Holders(h)) = 0 + 0 + 0 + One(h \in First)
    BY <1>2, <2>1, HoldersSum, FS_EmptySet DEF RefsByKind
  <2> QED
    BY <1>4, <2>2 DEF One
<1>14. QueueInOnePlace
  <2> SUFFICES ASSUME NEW h \in Handle PROVE Cardinality(Places(h)) = InUse(mq[h])
    BY DEF QueueInOnePlace, InUse
  <2>1. WorkerPlaces(h) = {} /\ NextPlaces(h) = {} /\ DropPlaces(h) = {} /\ LaunchPlaces(h) = {}
    BY <1>1, <1>3 DEF WorkerPlaces, NextPlaces, DropPlaces, LaunchPlaces
  <2>2. gq \in Seq(Handle) /\ Positions(gq, h) = {}
    BY <1>6 DEF Positions
  <2>3. Cardinality(Places(h)) = 0 + 0 + 0 + 0 + 0
    BY <2>1, <2>2, PlacesSum, FS_EmptySet DEF PlacesByKind, Waiting
  <2> QED
    BY <1>7, <2>3
<1>15. Totals
  <2>1. Counted = First
    BY <1>1, <1>3, <1>4 DEF Counted, Deleting, One
  <2>2. ~At(Timer, "exit")
    BY <1>1, <1>3 DEF At
  <2> QED
    BY <1>6, <2>1, <2>2 DEF Totals
<1> QED
  BY <1>8, <1>9, <1>10, <1>11, <1>12, <1>13, <1>14, <1>15 DEF IInv

LEMMA Invariant == Spec => []IInv
<1>1. IInv /\ [Next]_vars => IInv'
  BY NextInv
<1> QED
  BY <1>1, InitInv, PTL DEF Spec

-----------------------------------------------------------------------------
(* What the invariant shows *)

\* ctx->ref is at all times the number of references that threads and the handle
\* storage hold: skynet_handle_grab, skynet_context_release and skynet_context_new
\* lose none and count none twice, in whatever order the threads run.
THEOREM RefsAreCounted == Spec => []RefCounts
<1>1. IInv => RefCounts
  BY DEF IInv
<1> QED
  BY <1>1, Invariant, PTL

\* A message queue that is in use is in exactly one place - the global queue, a worker
\* that dispatches from it, a thread that launches or releases its service - and one
\* that is freed or idle is nowhere.
THEOREM QueuesInOnePlace == Spec => []QueueInOnePlace
<1>1. IInv => QueueInOnePlace
  BY DEF IInv
<1> QED
  BY <1>1, Invariant, PTL

\* The timer thread sets m->quit only when every context has been freed.
THEOREM QuitAfterLast == Spec => []QuitIsLast
<1>1. IInv => QuitIsLast
  <2> SUFFICES ASSUME IInv, quit, NEW h \in Handle PROVE ref[h] = 0
    BY DEF QuitIsLast
  <2>1. total = 0 /\ total = Cardinality(Counted)
    BY DEF IInv, Totals
  <2>2. Counted = {}
    BY <2>1, CountedFinite, FS_EmptySet
  <2>3. ref[h] \in Nat
    BY DEF IInv, Typed
  <2>4. \A g \in Handle : g \in known => ~(ref[g] > 0)
    BY <2>2 DEF Counted
  <2>5. CASE h \in known
    BY <2>3, <2>4, <2>5
  \* One that has no handle yet is being launched by a service that runs.
  <2>6. CASE h \notin known
    <3> SUFFICES ASSUME ref[h] > 0 PROVE FALSE
      BY <2>3
    <3>1. PICK t \in Thread : At(t, "registered") /\ th[t].new = h
      BY <2>6 DEF IInv, Life
    <3>2. th[t] \in ThreadRec /\ Locals(th[t]) /\ UsesOf(th[t], known, ref, mq)
      BY DEF IInv, Typed, Control, Uses
    <3>3. th[t].pc = "registered" /\ th[t].stk = <<>>
      <4>1. t = Timer \/ t \in Worker
        BY DEF Thread
      <4> QED
        BY <3>1, <4>1 DEF At, IInv, Control, TimerControl, WorkerControl
    <3>4. th[t].ctx # 0 /\ th[t].ctx \in Handle
      BY <3>2, <3>3 DEF Locals, Base, Dispatching, Launching, ThreadRec
    <3>5. th[t].ctx \in known
      BY <3>2, <3>4 DEF UsesOf
    <3>6. RefsOf(th[t], th[t].ctx) >= 1
      BY DEF RefsOf, One
    <3>7. ref[th[t].ctx] \in Nat /\ ref[th[t].ctx] >= 1
      BY <3>4, <3>6, HeldRef
    <3> QED
      BY <2>4, <3>4, <3>5, <3>7
  <2> QED
    BY <2>5, <2>6
<1> QED
  BY <1>1, Invariant, PTL

-----------------------------------------------------------------------------
(* The mailboxes.  Box, Stat and Busy are what SkynetMailbox's variables stand for. *)

Box == [h \in Handle |-> Contents(mq[h].ring)]
StatusOf(m) == IF m.freed THEN "none" ELSE IF m.release THEN "dead" ELSE "up"
Stat == [h \in Handle |-> StatusOf(mq[h])]

\* A worker dispatches a service all along, and handles a message from skynet_mq_pop
\* until the callback returns.
BetweenMessages == {"first", "next", "last", "put_back"}
Handling(r, h) == r.ctx = h /\ r.pc \notin BetweenMessages
Busy == {h \in Handle : \E w \in Worker : Handling(th[w], h)}

MailStep == [Mailbox!Next]_(Mailbox!vars)

LEMMA StutterIs ==
    ASSUME Box' = Box, Stat' = Stat, Busy' = Busy
    PROVE  MailStep
  BY DEF MailStep, Mailbox!vars, Box, Stat, StatusOf, Busy, Handling, BetweenMessages

LEMMA SendIs ==
    ASSUME NEW h \in Handle, NEW m \in Message, Stat[h] = "up",
           Box' = [Box EXCEPT ![h] = Append(@, m)], Stat' = Stat, Busy' = Busy
    PROVE  MailStep
  BY DEF MailStep, Mailbox!Next, Mailbox!Send, Box, Stat, StatusOf, Busy, Handling, BetweenMessages

LEMMA LaunchIs ==
    ASSUME NEW h \in Handle, Stat[h] = "none",
           Stat' = [Stat EXCEPT ![h] = "up"], Box' = Box, Busy' = Busy
    PROVE  MailStep
  BY DEF MailStep, Mailbox!Next, Mailbox!Launch, Box, Stat, StatusOf, Busy, Handling, BetweenMessages

LEMMA TakeIs ==
    ASSUME NEW h \in Handle, Stat[h] = "up", h \notin Busy, Box[h] # <<>>,
           Box' = [Box EXCEPT ![h] = Tail(@)], Busy' = Busy \cup {h}, Stat' = Stat
    PROVE  MailStep
  BY DEF MailStep, Mailbox!Next, Mailbox!Take, Box, Stat, StatusOf, Busy, Handling, BetweenMessages

LEMMA FinishIs ==
    ASSUME NEW h \in Handle, h \in Busy, Busy' = Busy \ {h}, Box' = Box, Stat' = Stat
    PROVE  MailStep
  BY DEF MailStep, Mailbox!Next, Mailbox!Finish, Box, Stat, StatusOf, Busy, Handling, BetweenMessages

LEMMA EndIs ==
    ASSUME NEW h \in Handle, Stat[h] = "up", h \notin Busy,
           Stat' = [Stat EXCEPT ![h] = "dead"], Box' = Box, Busy' = Busy
    PROVE  MailStep
  BY DEF MailStep, Mailbox!Next, Mailbox!End, Box, Stat, StatusOf, Busy, Handling, BetweenMessages

LEMMA DropStepIs ==
    ASSUME NEW h \in Handle, Stat[h] = "dead", Box[h] # <<>>,
           Box' = [Box EXCEPT ![h] = Tail(@)], Stat' = Stat, Busy' = Busy
    PROVE  MailStep
  BY DEF MailStep, Mailbox!Next, Mailbox!Drop, Box, Stat, StatusOf, Busy, Handling, BetweenMessages

LEMMA ClearIs ==
    ASSUME NEW h \in Handle, Stat[h] = "dead", Box[h] = <<>>,
           Stat' = [Stat EXCEPT ![h] = "none"], Box' = Box, Busy' = Busy
    PROVE  MailStep
  BY DEF MailStep, Mailbox!Next, Mailbox!Clear, Box, Stat, StatusOf, Busy, Handling, BetweenMessages

LEMMA MailInit == Init => Mailbox!Init
<1> SUFFICES ASSUME Init PROVE Mailbox!Init
  OBVIOUS
<1>1. \A h \in Handle : mq[h] = IF h \in First THEN UsedQueue ELSE NoQueue
  BY DEF Init
<1>2. \A h \in Handle : Contents(mq[h].ring) = <<>>
  BY <1>1, UsedQueueIs, MadeQueues, EmptyRingOK
<1>3. \A h \in Handle : StatusOf(mq[h]) = IF h \in First THEN "up" ELSE "none"
  BY <1>1, UsedQueueIs, MadeQueues DEF StatusOf
<1>4. Busy = {}
  <2>1. \A w \in Worker : th[w].ctx = 0
    BY FirstThreads DEF Thread
  <2> QED
    BY <2>1, NoSource DEF Busy, Handling
<1>5. Box = [h \in Handle |-> <<>>]
  BY <1>2 DEF Box
<1>6. Stat = [h \in Handle |-> IF h \in First THEN "up" ELSE "none"]
  BY <1>3 DEF Stat
<1> QED
  BY <1>4, <1>5, <1>6 DEF Mailbox!Init, Box, Stat, StatusOf, Busy, Handling, BetweenMessages

\* The thread handles the same messages.
Kept(r, s) == \A h \in Handle : Handling(s, h) <=> Handling(r, h)
Quiet(t) == \E r : th' = [th EXCEPT ![t] = r] /\ (t \in Worker => Kept(th[t], r))

LEMMA KeptIs ==
    ASSUME NEW r, NEW s,
           \/ s.ctx = r.ctx /\ (s.pc \in BetweenMessages <=> r.pc \in BetweenMessages)
           \/ (r.ctx = 0 \/ r.pc \in BetweenMessages) /\ (s.ctx = 0 \/ s.pc \in BetweenMessages)
    PROVE  Kept(r, s)
  BY NoSource DEF Kept, Handling

LEMMA BusyKept ==
    ASSUME IInv, NEW t \in Thread, Quiet(t)
    PROVE  Busy' = Busy
<1>1. PICK r : th' = [th EXCEPT ![t] = r] /\ (t \in Worker => Kept(th[t], r))
  BY DEF Quiet
<1>2. \A w \in Worker : th'[w] = IF w = t THEN r ELSE th[w]
  BY <1>1 DEF IInv, Typed, Thread
<1>3. \A w \in Worker : \A h \in Handle : Handling(th'[w], h) <=> Handling(th[w], h)
  BY <1>1, <1>2 DEF Kept
<1>4. Busy' = {h \in Handle : \E w \in Worker : Handling(th'[w], h)}
  BY DEF Busy, Handling
<1> QED
  BY <1>3, <1>4 DEF Busy

LEMMA QuietMail ==
    ASSUME IInv, NEW t \in Thread, Quiet(t), mq' = mq
    PROVE  MailStep
<1>1. Box' = Box /\ Stat' = Stat
  BY DEF Box, Stat, StatusOf, Contents, RingLength
<1> QED
  BY <1>1, BusyKept, StutterIs

\* A change of one queue seen from the mailboxes.
LEMMA QueueView ==
    ASSUME IInv, NEW x \in Handle, NEW q, mq' = [mq EXCEPT ![x] = q]
    PROVE  /\ Box' = [Box EXCEPT ![x] = Contents(q.ring)]
           /\ Stat' = [Stat EXCEPT ![x] = StatusOf(q)]
           /\ Box[x] = Contents(mq[x].ring) /\ Stat[x] = StatusOf(mq[x])
           /\ Contents(q.ring) = Contents(mq[x].ring) => Box' = Box
           /\ StatusOf(q) = StatusOf(mq[x]) => Stat' = Stat
<1>1. \A h \in Handle : mq'[h] = IF h = x THEN q ELSE mq[h]
  BY DEF IInv, Typed
<1>2. Box' = [h \in Handle |-> Contents(mq'[h].ring)] /\ Stat' = [h \in Handle |-> StatusOf(mq'[h])]
  BY DEF Box, Stat, StatusOf, Contents, RingLength
<1>3. /\ Box' = [h \in Handle |-> IF h = x THEN Contents(q.ring) ELSE Contents(mq[h].ring)]
      /\ Stat' = [h \in Handle |-> IF h = x THEN StatusOf(q) ELSE StatusOf(mq[h])]
  BY <1>1, <1>2
<1> QED
  BY <1>3 DEF Box, Stat

LEMMA CallView ==
    ASSUME NEW r \in ThreadRec, NEW p, NEW back, NEW c, NEW m
    PROVE  /\ Call(r, p, back).pc = p /\ Call(r, p, back).ctx = r.ctx
           /\ ReleaseCall(r, c, back).pc = "release" /\ ReleaseCall(r, c, back).ctx = r.ctx
           /\ SendCall(r, c, m, back).pc = "grab_dest" /\ SendCall(r, c, m, back).ctx = r.ctx
           /\ [r EXCEPT !.pc = p].pc = p /\ [r EXCEPT !.pc = p].ctx = r.ctx
  BY DEF Call, ReleaseCall, SendCall, ThreadRec

\* A thread goes on with the context it has.
LEMMA GotoQuiet ==
    ASSUME IInv, NEW t \in Thread, NEW p, Goto(t, p),
           \/ p \in BetweenMessages <=> th[t].pc \in BetweenMessages
           \/ th[t].ctx = 0
    PROVE  Quiet(t)
<1> DEFINE r == [th[t] EXCEPT !.pc = p]
<1>1. Typed /\ th[t] \in ThreadRec
  BY DEF IInv, Typed
<1>2. th' = [th EXCEPT ![t] = r]
  BY <1>1, GotoIs
<1>3. r.pc = p /\ r.ctx = th[t].ctx
  BY <1>1, CallView
<1> HIDE DEF r
<1>4. Kept(th[t], r)
  BY <1>3, KeptIs
<1> QED
  BY <1>2, <1>4 DEF Quiet

LEMMA SetQuiet ==
    ASSUME NEW t \in Thread, NEW r, Set(t, r), r.ctx = th[t].ctx,
           r.pc \notin BetweenMessages, th[t].pc \notin BetweenMessages
    PROVE  Quiet(t)
<1>1. Kept(th[t], r)
  BY KeptIs
<1> QED
  BY <1>1 DEF Quiet, Set

\* The steps of a call that leave the queues alone.
LEMMA CallMail ==
    ASSUME IInv, NEW t \in Thread,
           GrabDest(t) \/ skynet_context_release(t) \/ context_dec(t) \/ skynet_mq_release(t)
    PROVE  MailStep
<1>1. mq' = mq
  BY DEF GrabDest, skynet_context_release, context_dec, skynet_mq_release
<1>2. th[t].pc \in {"grab_dest", "release", "dec", "mq_release"} /\ th[t].pc \notin BetweenMessages
  BY DEF GrabDest, skynet_context_release, context_dec, skynet_mq_release, At, BetweenMessages
<1>3. ASSUME Goto(t, "push") \/ Goto(t, "mark") \/ Goto(t, "drop") PROVE Quiet(t)
  BY <1>2, <1>3, GotoQuiet DEF BetweenMessages
<1>4. ASSUME Set(t, Return(th[t])), th[t].pc \in {"grab_dest", "release", "dec"} PROVE Quiet(t)
  <2> DEFINE r == Return(th[t])
  <2>1. r.pc \in AfterReturn /\ r.ctx = th[t].ctx
    BY <1>4, ReturnFits
  <2>2. Set(t, r)
    BY <1>4
  <2> HIDE DEF r
  <2>3. r.pc \notin BetweenMessages
    BY <2>1 DEF AfterReturn, BetweenMessages
  <2> QED
    BY <1>2, <2>1, <2>2, <2>3, SetQuiet
<1>5. ASSUME Set(t, DropDone(th[t])), th[t].pc = "mq_release" PROVE Quiet(t)
  <2> DEFINE r == DropDone(th[t])
  <2>1. r.pc \in {"callback", "repop"} /\ r.ctx = th[t].ctx
    BY <1>5, DropReturns
  <2>2. Set(t, r)
    BY <1>5
  <2> HIDE DEF r
  <2>3. r.pc \notin BetweenMessages
    BY <2>1 DEF BetweenMessages
  <2> QED
    BY <1>2, <2>1, <2>2, <2>3, SetQuiet
<1>6. Quiet(t)
  <2>1. CASE GrabDest(t)
    BY <1>3, <1>4, <2>1 DEF GrabDest, At
  <2>2. CASE skynet_context_release(t)
    BY <1>3, <1>4, <2>2 DEF skynet_context_release, At
  <2>3. CASE context_dec(t)
    BY <1>4, <2>3 DEF context_dec, At
  <2>4. CASE skynet_mq_release(t)
    BY <1>3, <1>5, <2>4 DEF skynet_mq_release, At, DropDone
  <2> QED
    BY <2>1, <2>2, <2>3, <2>4
<1> QED
  BY <1>1, <1>6, QuietMail

LEMMA PushMail ==
    ASSUME IInv, NEW t \in Thread, skynet_mq_push(t)
    PROVE  MailStep
<1> DEFINE x == th[t].obj
           q == [mq[x] EXCEPT !.ring = RingPush(@, th[t].msg), !.in_global = TRUE]
           p == RingPush(mq[x].ring, th[t].msg)
<1>1. th[t].pc = "push"
  BY DEF skynet_mq_push, At
<1>2. x \in Handle /\ x \in known /\ th[t].msg \in Message
  BY <1>1, CallIs DEF CallPC, UsesOf
<1>3. ref[x] \in Nat /\ ref[x] >= 1
  <2>1. RefsOf(th[t], x) >= 1
    BY <1>1 DEF RefsOf, One
  <2> QED
    BY <1>2, <2>1, HeldRef
<1>4. ~mq[x].freed /\ ~mq[x].release
  BY <1>2, <1>3 DEF IInv, Life
<1>5. QueueOK(mq[x])
  BY <1>2 DEF IInv, Typed
<1>6. mq' = [mq EXCEPT ![x] = q]
  BY <1>2 DEF skynet_mq_push, IInv, Typed
<1>7. q = [ring |-> p, in_global |-> TRUE, release |-> mq[x].release, freed |-> mq[x].freed]
  <2>1. mq[x] = [ring |-> mq[x].ring, in_global |-> mq[x].in_global, release |-> mq[x].release,
                 freed |-> mq[x].freed]
    BY <1>5 DEF QueueOK
  <2>2. q = [mq[x] EXCEPT !.ring = p, !.in_global = TRUE]
    OBVIOUS
  <2> HIDE DEF p, q, x
  <2> QED
    BY <2>1, <2>2, QueueFields
<1> HIDE DEF q
<1>8. q.ring = p /\ q.release = mq[x].release /\ q.freed = mq[x].freed
  BY <1>7
<1>9. Contents(p) = Append(Contents(mq[x].ring), th[t].msg)
  <2>1. RingShape(mq[x].ring) /\ th[t].msg \in Cell
    BY <1>2, <1>5 DEF QueueOK, RingOK, Cell
  <2> QED
    BY <2>1, PushContents
<1> HIDE DEF p
<1>10. Quiet(t)
  <2>1. Goto(t, "release")
    BY DEF skynet_mq_push
  <2> QED
    BY <1>1, <2>1, GotoQuiet DEF BetweenMessages
<1>11. StatusOf(q) = "up" /\ StatusOf(mq[x]) = "up"
  BY <1>4, <1>8 DEF StatusOf
<1>12. /\ Box' = [Box EXCEPT ![x] = Append(Contents(mq[x].ring), th[t].msg)]
       /\ Stat' = Stat /\ Stat[x] = "up" /\ Box[x] = Contents(mq[x].ring)
  <2>1. /\ Box' = [Box EXCEPT ![x] = Contents(q.ring)]
        /\ Box[x] = Contents(mq[x].ring) /\ Stat[x] = StatusOf(mq[x])
        /\ StatusOf(q) = StatusOf(mq[x]) => Stat' = Stat
    BY <1>2, <1>6, QueueView
  <2> QED
    BY <1>8, <1>9, <1>11, <2>1
<1>13. Box' = [Box EXCEPT ![x] = Append(@, th[t].msg)]
  BY <1>12
<1>14. Busy' = Busy
  BY <1>10, BusyKept
<1> HIDE DEF x
<1> QED
  BY <1>2, <1>12, <1>13, <1>14, SendIs

\* A service whose context is deleted is not busy: whoever dispatches it has a reference.
LEMMA MarkMail ==
    ASSUME IInv, NEW t \in Thread, skynet_mq_mark_release(t)
    PROVE  MailStep
<1> DEFINE x == th[t].obj
           q == [mq[x] EXCEPT !.release = TRUE]
<1>1. th[t].pc = "mark" /\ Deleting(th[t])
  BY DEF skynet_mq_mark_release, At, Deleting
<1>2. x \in Handle /\ ref[x] = 0 /\ ~mq[x].freed /\ ~mq[x].release
  BY <1>1, CallIs DEF CallPC, UsesOf
<1>3. QueueOK(mq[x])
  BY <1>2 DEF IInv, Typed
<1>4. mq' = [mq EXCEPT ![x] = q]
  BY <1>2 DEF skynet_mq_mark_release, IInv, Typed
<1>5. q = [ring |-> mq[x].ring, in_global |-> mq[x].in_global, release |-> TRUE, freed |-> mq[x].freed]
  <2>1. mq[x] = [ring |-> mq[x].ring, in_global |-> mq[x].in_global, release |-> mq[x].release,
                 freed |-> mq[x].freed]
    BY <1>3 DEF QueueOK
  <2> HIDE DEF x
  <2> QED
    BY <2>1, QueueFields
<1> HIDE DEF q
<1>6. q.ring = mq[x].ring /\ q.release = TRUE /\ q.freed = mq[x].freed
  BY <1>5
<1>7. StatusOf(q) = "dead" /\ StatusOf(mq[x]) = "up"
  BY <1>2, <1>6 DEF StatusOf
<1>8. /\ Stat' = [Stat EXCEPT ![x] = "dead"] /\ Stat[x] = "up" /\ Box' = Box
  <2>1. /\ Stat' = [Stat EXCEPT ![x] = StatusOf(q)]
        /\ Stat[x] = StatusOf(mq[x])
        /\ Contents(q.ring) = Contents(mq[x].ring) => Box' = Box
    BY <1>2, <1>4, QueueView
  <2> QED
    BY <1>6, <1>7, <2>1
<1>9. Busy' = Busy
  <2>1. Goto(t, "dec")
    BY DEF skynet_mq_mark_release
  <2>2. Quiet(t)
    BY <1>1, <2>1, GotoQuiet DEF BetweenMessages
  <2> QED
    BY <2>2, BusyKept
<1>10. x \notin Busy
  <2> SUFFICES ASSUME NEW w \in Worker, th[w].ctx = x PROVE FALSE
    BY DEF Busy, Handling
  <2>1. w \in Thread /\ RefsOf(th[w], x) >= 1
    BY DEF Thread, RefsOf, One
  <2>2. ref[x] >= 1
    BY <1>2, <2>1, HeldRef
  <2> QED
    BY <1>2, <2>2
<1> HIDE DEF x
<1> QED
  BY <1>2, <1>8, <1>9, <1>10, EndIs

\* A message is taken from a queue: the oldest one.
LEMMA PopView ==
    ASSUME IInv, NEW x \in Handle, RingLength(mq[x].ring) > 0, mq' = [mq EXCEPT ![x].ring = RingPop(@)]
    PROVE  /\ Box' = [Box EXCEPT ![x] = Tail(@)] /\ Box[x] # <<>> /\ Stat' = Stat
           /\ Stat[x] = StatusOf(mq[x])
<1> DEFINE p == RingPop(mq[x].ring)
           q == [mq[x] EXCEPT !.ring = p]
<1>1. QueueOK(mq[x])
  BY DEF IInv, Typed
<1>2. mq' = [mq EXCEPT ![x] = q]
  BY DEF IInv, Typed
<1>3. RingShape(mq[x].ring)
  BY <1>1 DEF QueueOK, RingOK
<1>4. Contents(p) = Tail(Contents(mq[x].ring)) /\ Contents(mq[x].ring) # <<>>
  BY <1>3, PopContents
<1> HIDE DEF p
<1>5. q.ring = p /\ q.release = mq[x].release /\ q.freed = mq[x].freed
  BY <1>1 DEF QueueOK
<1> HIDE DEF q
<1>6. StatusOf(q) = StatusOf(mq[x])
  BY <1>5 DEF StatusOf
<1>7. /\ Box' = [Box EXCEPT ![x] = Contents(q.ring)]
      /\ Box[x] = Contents(mq[x].ring) /\ Stat[x] = StatusOf(mq[x])
      /\ StatusOf(q) = StatusOf(mq[x]) => Stat' = Stat
  BY <1>2, QueueView
<1> QED
  BY <1>4, <1>5, <1>6, <1>7

LEMMA DropMail ==
    ASSUME IInv, NEW t \in Thread, drop_message(t)
    PROVE  MailStep
<1> DEFINE x == th[t].dq
           m == RingHead(mq[x].ring)
           e == [m EXCEPT !.src = x, !.err = TRUE]
<1>1. th[t].pc = "drop" /\ InDrop(th[t])
  BY DEF drop_message, At, InDrop
<1>2. t \in Worker /\ th[t] \in ThreadRec /\ x \in Handle /\ UsesOf(th[t], known, ref, mq)
  BY <1>1, DropIs
<1>3. mq' = [mq EXCEPT ![x].ring = RingPop(@)] /\ RingLength(mq[x].ring) > 0
  BY DEF drop_message
<1>4. PlacesOf(th[t], x) >= 1
  BY <1>1, <1>2, NoSource DEF PlacesOf, One
<1>5. ~mq[x].freed /\ mq[x].release
  BY <1>1, <1>2, <1>4, HeldQueue DEF UsesOf
<1>6. Quiet(t)
  <2>1. CASE m.src = 0
    <3>1. th' = th
      BY <2>1 DEF drop_message
    <3>2. th' = [th EXCEPT ![t] = th[t]]
      BY <3>1 DEF IInv, Typed
    <3> QED
      BY <3>2 DEF Quiet, Kept
  <2>2. CASE m.src # 0
    <3> DEFINE r == SendCall(th[t], m.src, e, "drop")
    <3>1. Set(t, r)
      BY <2>2 DEF drop_message
    <3>2. r.ctx = th[t].ctx /\ r.pc = "grab_dest"
      BY <1>2, CallView
    <3> HIDE DEF r
    <3> QED
      BY <1>1, <3>1, <3>2, SetQuiet DEF BetweenMessages
  <2> QED
    BY <2>1, <2>2
<1> HIDE DEF m, e
<1>7. StatusOf(mq[x]) = "dead"
  BY <1>5 DEF StatusOf
<1>8. Box' = [Box EXCEPT ![x] = Tail(@)] /\ Box[x] # <<>> /\ Stat' = Stat /\ Stat[x] = "dead"
  BY <1>2, <1>3, <1>7, PopView
<1>9. Busy' = Busy
  BY <1>6, BusyKept
<1> HIDE DEF x
<1> QED
  BY <1>2, <1>8, <1>9, DropStepIs

LEMMA DropEndMail ==
    ASSUME IInv, NEW t \in Thread, DropEnd(t)
    PROVE  MailStep
<1> DEFINE x == th[t].dq
           r == DropDone(th[t])
<1>1. th[t].pc = "drop" /\ InDrop(th[t])
  BY DEF DropEnd, At, InDrop
<1>2. t \in Worker /\ th[t] \in ThreadRec /\ x \in Handle /\ UsesOf(th[t], known, ref, mq)
  BY <1>1, DropIs
<1>3. mq' = [mq EXCEPT ![x] = NoQueue] /\ RingLength(mq[x].ring) = 0 /\ Set(t, r)
  BY DEF DropEnd, DropDone
<1>4. PlacesOf(th[t], x) >= 1
  BY <1>1, <1>2, NoSource DEF PlacesOf, One
<1>5. ~mq[x].freed /\ mq[x].release
  BY <1>1, <1>2, <1>4, HeldQueue DEF UsesOf
<1>6. Contents(mq[x].ring) = <<>>
  <2>1. RingShape(mq[x].ring)
    BY <1>2 DEF IInv, Typed, QueueOK, RingOK
  <2>2. Contents(mq[x].ring) \in Seq(Cell) /\ Len(Contents(mq[x].ring)) = 0
    BY <1>3, <2>1, ContentsSeq
  <2> QED
    BY <2>2
<1>7. /\ Contents(NoQueue.ring) = <<>> /\ StatusOf(NoQueue) = "none"
      /\ StatusOf(mq[x]) = "dead"
  BY <1>5, MadeQueues, EmptyRingOK DEF StatusOf
<1>8. /\ Stat' = [Stat EXCEPT ![x] = "none"] /\ Stat[x] = "dead" /\ Box' = Box /\ Box[x] = <<>>
  <2>1. /\ Stat' = [Stat EXCEPT ![x] = StatusOf(NoQueue)]
        /\ Stat[x] = StatusOf(mq[x]) /\ Box[x] = Contents(mq[x].ring)
        /\ Contents(NoQueue.ring) = Contents(mq[x].ring) => Box' = Box
    BY <1>2, <1>3, QueueView
  <2> QED
    BY <1>6, <1>7, <2>1
<1>9. Busy' = Busy
  <2>1. r.pc \in {"callback", "repop"} /\ r.ctx = th[t].ctx
    BY <1>1, DropReturns
  <2> HIDE DEF r
  <2>2. Quiet(t)
    BY <1>1, <1>3, <2>1, SetQuiet DEF BetweenMessages
  <2> QED
    BY <2>2, BusyKept
<1> HIDE DEF x
<1> QED
  BY <1>2, <1>8, <1>9, ClearIs

LEMMA CallStepMail ==
    ASSUME IInv, NEW t \in Thread, CallStep(t)
    PROVE  MailStep
  BY CallMail, PushMail, MarkMail, DropMail, DropEndMail DEF CallStep

LEMMA FieldView ==
    ASSUME NEW r \in ThreadRec, NEW p, NEW a, NEW b, NEW c
    PROVE  /\ [r EXCEPT !.pc = p, !.q = a].ctx = r.ctx
           /\ [r EXCEPT !.pc = p, !.new = a].ctx = r.ctx /\ [r EXCEPT !.pc = p, !.new = a].pc = p
           /\ [r EXCEPT !.pc = p, !.obj = a].pc = p
           /\ [r EXCEPT !.pc = p, !.left = a].pc = p /\ [r EXCEPT !.pc = p, !.left = a].ctx = r.ctx
           /\ [r EXCEPT !.pc = p, !.ctx = a, !.left = b].pc = p
           /\ [Call(r, p, c) EXCEPT !.q = a, !.dq = b].ctx = r.ctx
           /\ [ReleaseCall(r, p, c) EXCEPT !.ctx = a].ctx = a
           /\ [ReleaseCall(r, p, c) EXCEPT !.q = b, !.ctx = a].ctx = a
  BY DEF Call, ReleaseCall, ThreadRec

\* A thread that handles no message before and none after.
LEMMA FreeQuiet ==
    ASSUME NEW t \in Thread, NEW r, Set(t, r),
           th[t].ctx = 0 \/ th[t].pc \in BetweenMessages, r.ctx = 0 \/ r.pc \in BetweenMessages
    PROVE  Quiet(t)
<1>1. Kept(th[t], r)
  BY KeptIs
<1> QED
  BY <1>1 DEF Quiet, Set

\* The worker takes another queue, gives its own back or sleeps.
LEMMA DispatchMail ==
    ASSUME IInv, NEW w \in Worker,
           Loop(w) \/ PopFirst(w) \/ PopNext(w) \/ skynet_handle_grab(w) \/ skynet_mq_length(w)
           \/ PopOther(w) \/ PutBack(w) \/ Sleep(w) \/ Awake(w) \/ SpuriousWakeup(w)
    PROVE  MailStep
<1>1. mq' = mq
  BY DEF Loop, PopFirst, PopNext, skynet_handle_grab, skynet_mq_length, PopOther, PutBack, Sleep, Awake,
         SpuriousWakeup, ServerState
<1>2. th[w].pc \in {"top", "pop", "repop", "grab", "length", "last", "put_back", "sleep", "woken", "wait"}
  BY DEF Loop, PopFirst, PopNext, skynet_handle_grab, skynet_mq_length, PopOther, PutBack, Sleep, Awake,
         SpuriousWakeup, At
<1>3. th[w].pc \in WorkerPC
  BY <1>2 DEF WorkerPC
<1>4. w \in Thread /\ th[w] \in ThreadRec /\ Plain(th[w])
  BY <1>3, PlainIs
<1>5. th[w].ctx = 0 <=> th[w].pc \notin {"length", "last", "put_back"}
  BY <1>2, <1>4 DEF Plain, Dispatching, Launching
<1>6. ASSUME NEW p, Goto(w, p), th[w].ctx = 0 PROVE Quiet(w)
  BY <1>4, <1>6, GotoQuiet
<1>7. CASE Loop(w) \/ Sleep(w) \/ Awake(w) \/ SpuriousWakeup(w)
  <2>1. th[w].ctx = 0
    BY <1>5, <1>7 DEF Loop, Sleep, Awake, SpuriousWakeup, At
  <2>2. \E p : Goto(w, p)
    BY <1>7 DEF Loop, Sleep, Awake, SpuriousWakeup
  <2> QED
    BY <1>1, <1>4, <1>6, <2>1, <2>2, QuietMail
<1>8. CASE PopFirst(w) \/ PopNext(w)
  <2>1. th[w].ctx = 0
    BY <1>5, <1>8 DEF PopFirst, PopNext, At
  <2>2. \/ Goto(w, "sleep")
        \/ \E p : Set(w, [th[w] EXCEPT !.pc = p, !.q = Head(gq)])
    BY <1>8 DEF PopFirst, PopNext
  <2>3. ASSUME NEW p, Set(w, [th[w] EXCEPT !.pc = p, !.q = Head(gq)]) PROVE Quiet(w)
    <3> DEFINE r == [th[w] EXCEPT !.pc = p, !.q = Head(gq)]
    <3>1. r.ctx = 0 /\ Set(w, r)
      BY <1>4, <2>1, <2>3, FieldView
    <3> HIDE DEF r
    <3> QED
      BY <1>4, <2>1, <3>1, FreeQuiet
  <2> QED
    BY <1>1, <1>4, <1>6, <2>1, <2>2, <2>3, QuietMail
<1>9. CASE skynet_handle_grab(w)
  <2> DEFINE x == th[w].q
             y == 1
             z == 0
             r == [th[w] EXCEPT !.pc = "first", !.ctx = x, !.left = y]
             s == [Call(th[w], "mq_release", "repop") EXCEPT !.q = z, !.dq = x]
  <2>1. th[w].ctx = 0 /\ (Set(w, r) \/ Set(w, s))
    BY <1>5, <1>9 DEF skynet_handle_grab, At
  <2> HIDE DEF x, y, z
  <2>2. r.pc = "first" /\ s.ctx = 0
    BY <1>4, <2>1, FieldView
  <2> HIDE DEF r, s
  <2>3. Quiet(w)
    BY <1>4, <2>1, <2>2, FreeQuiet DEF BetweenMessages
  <2> QED
    BY <1>1, <1>4, <2>3, QuietMail
<1>10. CASE skynet_mq_length(w)
  <2> DEFINE y == RingLength(mq[th[w].q].ring) \div (2 ^ Weight[w])
             r == [th[w] EXCEPT !.pc = "callback", !.left = y]
  <2>1. th[w].pc = "length" /\ Set(w, r)
    BY <1>10 DEF skynet_mq_length, At
  <2> HIDE DEF y
  <2>2. r.pc = "callback" /\ r.ctx = th[w].ctx
    BY <1>4, FieldView
  <2> HIDE DEF r
  <2>3. Quiet(w)
    BY <1>4, <2>1, <2>2, SetQuiet DEF BetweenMessages
  <2> QED
    BY <1>1, <1>4, <2>3, QuietMail
<1>11. CASE PopOther(w) \/ PutBack(w)
  <2> DEFINE z == 0
             r == [ReleaseCall(th[w], th[w].ctx, "top") EXCEPT !.ctx = z]
             s == [th[w] EXCEPT !.pc = "put_back", !.obj = Head(gq)]
             k == [ReleaseCall(th[w], th[w].ctx, "top") EXCEPT !.q = th[w].obj, !.ctx = z]
  <2>1. th[w].pc \in {"last", "put_back"} /\ (Set(w, r) \/ Set(w, s) \/ Set(w, k)) /\ z = 0
    BY <1>11 DEF PopOther, PutBack, At
  <2> HIDE DEF z
  <2>2. r.ctx = 0 /\ s.pc = "put_back" /\ k.ctx = 0
    BY <1>4, <2>1, FieldView
  <2> HIDE DEF r, s, k
  <2>3. Quiet(w)
    BY <1>4, <2>1, <2>2, FreeQuiet DEF BetweenMessages
  <2> QED
    BY <1>1, <1>4, <2>3, QuietMail
<1> QED
  BY <1>7, <1>8, <1>9, <1>10, <1>11

LEMMA PopEmptyMail ==
    ASSUME IInv, NEW w \in Worker, PopEmpty(w)
    PROVE  MailStep
<1> DEFINE x == th[w].q
           q == [mq[x] EXCEPT !.in_global = FALSE]
           r == EmptiedLocals(th[w])
<1>1. th[w].pc \in {"first", "next"} /\ th[w].pc \in WorkerPC
  BY DEF PopEmpty, WorkerPC
<1>2. w \in Thread /\ th[w] \in ThreadRec /\ Plain(th[w])
  BY <1>1, PlainIs
<1>3. x \in Handle /\ th[w].stk = <<>>
  BY <1>1, <1>2 DEF Plain, ThreadRec, Dispatching
<1>4. Set(w, r) /\ mq' = [mq EXCEPT ![x] = q]
  BY <1>3 DEF PopEmpty, EmptiedLocals, IInv, Typed
<1>5. q.ring = mq[x].ring /\ q.release = mq[x].release /\ q.freed = mq[x].freed
  <2>1. QueueOK(mq[x])
    BY <1>3 DEF IInv, Typed
  <2> QED
    BY <2>1 DEF QueueOK
<1> HIDE DEF q
<1>6. Box' = Box /\ Stat' = Stat
  <2>1. /\ Contents(q.ring) = Contents(mq[x].ring) => Box' = Box
        /\ StatusOf(q) = StatusOf(mq[x]) => Stat' = Stat
    BY <1>3, <1>4, QueueView
  <2> QED
    BY <1>5, <2>1 DEF StatusOf
<1>7. Busy' = Busy
  <2>1. r.ctx = 0
    BY <1>2, <1>3, EmptiedHas DEF Has
  <2> HIDE DEF r
  <2>2. Quiet(w)
    BY <1>1, <1>2, <1>4, <2>1, FreeQuiet DEF BetweenMessages
  <2> QED
    BY <1>2, <2>2, BusyKept
<1> QED
  BY <1>6, <1>7, StutterIs

\* The worker that dispatches a service is the only one: it has the service's queue.
LEMMA OneDispatcher ==
    ASSUME IInv, NEW w \in Worker, NEW v \in Worker, th[w].ctx \in Handle, th[v].ctx = th[w].ctx
    PROVE  v = w
<1>1. w \in Thread /\ v \in Thread /\ Locals(th[w]) /\ Locals(th[v])
  BY DEF IInv, Control, Thread
<1>2. th[w].q = th[w].ctx /\ th[v].q = th[w].ctx
  BY <1>1, NoSource DEF Locals
<1>3. PlacesOf(th[w], th[w].ctx) >= 1 /\ PlacesOf(th[v], th[w].ctx) >= 1
  BY <1>2 DEF PlacesOf, One
<1> QED
  BY <1>1, <1>3, HeldQueue

LEMMA MessageMail ==
    ASSUME IInv, NEW w \in Worker, skynet_mq_pop(w)
    PROVE  MailStep
<1> DEFINE x == th[w].q
           p == IF At(w, "first") /\ Weight[w] >= 0 THEN "length" ELSE "callback"
           r == [th[w] EXCEPT !.pc = p]
<1>1. th[w].pc \in {"first", "next"} /\ th[w].pc \in WorkerPC
  BY DEF skynet_mq_pop, WorkerPC
<1>2. w \in Thread /\ th[w] \in ThreadRec /\ Plain(th[w]) /\ UsesOf(th[w], known, ref, mq)
  BY <1>1, PlainIs
<1>3. x \in Handle /\ x = th[w].ctx /\ x \in known
  BY <1>1, <1>2 DEF Plain, ThreadRec, Dispatching, UsesOf
<1>4. mq' = [mq EXCEPT ![x].ring = RingPop(@)] /\ RingLength(mq[x].ring) > 0 /\ Goto(w, p)
  BY DEF skynet_mq_pop
<1>5. p \in {"length", "callback"}
  OBVIOUS
<1> HIDE DEF p
<1>6. th' = [th EXCEPT ![w] = r]
  BY <1>2, <1>4, GotoIs DEF IInv
<1>7. r.pc = p /\ r.ctx = x
  BY <1>2, <1>3, CallView
<1> HIDE DEF r
<1>8. \A v \in Worker : th'[v] = IF v = w THEN r ELSE th[v]
  BY <1>6 DEF IInv, Typed, Thread
<1>9. ref[x] \in Nat /\ ref[x] >= 1
  <2>1. RefsOf(th[w], x) >= 1
    BY <1>3 DEF RefsOf, One
  <2> QED
    BY <1>2, <1>3, <2>1, HeldRef
<1>10. StatusOf(mq[x]) = "up"
  BY <1>3, <1>9 DEF IInv, Life, StatusOf
<1>11. /\ Box' = [Box EXCEPT ![x] = Tail(@)] /\ Box[x] # <<>> /\ Stat' = Stat /\ Stat[x] = "up"
  BY <1>3, <1>4, <1>10, PopView
<1>12. \A v \in Worker : th[v].ctx = x => v = w
  BY <1>3, OneDispatcher
<1>13. x \notin Busy
  BY <1>1, <1>12 DEF Busy, Handling, BetweenMessages
<1>14. Busy' = Busy \cup {x}
  <2>1. Busy' = {h \in Handle : \E v \in Worker : Handling(th'[v], h)}
    BY DEF Busy, Handling
  <2>2. Handling(r, x) /\ \A h \in Handle : (Handling(r, h) => h = x) /\ ~Handling(th[w], h)
    BY <1>1, <1>5, <1>7 DEF Handling, BetweenMessages
  <2> HIDE DEF x
  <2> QED
    BY <1>3, <1>8, <2>1, <2>2 DEF Busy
<1> HIDE DEF x
<1> QED
  BY <1>3, <1>11, <1>13, <1>14, TakeIs

LEMMA FinishMail ==
    ASSUME IInv, NEW w \in Worker, CallbackReturns(w)
    PROVE  MailStep
<1> DEFINE x == th[w].ctx
           y == th[w].left - 1
           z == 0
           a == [th[w] EXCEPT !.pc = "next", !.left = y]
           b == [th[w] EXCEPT !.pc = "last", !.left = z]
           r == IF th[w].left > 1 THEN a ELSE b
<1>1. th[w].pc = "callback" /\ th[w].pc \in WorkerPC
  BY DEF CallbackReturns, At, WorkerPC
<1>2. w \in Thread /\ th[w] \in ThreadRec /\ Plain(th[w])
  BY <1>1, PlainIs
<1>3. th' = [th EXCEPT ![w] = r] /\ mq' = mq
  BY DEF CallbackReturns, Set, ServerState
<1> HIDE DEF y, z
<1>4. a.pc = "next" /\ b.pc = "last"
  BY <1>2, FieldView
<1> HIDE DEF a, b
<1>5. r.pc \in BetweenMessages
  BY <1>4 DEF BetweenMessages
<1> HIDE DEF r
<1>6. x \in Handle
  BY <1>1, <1>2 DEF Plain, ThreadRec, Dispatching
<1>7. \A v \in Worker : th'[v] = IF v = w THEN r ELSE th[v]
  BY <1>3 DEF IInv, Typed, Thread
<1>8. \A v \in Worker : th[v].ctx = x => v = w
  BY <1>6, OneDispatcher
<1>9. x \in Busy
  BY <1>1, <1>6 DEF Busy, Handling, BetweenMessages
<1>10. Busy' = Busy \ {x}
  <2>1. Busy' = {h \in Handle : \E v \in Worker : Handling(th'[v], h)}
    BY DEF Busy, Handling
  <2>2. /\ \A h \in Handle : ~Handling(r, h) /\ (Handling(th[w], h) => h = x)
        /\ \A v \in Worker : Handling(th[v], x) => v = w
    BY <1>5, <1>8 DEF Handling
  <2> HIDE DEF x
  <2> QED
    BY <1>7, <2>1, <2>2 DEF Busy
<1>11. Box' = Box /\ Stat' = Stat
  BY <1>3 DEF Box, Stat, StatusOf, Contents, RingLength
<1> HIDE DEF x
<1> QED
  BY <1>6, <1>9, <1>10, <1>11, FinishIs

\* What a callback does leaves the queues alone, and the message is handled all along.
LEMMA ServiceMail ==
    ASSUME IInv, NEW w \in Worker,
           \/ \E h \in Handle : skynet_send(w, h) \/ skynet_handle_retire(w, h)
           \/ Register(w) \/ InitOk(w) \/ Launched(w) \/ InitFails(w) \/ FailRetire(w)
    PROVE  MailStep
<1>1. mq' = mq
  BY DEF skynet_send, skynet_handle_retire, Register, InitOk, Launched, InitFails, FailRetire, ServerState
<1>2. th[w].pc \in {"callback", "init", "launched", "failed"} /\ th[w].pc \notin BetweenMessages
  BY DEF skynet_send, skynet_handle_retire, Register, InitOk, Launched, InitFails, FailRetire, At, Calling,
         BetweenMessages
<1>3. w \in Thread /\ th[w] \in ThreadRec
  BY DEF Thread, IInv, Typed
<1>4. ASSUME NEW r, Set(w, r), r.ctx = th[w].ctx, r.pc \notin BetweenMessages PROVE MailStep
  BY <1>1, <1>2, <1>3, <1>4, SetQuiet, QuietMail
<1>5. ASSUME NEW c, NEW m, NEW back, Set(w, SendCall(th[w], c, m, back)) PROVE MailStep
  <2> DEFINE r == SendCall(th[w], c, m, back)
  <2>1. Set(w, r) /\ r.ctx = th[w].ctx /\ r.pc = "grab_dest"
    BY <1>3, <1>5, CallView
  <2> HIDE DEF r
  <2> QED
    BY <1>4, <2>1 DEF BetweenMessages
<1>6. ASSUME NEW c, NEW back, Set(w, ReleaseCall(th[w], c, back)) PROVE MailStep
  <2> DEFINE r == ReleaseCall(th[w], c, back)
  <2>1. Set(w, r) /\ r.ctx = th[w].ctx /\ r.pc = "release"
    BY <1>3, <1>6, CallView
  <2> HIDE DEF r
  <2> QED
    BY <1>4, <2>1 DEF BetweenMessages
<1>7. ASSUME NEW p, NEW h, Set(w, [th[w] EXCEPT !.pc = p, !.new = h]), p \in {"registered", "callback"}
      PROVE  MailStep
  <2> DEFINE r == [th[w] EXCEPT !.pc = p, !.new = h]
  <2>1. Set(w, r) /\ r.ctx = th[w].ctx /\ r.pc = p
    BY <1>3, <1>7, FieldView
  <2> HIDE DEF r
  <2> QED
    BY <1>4, <1>7, <2>1 DEF BetweenMessages
<1>8. ASSUME NEW h \in Handle, skynet_send(w, h) PROVE MailStep
  BY <1>5, <1>8 DEF skynet_send
<1>9. ASSUME NEW h \in Handle, skynet_handle_retire(w, h) PROVE MailStep
  BY <1>6, <1>9 DEF skynet_handle_retire
<1>10. CASE Register(w)
  <2>1. CASE th' = th
    <3>1. th' = [th EXCEPT ![w] = th[w]]
      BY <2>1 DEF IInv, Typed
    <3>2. Set(w, th[w])
      BY <3>1 DEF Set
    <3> QED
      BY <1>2, <1>4, <3>2
  <2>2. ASSUME NEW h, Set(w, [th[w] EXCEPT !.pc = "registered", !.new = h]) PROVE MailStep
    BY <1>7, <2>2
  <2> QED
    BY <1>10, <2>1, <2>2 DEF Register
<1>11. CASE InitOk(w) \/ InitFails(w)
  BY <1>6, <1>11 DEF InitOk, InitFails
<1>12. CASE Launched(w)
  <2>1. \E z : Set(w, [th[w] EXCEPT !.pc = "callback", !.new = z])
    BY <1>12 DEF Launched
  <2> QED
    BY <1>7, <2>1
<1>13. CASE FailRetire(w)
  <2> DEFINE r == FailedLocals(th[w])
             s == ReleaseCall(r, th[w].new, "mq_release")
  <2>1. Set(w, r) \/ Set(w, s)
    BY <1>13 DEF FailRetire, FailedLocals
  <2>2. r \in ThreadRec /\ r.pc = "mq_release" /\ r.ctx = th[w].ctx
    BY <1>3, FailedHas DEF Has
  <2> HIDE DEF r
  <2>3. s.pc = "release" /\ s.ctx = th[w].ctx
    BY <2>2, CallView
  <2> HIDE DEF s
  <2> QED
    BY <1>4, <2>1, <2>2, <2>3 DEF BetweenMessages
<1> QED
  BY <1>8, <1>9, <1>10, <1>11, <1>12, <1>13

LEMMA CreateMail ==
    ASSUME IInv, NEW w \in Worker, Create(w)
    PROVE  MailStep
<1> DEFINE x == th[w].new
<1>1. th[w].pc = "registered" /\ th[w].pc \in WorkerPC
  BY DEF Create, At, WorkerPC
<1>2. w \in Thread /\ th[w] \in ThreadRec /\ Plain(th[w]) /\ UsesOf(th[w], known, ref, mq)
  BY <1>1, PlainIs
<1>3. x \in Handle /\ x \notin known
  BY <1>1, <1>2 DEF Plain, Launching, UsesOf, ThreadRec
<1>4. mq[x] = NoQueue
  BY <1>3 DEF IInv, Life, Typed, QueueOK
<1>5. mq' = [mq EXCEPT ![x] = NewQueue] /\ Goto(w, "init")
  BY DEF Create
<1>6. /\ StatusOf(NewQueue) = "up" /\ StatusOf(mq[x]) = "none"
      /\ Contents(NewQueue.ring) = Contents(mq[x].ring)
  BY <1>4, MadeQueues DEF StatusOf
<1>7. Stat' = [Stat EXCEPT ![x] = "up"] /\ Stat[x] = "none" /\ Box' = Box
  <2>1. /\ Stat' = [Stat EXCEPT ![x] = StatusOf(NewQueue)] /\ Stat[x] = StatusOf(mq[x])
        /\ Contents(NewQueue.ring) = Contents(mq[x].ring) => Box' = Box
    BY <1>3, <1>5, QueueView
  <2> QED
    BY <1>6, <2>1
<1>8. Busy' = Busy
  <2>1. Quiet(w)
    BY <1>1, <1>2, <1>5, GotoQuiet DEF BetweenMessages
  <2> QED
    BY <1>2, <2>1, BusyKept
<1> HIDE DEF x
<1> QED
  BY <1>3, <1>7, <1>8, LaunchIs

\* The timer thread handles no message, and the workers it wakes handle none either.
LEMMA TimerMail ==
    ASSUME IInv, TimerLoop \/ TimerExit \/ \E h \in Handle : TimeoutPush(h)
    PROVE  MailStep
<1>1. mq' = mq
  BY DEF TimerLoop, TimerExit, TimeoutPush, ServerState
<1>2. Timer \in Thread /\ Timer \notin Worker
  BY ServerAssumption DEF Thread
<1>3. ASSUME NEW w \in Worker, At(w, "wait") PROVE w \in Thread /\ th[w] \in ThreadRec /\ th[w].ctx = 0
  <2>1. th[w].pc = "wait" /\ th[w].pc \in WorkerPC
    BY <1>3 DEF At, WorkerPC
  <2>2. w \in Thread /\ th[w] \in ThreadRec /\ Plain(th[w])
    BY <2>1, PlainIs
  <2> QED
    BY <2>1, <2>2 DEF Plain, Dispatching, Launching
<1>4. ASSUME NEW r, th' = [th EXCEPT ![Timer] = r] PROVE MailStep
  BY <1>1, <1>2, <1>4, QuietMail DEF Quiet
<1>5. CASE TimerLoop
  <2>1. CASE Goto(Timer, "exit")
    <3>1. th' = [th EXCEPT ![Timer] = [th[Timer] EXCEPT !.pc = "exit"]]
      BY <1>2, <2>1, GotoIs DEF IInv
    <3> QED
      BY <1>4, <3>1
  <2>2. ASSUME NEW w \in Worker, At(w, "wait"), Goto(w, "woken") PROVE MailStep
    <3>1. Quiet(w)
      BY <1>3, <2>2, GotoQuiet
    <3> QED
      BY <1>1, <1>3, <2>2, <3>1, QuietMail
  <2> QED
    BY <1>5, <2>1, <2>2 DEF TimerLoop
<1>6. ASSUME NEW h \in Handle, TimeoutPush(h) PROVE MailStep
  BY <1>4, <1>6 DEF TimeoutPush, Set
<1>7. CASE TimerExit
  <2>1. \A w \in Worker : th'[w] = IF At(w, "wait") THEN [th[w] EXCEPT !.pc = "woken"] ELSE th[w]
    BY <1>2, <1>7 DEF TimerExit, Thread
  <2>2. \A w \in Worker : \A h \in Handle : Handling(th'[w], h) <=> Handling(th[w], h)
    <3> SUFFICES ASSUME NEW w \in Worker, NEW h \in Handle, At(w, "wait")
                 PROVE  Handling(th'[w], h) <=> Handling(th[w], h)
      BY <2>1
    <3> DEFINE r == [th[w] EXCEPT !.pc = "woken"]
    <3>1. th'[w] = r
      BY <2>1
    <3>2. r.ctx = 0 /\ th[w].ctx = 0
      BY <1>3, CallView
    <3> HIDE DEF r
    <3> QED
      BY <3>1, <3>2, NoSource DEF Handling
  <2>3. Busy' = {h \in Handle : \E w \in Worker : Handling(th'[w], h)}
    BY DEF Busy, Handling
  <2>4. Busy' = Busy
    BY <2>2, <2>3 DEF Busy
  <2>5. Box' = Box /\ Stat' = Stat
    BY <1>1 DEF Box, Stat, StatusOf, Contents, RingLength
  <2> QED
    BY <2>4, <2>5, StutterIs
<1> QED
  BY <1>5, <1>6, <1>7

LEMMA NextMail ==
    ASSUME IInv, [Next]_vars
    PROVE  MailStep
<1>1. CASE TimerStep
  BY <1>1, CallStepMail, TimerMail DEF TimerStep, Thread
<1>2. ASSUME NEW w \in Worker, WorkerStep(w) PROVE MailStep
  <2>1. CASE CallStep(w)
    BY <2>1, CallStepMail DEF Thread
  <2>2. CASE DispatchStep(w)
    BY <2>2, DispatchMail, PopEmptyMail, MessageMail, FinishMail DEF DispatchStep
  <2>3. CASE ServiceStep(w)
    BY <2>3, ServiceMail, CreateMail DEF ServiceStep
  <2> QED
    BY <1>2, <2>1, <2>2, <2>3 DEF WorkerStep
<1>3. ASSUME NEW w \in Worker, SpuriousWakeup(w) PROVE MailStep
  BY <1>3, DispatchMail
<1>4. CASE UNCHANGED vars
  <2>1. mq' = mq /\ th' = th
    BY <1>4 DEF vars
  <2> QED
    BY <2>1, StutterIs DEF Box, Stat, StatusOf, Busy, Handling, Contents, RingLength
<1>5. CASE Ended
  BY <1>4, <1>5 DEF Ended
<1> QED
  BY <1>1, <1>2, <1>3, <1>4, <1>5 DEF Next

\* The worker threads with their two levels of queues, the rings that are doubled and the
\* handles that are retired implement the mailboxes of SkynetMailbox: every message sent
\* to a service is handled once and in order, by one worker at a time, and a service is
\* deleted only between two messages.
THEOREM ThreadsImplementMailbox == Spec => ImplementsMailbox
<1>1. Init => Mailbox!Init
  BY MailInit
<1>2. IInv /\ [Next]_vars => [Mailbox!Next]_(Mailbox!vars)
  BY NextMail DEF MailStep
<1> QED
  BY <1>1, <1>2, Invariant, PTL DEF Spec, ImplementsMailbox, Mailbox!Spec
=============================================================================
