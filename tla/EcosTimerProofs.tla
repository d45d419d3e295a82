-------------------------- MODULE EcosTimerProofs ---------------------------
(***************************************************************************)
(* EcosTimer proved for any number of handles, addresses, intervals and    *)
(* counts and any length of run: the list stays the live timers in the     *)
(* order they were added, handles stay distinct, the pass never holds a    *)
(* dangling pointer, and the list implements the map of TimerService.      *)
(***************************************************************************)
EXTENDS EcosTimer, FiniteSetTheorems, SequenceTheorems, NaturalsInduction,
        WellFoundedInduction, TLAPS

\* The numbers of live nodes are distinct and at most added: what makes "the
\* order they were added" a strict order, and a new node the last in it.
OrdFresh ==
    /\ \A a \in live : 0 < ord[a] /\ ord[a] <= added
    /\ \A a, b \in live : ord[a] = ord[b] => a = b

IInv == TypeOK /\ HandlesDistinct /\ OrdFresh /\ ListInOrder /\ PassOnList

-----------------------------------------------------------------------------
\* What the operations write to a timer is again the fields of a timer, for the
\* clock and parameters they are called with.
LEMMA BodyTypes ==
    ASSUME NEW b \in Body, NEW t \in Nat,
           NEW f \in Func \cup {NULL}, NEW i \in Interval, NEW c \in Count
    PROVE  /\ Armed(f, i, c, t) \in Body
           /\ Rearmed(b, f, i, c, t) \in Body
           /\ Suspended(b) \in Body
           /\ Resumed(b, t) \in Body
<1> USE TimerConstants DEF Body, COUNT_FOREVER
<1>1. Armed(f, i, c, t) \in Body
  BY DEF Armed
<1>2. Rearmed(b, f, i, c, t) \in Body
  BY DEF Rearmed
<1>3. Suspended(b) \in Body /\ Resumed(b, t) \in Body
  BY DEF Suspended, Resumed
<1> QED
  BY <1>1, <1>2, <1>3

\* A timer a pass runs has a count left, so decrementing it stays in range.
LEMMA RanType ==
    ASSUME NEW b \in Body, NEW t \in Nat, Due(b, t)
    PROVE  Ran(b, t) \in Body
<1>1. b.count \in Nat \cup {-1} /\ b.count # 0
  BY DEF Due, Body, COUNT_FOREVER
<1>2. (IF b.count = COUNT_FOREVER THEN b.count ELSE b.count - 1) \in Nat \cup {-1}
  BY <1>1 DEF COUNT_FOREVER
<1> QED
  BY <1>2 DEF Ran, Body, COUNT_FOREVER

\* The initial state of ecos_timer_function_init satisfies the invariant.
LEMMA InitIInv == Init => IInv
<1> SUFFICES ASSUME Init PROVE IInv
  OBVIOUS
<1> USE TimerConstants, AddrAssumption DEF Init
<1>1. Armed(NULL, 0, 0, 0) \in Body
  BY DEF Armed, Body, COUNT_FOREVER
<1>2. HANDLE_BEGIN \in Handle
  BY DEF Handle
<1>3. TypeOK
  BY <1>1, <1>2 DEF TypeOK
<1> QED
  BY <1>3 DEF IInv, HandlesDistinct, OrdFresh, ListInOrder, PassOnList

\* ecos_timer_function_add keeps the invariant.
LEMMA AddIInv ==
    ASSUME IInv,
           NEW f \in Func \cup {NULL}, NEW i \in Interval, NEW c \in Count,
           Add(f, i, c)
    PROVE  IInv'
<1> USE AddrAssumption
<1>1. PICK a \in Addr \ live, h \in Handle :
        /\ IsLowestFree(h, UsedHandles)
        /\ live' = live \cup {a}
        /\ hnd' = [hnd EXCEPT ![a] = h]
        /\ body' = [body EXCEPT ![a] = Armed(f, i, c, uptime)]
        /\ ord' = [ord EXCEPT ![a] = added + 1]
        /\ LinkAtTail(a)
  BY DEF Add
<1>2. added' = added + 1 /\ UNCHANGED <<uptime, pass>>
  BY DEF Add
<1>3. Armed(f, i, c, uptime) \in Body
  <2>1. PICK b \in Body : TRUE
    BY <1>1 DEF IInv, TypeOK
  <2> QED
    BY <2>1, BodyTypes DEF IInv, TypeOK
<1>4. TypeOK'
  BY <1>1, <1>2, <1>3 DEF IInv, TypeOK, LinkAtTail, pass
<1>5. HandlesDistinct'
  BY <1>1 DEF IInv, TypeOK, HandlesDistinct, IsLowestFree, UsedHandles
<1>6. OrdFresh'
  BY <1>1, <1>2 DEF IInv, TypeOK, OrdFresh
<1>7. ListInOrder'
  <2>1. \A b \in live : b # a /\ ord'[b] = ord[b] /\ ord[b] < ord'[a]
    BY <1>1 DEF IInv, TypeOK, OrdFresh
  <2>2. CASE tail = NULL
    BY <1>1, <2>1, <2>2 DEF IInv, TypeOK, ListInOrder, LinkAtTail
  <2>3. CASE tail # NULL
    <3>1. /\ tail \in live /\ tail' = a /\ head' = head
          /\ prev' = [prev EXCEPT ![a] = tail]
          /\ next' = [next EXCEPT ![a] = NULL, ![tail] = a]
      BY <1>1, <2>3 DEF IInv, ListInOrder, LinkAtTail
    <3>2. head' \in live' /\ \A b \in live' : ord'[head'] <= ord'[b]
      BY <1>1, <2>1, <3>1 DEF IInv, TypeOK, ListInOrder
    <3>3. tail' \in live' /\ \A b \in live' : ord'[b] <= ord'[tail']
      BY <1>1, <2>1, <3>1 DEF IInv, TypeOK, ListInOrder
    <3>4. ASSUME NEW b \in live' PROVE
            /\ next'[b] = NULL <=> b = tail'
            /\ prev'[b] = NULL <=> b = head'
            /\ next'[b] # NULL =>
                /\ next'[b] \in live'
                /\ prev'[next'[b]] = b
                /\ ord'[b] < ord'[next'[b]]
                /\ \A d \in live' : ord'[d] <= ord'[b] \/ ord'[next'[b]] <= ord'[d]
            /\ prev'[b] # NULL => prev'[b] \in live' /\ next'[prev'[b]] = b
      <4>1. CASE b = a
        BY <1>1, <2>1, <3>1, <4>1 DEF IInv, TypeOK, ListInOrder
      <4>2. CASE b = tail
        BY <1>1, <2>1, <3>1, <4>2 DEF IInv, TypeOK, ListInOrder
      <4>3. CASE b \in live /\ b # tail
        BY <1>1, <2>1, <3>1, <4>3 DEF IInv, TypeOK, ListInOrder
      <4> QED
        BY <1>1, <4>1, <4>2, <4>3
    <3> QED
      BY <1>1, <3>1, <3>2, <3>3, <3>4 DEF ListInOrder, IInv, TypeOK
  <2> QED
    BY <2>2, <2>3
<1>8. PassOnList'
  BY <1>1, <1>2 DEF IInv, PassOnList, pass
<1> QED
  BY <1>4, <1>5, <1>6, <1>7, <1>8 DEF IInv

\* ecos_timer_function_del keeps the list in order, in each of its four cases.
LEMMA UnlinkKeepsOrder ==
    ASSUME IInv, NEW a \in live, Unlink(a), live' = live \ {a}, ord' = ord
    PROVE  ListInOrder'
<1> USE AddrAssumption
<1>1. CASE head = tail
  <2>1. live = {a}
    BY <1>1 DEF IInv, TypeOK, ListInOrder, OrdFresh
  <2>2. head' = NULL /\ tail' = NULL
    BY <1>1 DEF Unlink, UnlinkOnly
  <2> QED
    BY <2>1, <2>2 DEF ListInOrder
<1>2. CASE head # tail /\ a = head
  <2> DEFINE n == next[a]
  <2>1. n \in live /\ n # a /\ prev[n] = a /\ a # tail
    BY <1>2 DEF IInv, TypeOK, ListInOrder
  <2>2. head' = n /\ prev' = [prev EXCEPT ![n] = NULL] /\ next' = next /\ tail' = tail
    BY <1>2 DEF Unlink, UnlinkHead
  <2>3. \A b \in live' : ord[n] <= ord[b]
    BY <1>2, <2>1 DEF IInv, TypeOK, ListInOrder, OrdFresh
  <2> QED
    BY <1>2, <2>1, <2>2, <2>3 DEF IInv, TypeOK, ListInOrder
<1>3. CASE head # tail /\ a # head /\ a = tail
  <2> DEFINE p == prev[a]
  <2>1. p \in live /\ p # a /\ next[p] = a
    BY <1>3 DEF IInv, TypeOK, ListInOrder
  <2>2. tail' = p /\ next' = [next EXCEPT ![p] = NULL] /\ prev' = prev /\ head' = head
    BY <1>3 DEF Unlink, UnlinkTail
  <2>3. \A b \in live' : ord[b] <= ord[p]
    BY <1>3, <2>1 DEF IInv, TypeOK, ListInOrder, OrdFresh
  <2> QED
    BY <1>3, <2>1, <2>2, <2>3 DEF IInv, TypeOK, ListInOrder
<1>4. CASE head # tail /\ a # head /\ a # tail
  <2> DEFINE n == next[a]
             p == prev[a]
  <2>1. /\ n \in live /\ n # a /\ prev[n] = a
        /\ p \in live /\ p # a /\ next[p] = a
        /\ ord[p] < ord[a] /\ ord[a] < ord[n]
    BY <1>4 DEF IInv, TypeOK, ListInOrder
  <2>2. /\ next' = [next EXCEPT ![p] = n]
        /\ prev' = [prev EXCEPT ![n] = p]
        /\ head' = head /\ tail' = tail
    BY <1>4 DEF Unlink, UnlinkMiddle
  <2>3. ASSUME NEW b \in live' PROVE ord[b] <= ord[p] \/ ord[n] <= ord[b]
    <3>1. /\ b \in live /\ b # a
          /\ ord[b] \in Nat /\ ord[a] \in Nat /\ ord[p] \in Nat /\ ord[n] \in Nat
      BY <2>1 DEF IInv, TypeOK
    <3>2. ord[b] # ord[a]
      BY <3>1 DEF IInv, OrdFresh
    <3>3. next[p] # NULL /\ next[a] # NULL
      BY <2>1 DEF IInv, TypeOK
    <3>4. ord[b] <= ord[p] \/ ord[a] <= ord[b]
      BY <2>1, <3>1, <3>3 DEF IInv, ListInOrder
    <3>5. ord[b] <= ord[a] \/ ord[n] <= ord[b]
      BY <2>1, <3>1, <3>3 DEF IInv, ListInOrder
    <3> QED
      BY <3>1, <3>2, <3>4, <3>5
  <2>4. ASSUME NEW b \in live' PROVE
          /\ next'[b] = NULL <=> b = tail'
          /\ prev'[b] = NULL <=> b = head'
          /\ next'[b] # NULL =>
              /\ next'[b] \in live'
              /\ prev'[next'[b]] = b
              /\ ord[b] < ord[next'[b]]
              /\ \A d \in live' : ord[d] <= ord[b] \/ ord[next'[b]] <= ord[d]
          /\ prev'[b] # NULL => prev'[b] \in live' /\ next'[prev'[b]] = b
    <3>1. CASE b = p
      BY <2>1, <2>2, <2>3, <3>1 DEF IInv, TypeOK, ListInOrder
    <3>2. CASE b = n
      BY <2>1, <2>2, <3>2 DEF IInv, TypeOK, ListInOrder
    <3>3. CASE b # p /\ b # n
      BY <2>1, <2>2, <3>3 DEF IInv, TypeOK, ListInOrder
    <3> QED
      BY <3>1, <3>2, <3>3
  <2> QED
    BY <1>4, <2>1, <2>2, <2>4 DEF IInv, TypeOK, ListInOrder
<1> QED
  BY <1>1, <1>2, <1>3, <1>4

\* Unlinking writes only node addresses and NULL to links of live nodes.
LEMMA UnlinkTypes ==
    ASSUME IInv, NEW a \in live, Unlink(a)
    PROVE  /\ prev' \in [Addr -> Addr \cup {NULL}]
           /\ next' \in [Addr -> Addr \cup {NULL}]
           /\ head' \in Addr \cup {NULL}
           /\ tail' \in Addr \cup {NULL}
  BY AddrAssumption
     DEF IInv, TypeOK, Unlink, UnlinkOnly, UnlinkHead, UnlinkTail, UnlinkMiddle

\* ecos_timer_function_del keeps the invariant: the callers' assumption of
\* CallerKeeps is what keeps the pointer of the pass on the list.
LEMMA DelIInv ==
    ASSUME IInv, NEW h \in Handle, Del(h)
    PROVE  IInv'
<1>1. PICK a \in Find(h) :
        /\ ~CallerKeeps(a)
        /\ Unlink(a)
        /\ live' = live \ {a}
  BY DEF Del
<1>2. a \in live
  BY <1>1 DEF Find
<1>3. UNCHANGED <<hnd, body, ord, added, uptime, pass>>
  BY DEF Del
<1>4. ListInOrder'
  BY <1>1, <1>2, <1>3, UnlinkKeepsOrder
<1>5. TypeOK'
  BY <1>1, <1>2, <1>3, UnlinkTypes DEF IInv, TypeOK, pass
<1>6. HandlesDistinct' /\ OrdFresh'
  BY <1>1, <1>3 DEF IInv, HandlesDistinct, OrdFresh
<1>7. PassOnList'
  BY <1>1, <1>3 DEF IInv, PassOnList, pass, CallerKeeps, Del, ApiMayRun
<1> QED
  BY <1>4, <1>5, <1>6, <1>7 DEF IInv

\* A step that changes nothing but the fields of timers keeps the invariant.
LEMMA BodyStepIInv ==
    ASSUME IInv, body' \in [Addr -> Body],
           UNCHANGED <<live, hnd, ord, added, links, uptime, pass>>
    PROVE  IInv'
  BY DEF IInv, TypeOK, HandlesDistinct, OrdFresh, ListInOrder, PassOnList, links, pass

\* Every step of EcosTimer keeps the invariant.
LEMMA NextIInv == IInv /\ [Next]_vars => IInv'
<1> SUFFICES ASSUME IInv, [Next]_vars PROVE IInv'
  OBVIOUS
<1>1. ASSUME Tick PROVE IInv'
  BY <1>1 DEF Tick, IInv, TypeOK, HandlesDistinct, OrdFresh, ListInOrder, PassOnList,
              nodes, links, pass
<1>2. ASSUME NEW f \in Func \cup {NULL}, NEW i \in Interval, NEW c \in Count,
             Add(f, i, c)
      PROVE  IInv'
  BY <1>2, AddIInv
<1>3. ASSUME NEW f \in Func \cup {NULL}, NEW i \in Interval, NEW c \in Count,
             NEW h \in Handle, Set(h, f, i, c)
      PROVE  IInv'
  <2>1. PICK a \in Find(h) : body' = [body EXCEPT ![a] = Rearmed(@, f, i, c, uptime)]
    BY <1>3 DEF Set
  <2>2. a \in Addr /\ uptime \in Nat /\ body \in [Addr -> Body]
    BY <2>1 DEF Find, IInv, TypeOK
  <2>3. Rearmed(body[a], f, i, c, uptime) \in Body
    BY <2>2, BodyTypes
  <2>4. body' \in [Addr -> Body]
    BY <2>1, <2>2, <2>3
  <2> QED
    BY <1>3, <2>4, BodyStepIInv DEF Set
<1>4. ASSUME NEW h \in Handle, Del(h) PROVE IInv'
  BY <1>4, DelIInv
<1>5. ASSUME NEW h \in Handle, Suspend(h) PROVE IInv'
  <2>1. PICK a \in Find(h) : body' = [body EXCEPT ![a] = Suspended(@)]
    BY <1>5 DEF Suspend
  <2>2. a \in Addr /\ body \in [Addr -> Body]
    BY <2>1 DEF Find, IInv, TypeOK
  <2>3. Suspended(body[a]) \in Body
    BY <2>2 DEF Suspended, Body
  <2>4. body' \in [Addr -> Body]
    BY <2>1, <2>2, <2>3
  <2> QED
    BY <1>5, <2>4, BodyStepIInv DEF Suspend
<1>6. ASSUME NEW h \in Handle, Resume(h) PROVE IInv'
  <2>1. PICK a \in Find(h) : body' = [body EXCEPT ![a] = Resumed(@, uptime)]
    BY <1>6 DEF Resume
  <2>2. a \in Addr /\ uptime \in Nat /\ body \in [Addr -> Body]
    BY <2>1 DEF Find, IInv, TypeOK
  <2>3. Resumed(body[a], uptime) \in Body
    BY <2>2 DEF Resumed, Body
  <2>4. body' \in [Addr -> Body]
    BY <2>1, <2>2, <2>3
  <2> QED
    BY <1>6, <2>4, BodyStepIInv DEF Resume
<1>7. ASSUME Free PROVE IInv'
  BY <1>7, AddrAssumption
     DEF Free, IInv, TypeOK, HandlesDistinct, OrdFresh, ListInOrder, PassOnList, pass
<1>8. ASSUME LoopBegin PROVE IInv'
  BY <1>8 DEF LoopBegin, IInv, TypeOK, HandlesDistinct, OrdFresh, ListInOrder,
              PassOnList, nodes, links
<1>9. ASSUME LoopCall PROVE IInv'
  <2>1. s_p_timer \in live /\ s_p_timer \in Addr
    BY <1>9 DEF LoopCall, IInv, PassOnList, TypeOK
  <2>2. Ran(body[s_p_timer], s_current_uptime) \in Body
    <3>1. body[s_p_timer] \in Body /\ s_current_uptime \in Nat
      BY <2>1 DEF IInv, TypeOK
    <3>2. Due(body[s_p_timer], s_current_uptime)
      BY <1>9 DEF LoopCall
    <3> QED
      BY <3>1, <3>2, RanType
  <2>3. body' \in [Addr -> Body]
    BY <1>9, <2>1, <2>2 DEF LoopCall, IInv, TypeOK
  <2> QED
    BY <1>9, <2>1, <2>3 DEF LoopCall, IInv, TypeOK, HandlesDistinct, OrdFresh,
                            ListInOrder, PassOnList, links
<1>10. ASSUME LoopNext PROVE IInv'
  <2>1. s_p_timer \in live
    BY <1>10 DEF LoopNext, IInv, PassOnList
  <2>2. next[s_p_timer] \in live \cup {NULL}
    BY <2>1 DEF IInv, ListInOrder
  <2> QED
    BY <1>10, <2>2 DEF LoopNext, IInv, TypeOK, HandlesDistinct, OrdFresh, ListInOrder,
                       PassOnList, nodes, links
<1>11. ASSUME LoopEnd PROVE IInv'
  BY <1>11 DEF LoopEnd, IInv, TypeOK, HandlesDistinct, OrdFresh, ListInOrder,
               PassOnList, nodes, links
<1>12. CASE UNCHANGED vars
  BY <1>12 DEF vars, IInv, TypeOK, HandlesDistinct, OrdFresh, ListInOrder, PassOnList,
               nodes, links, pass
<1> QED
  BY <1>1, <1>2, <1>3, <1>4, <1>5, <1>6, <1>7, <1>8, <1>9, <1>10, <1>11, <1>12
     DEF Next, Api, Loop

\* EcosTimer is type correct.
THEOREM TypeCorrect == Spec => []TypeOK
<1>1. Spec => []IInv
  BY InitIInv, NextIInv, PTL DEF Spec
<1> QED
  BY <1>1, PTL DEF IInv

\* Handles are distinct for any number of timers.
THEOREM HandlesStayDistinct == Spec => []HandlesDistinct
<1>1. Spec => []IInv
  BY InitIInv, NextIInv, PTL DEF Spec
<1> QED
  BY <1>1, PTL DEF IInv

\* The doubly linked list is the live timers in the order they were added,
\* whatever calls are made, in callbacks too.
THEOREM ListStaysInOrder == Spec => []ListInOrder
<1>1. Spec => []IInv
  BY InitIInv, NextIInv, PTL DEF Spec
<1> QED
  BY <1>1, PTL DEF IInv

\* The pass never dereferences freed memory, provided no callback deletes its
\* own timer.
THEOREM PassStaysOnList == Spec => []PassOnList
<1>1. Spec => []IInv
  BY InitIInv, NextIInv, PTL DEF Spec
<1> QED
  BY <1>1, PTL DEF IInv

\* A pass only moves to timers added later, so it calls no timer twice.
THEOREM PassAlwaysMovesForward == Spec => PassMovesForward
<1>1. Spec => []IInv
  BY InitIInv, NextIInv, PTL DEF Spec
<1> DEFINE Forward == (pc # "idle" /\ s_p_timer' # s_p_timer /\ s_p_timer' # NULL)
                        => ord[s_p_timer] < ord'[s_p_timer']
<1>2. ASSUME IInv, [Next]_vars PROVE [Forward]_vars
  <2>1. CASE LoopNext
    <3>1. s_p_timer \in live /\ s_p_timer' = next[s_p_timer] /\ ord' = ord
      BY <1>2, <2>1 DEF LoopNext, IInv, PassOnList, nodes
    <3> QED
      BY <1>2, <3>1 DEF IInv, ListInOrder
  <2>2. CASE pc = "idle"
    BY <2>2
  <2>3. CASE s_p_timer' = s_p_timer
    BY <2>3
  <2>4. LoopNext \/ pc = "idle" \/ s_p_timer' = s_p_timer
    BY <1>2 DEF Next, Api, Loop, Tick, Add, Set, Del, Suspend, Resume, Free, LoopBegin,
                LoopCall, LoopEnd, pass, vars
  <2> QED
    BY <2>1, <2>2, <2>3, <2>4
<1> QED
  BY <1>1, <1>2, PTL DEF Spec, PassMovesForward

-----------------------------------------------------------------------------
(* The walks of the C code along next and prev. *)

\* Induction over the naturals, for a set.
LEMMA SetInduction ==
    ASSUME NEW T, T \subseteq Nat, 0 \in T, \A n \in T : n + 1 \in T
    PROVE  T = Nat
<1> SUFFICES ASSUME Nat \ T # {} PROVE FALSE
  OBVIOUS
<1>1. PICK x \in Nat \ T : \A y \in Nat \ T : ~(<<y, x>> \in OpToRel(<, Nat))
  BY NatLessThanWellFounded, WFMin
<1>2. x # 0 /\ x - 1 \in Nat
  OBVIOUS
<1>3. x - 1 \in T
  <2>1. <<x - 1, x>> \in {ss \in Nat \X Nat : ss[1] < ss[2]}
    BY <1>2
  <2>2. <<x - 1, x>> \in OpToRel(<, Nat)
    BY <2>1, Zenon DEF OpToRel
  <2> QED
    BY <1>1, <1>2, <2>2
<1> QED
  BY <1>2, <1>3

\* A sequence that starts at a and follows link to its end, and that is not longer
\* than the bound of Walk, is what Walk returns.
Follows(link, a, s) ==
    /\ a = IF s = <<>> THEN NULL ELSE s[1]
    /\ \A i \in 1 .. Len(s) : s[i] # NULL /\ link[s[i]] = IF i = Len(s) THEN NULL ELSE s[i + 1]

LEMMA WalkFollows ==
    ASSUME NEW link, NEW a, NEW S, NEW s \in Seq(S), Follows(link, a, s),
           Cardinality(Addr) \in Nat, Len(s) <= Cardinality(Addr)
    PROVE  Walk(link, a) = s
<1> DEFINE M == Cardinality(Addr) + 1
           L == Len(s)
           Min2(n) == IF n <= L THEN n ELSE L
           Pre(n) == [i \in 1 .. Min2(n) |-> s[i]]
           Step(f, n) == IF n = 0 THEN <<>>
                         ELSE LET p == f[n - 1]
                                  q == IF p = <<>> THEN a ELSE link[Last(p)]
                              IN  IF q = NULL \/ Len(p) < n - 1 THEN p ELSE Append(p, q)
           path == CHOOSE h : h = [n \in 0 .. M |-> Step(h, n)]
<1>0. L \in Nat /\ M \in Nat /\ L <= M /\ s = [i \in 1 .. L |-> s[i]]
  BY LenProperties
<1>1. Walk(link, a) = path[M]
  BY DEF Walk
<1>2. ASSUME NEW f, NEW n \in 1 .. M, f[n - 1] = Pre(n - 1)
      PROVE  Step(f, n) = Pre(n)
  <2> DEFINE p == f[n - 1]
             q == IF p = <<>> THEN a ELSE link[Last(p)]
  <2>1. Len(p) = Min2(n - 1) /\ \A i \in 1 .. Min2(n - 1) : p[i] = s[i]
    BY <1>0, <1>2
  <2>2. Step(f, n) = IF q = NULL \/ Len(p) < n - 1 THEN p ELSE Append(p, q)
    OBVIOUS
  <2>3. CASE n <= L
    <3>1. Len(p) = n - 1 /\ s # <<>> /\ n \in 1 .. L
      BY <1>0, <2>1, <2>3
    <3>2. q = s[n]
      <4>1. CASE n = 1
        <5>1. p = <<>>
          BY <1>0, <1>2, <2>3, <4>1
        <5> QED
          BY <3>1, <4>1, <5>1 DEF Follows
      <4>2. CASE n # 1
        <5>1. n - 1 \in 1 .. L /\ n - 1 # L /\ p[n - 1] = s[n - 1]
          BY <1>0, <2>1, <2>3, <4>2
        <5>2. p # <<>> /\ Last(p) = s[n - 1]
          BY <3>1, <4>2, <5>1 DEF Last
        <5>3. link[s[n - 1]] = s[n]
          BY <5>1 DEF Follows
        <5> QED
          BY <5>2, <5>3
      <4> QED
        BY <4>1, <4>2
    <3>3. s[n] # NULL
      BY <3>1 DEF Follows
    <3>4. Step(f, n) = Append(Pre(n - 1), s[n])
      BY <1>2, <2>2, <3>1, <3>2, <3>3, SMTT(60)
    <3>5. Min2(n - 1) = n - 1 /\ Min2(n) = n
      BY <1>0, <2>3
    <3>6. Append([i \in 1 .. n - 1 |-> s[i]], s[n]) = [i \in 1 .. n |-> s[i]]
      OBVIOUS
    <3> QED
      BY <3>4, <3>5, <3>6
  <2>4. CASE ~(n <= L)
    <3>1. Min2(n - 1) = L /\ Min2(n) = L /\ n - 1 >= L
      BY <1>0, <2>4
    <3>2. p = s /\ Pre(n) = s
      BY <1>0, <1>2, <3>1
    <3>3. q = NULL
      <4>1. CASE s = <<>>
        BY <3>2, <4>1 DEF Follows
      <4>2. CASE s # <<>>
        <5>1. L \in 1 .. L
          BY <1>0, <4>2
        <5>2. link[s[L]] = NULL
          BY <5>1 DEF Follows
        <5> QED
          BY <3>2, <4>2, <5>2 DEF Last
      <4> QED
        BY <4>1, <4>2
    <3> QED
      BY <2>2, <3>2, <3>3
  <2> QED
    BY <2>3, <2>4
<1>3. Pre(0) = <<>> /\ Pre(M) = s
  BY <1>0
<1>4. \E h : h = [n \in 0 .. M |-> Step(h, n)]
  <2> DEFINE h == [n \in 0 .. M |-> Pre(n)]
  <2>1. ASSUME NEW n \in 0 .. M PROVE h[n] = Step(h, n)
    <3>1. CASE n = 0
      BY <1>0, <1>3, <3>1
    <3>2. CASE n # 0
      <4> HIDE DEF Pre
      <4>1. n \in 1 .. M /\ h[n - 1] = Pre(n - 1) /\ h[n] = Pre(n)
        BY <1>0, <3>2
      <4> HIDE DEF h, Step
      <4> QED
        BY <1>2, <4>1
    <3> QED
      BY <3>1, <3>2
  <2>2. h = [n \in 0 .. M |-> h[n]]
    OBVIOUS
  <2> HIDE DEF h, Step, Pre
  <2>3. h = [n \in 0 .. M |-> Step(h, n)]
    BY <2>1, <2>2
  <2> QED
    BY <2>3
<1>5. path = [n \in 0 .. M |-> Step(path, n)]
  <2> HIDE DEF Step
  <2> QED
    BY <1>4
<1> HIDE DEF path
<1> DEFINE U == {n \in Nat : n <= M => path[n] = Pre(n)}
<1>6. 0 \in U
  <2>1. path[0] = Step(path, 0)
    <3> HIDE DEF Step
    <3> QED
      BY <1>0, <1>5
  <2> QED
    BY <1>3, <2>1
<1>7. ASSUME NEW n \in U PROVE n + 1 \in U
  <2> HIDE DEF Pre, Step
  <2> SUFFICES ASSUME n + 1 <= M PROVE path[n + 1] = Pre(n + 1)
    BY <1>7
  <2>1. n + 1 \in 1 .. M /\ n + 1 \in 0 .. M /\ (n + 1) - 1 = n /\ path[n] = Pre(n)
    BY <1>0, <1>7
  <2>2. path[n + 1] = Step(path, n + 1)
    BY <1>5, <2>1
  <2> QED
    BY <1>2, <2>1, <2>2
<1>8. M \in U
  <2> HIDE DEF U, M
  <2>1. U \subseteq Nat
    BY DEF U
  <2> QED
    BY <1>0, <1>6, <1>7, <2>1, SetInduction
<1> QED
  BY <1>0, <1>1, <1>3, <1>8

\* The list from its head to the node it has come to: distinct nodes, and every
\* node added before the last of them.
Chain(s) ==
    /\ s # <<>> /\ s[1] = head
    /\ \A i \in 1 .. Len(s) - 1 : s[i] # tail /\ s[i + 1] = next[s[i]]
    /\ \A i, j \in 1 .. Len(s) : i < j => ord[s[i]] < ord[s[j]]
    /\ \A b \in live : ord[b] <= ord[s[Len(s)]] => \E i \in 1 .. Len(s) : s[i] = b

\* One step along next makes a chain longer.
LEMMA ChainGrows ==
    ASSUME IInv, NEW s \in Seq(live), Chain(s), s[Len(s)] # tail
    PROVE  /\ next[s[Len(s)]] \in live
           /\ Append(s, next[s[Len(s)]]) \in Seq(live)
           /\ Chain(Append(s, next[s[Len(s)]]))
<1> DEFINE L == Len(s)
           x == s[L]
           y == next[x]
           t == Append(s, y)
<1>1. L \in Nat /\ L \in 1 .. L /\ \A i \in 1 .. L : s[i] \in live
  BY LenProperties, ElementOfSeq, EmptySeq DEF Chain
<1>2. x \in live /\ y # NULL
  BY <1>1 DEF IInv, ListInOrder
<1>3. y \in live /\ ord[x] < ord[y] /\ \A b \in live : ord[b] <= ord[x] \/ ord[y] <= ord[b]
  BY <1>2 DEF IInv, ListInOrder
<1>4. t \in Seq(live) /\ Len(t) = L + 1 /\ t[L + 1] = y /\ \A i \in 1 .. L : t[i] = s[i]
  BY <1>1, <1>3, AppendProperties
<1>5. \A b \in live : ord[b] \in Nat
  BY DEF IInv, TypeOK
<1> HIDE DEF t
<1>6. Chain(t)
  <2>1. t # <<>> /\ t[1] = head
    BY <1>1, <1>4 DEF Chain
  <2>2. ASSUME NEW i \in 1 .. Len(t) - 1 PROVE t[i] # tail /\ t[i + 1] = next[t[i]]
    <3>1. CASE i = L
      BY <1>1, <1>4, <3>1
    <3>2. CASE i # L
      <4>1. i \in 1 .. L - 1 /\ i \in 1 .. L /\ i + 1 \in 1 .. L
        BY <1>1, <1>4, <3>2
      <4> QED
        BY <1>4, <4>1 DEF Chain
    <3> QED
      BY <3>1, <3>2
  <2>3. ASSUME NEW i \in 1 .. Len(t), NEW j \in 1 .. Len(t), i < j
        PROVE  ord[t[i]] < ord[t[j]]
    <3>1. i \in 1 .. L /\ t[i] = s[i] /\ s[i] \in live
      BY <1>1, <1>4, <2>3
    <3>2. CASE j = L + 1
      <4>1. ord[s[i]] <= ord[x]
        <5>1. CASE i = L
          BY <1>2, <1>5, <5>1
        <5>2. CASE i # L
          <6>1. i < L
            BY <1>1, <3>1, <5>2
          <6>2. ord[s[i]] < ord[x]
            BY <1>1, <3>1, <6>1 DEF Chain
          <6> QED
            BY <1>2, <1>5, <3>1, <6>2
        <5> QED
          BY <5>1, <5>2
      <4> QED
        BY <1>2, <1>3, <1>4, <1>5, <3>1, <3>2, <4>1
    <3>3. CASE j # L + 1
      <4>1. j \in 1 .. L /\ t[j] = s[j]
        BY <1>1, <1>4, <3>3
      <4> QED
        BY <2>3, <3>1, <4>1 DEF Chain
    <3> QED
      BY <3>2, <3>3
  <2>4. ASSUME NEW b \in live, ord[b] <= ord[t[Len(t)]]
        PROVE  \E i \in 1 .. Len(t) : t[i] = b
    <3>1. CASE ord[b] <= ord[x]
      <4>1. PICK i \in 1 .. L : s[i] = b
        BY <3>1 DEF Chain
      <4> QED
        BY <1>1, <1>4, <4>1
    <3>2. CASE ~(ord[b] <= ord[x])
      <4>1. ord[b] = ord[y]
        BY <1>3, <1>4, <1>5, <2>4, <3>2
      <4>2. b = y
        BY <1>3, <4>1 DEF IInv, OrdFresh
      <4> QED
        BY <1>1, <1>4, <4>2
    <3> QED
      BY <3>1, <3>2
  <2> QED
    BY <2>1, <2>2, <2>3, <2>4 DEF Chain
<1> QED
  BY <1>3, <1>4, <1>6 DEF t

\* A chain has no node twice, and so is not longer than there are addresses.
LEMMA ChainDistinct ==
    ASSUME IInv, NEW s \in Seq(live), Chain(s)
    PROVE  /\ s \in Injection(1 .. Len(s), live)
           /\ Cardinality(Addr) \in Nat /\ Len(s) <= Cardinality(Addr)
           /\ IsFiniteSet(live)
<1>1. Len(s) \in Nat /\ s \in [1 .. Len(s) -> live] /\ DOMAIN s = 1 .. Len(s)
  BY LenProperties
<1>2. live \subseteq Addr /\ \A b \in live : ord[b] \in Nat
  BY DEF IInv, TypeOK
<1>3. ASSUME NEW i \in 1 .. Len(s), NEW j \in 1 .. Len(s), s[i] = s[j] PROVE i = j
  <2>1. ~(i < j) /\ ~(j < i)
    BY <1>1, <1>2, <1>3 DEF Chain
  <2> QED
    BY <2>1
<1>4. s \in Injection(1 .. Len(s), live)
  BY <1>1, <1>3 DEF Injection, IsInjective
<1>5. IsFiniteSet(live) /\ Cardinality(live) <= Cardinality(Addr)
  BY <1>2, AddrAssumption, FS_Subset
<1>6. Cardinality(1 .. Len(s)) = Len(s)
  BY <1>1, FS_Interval
<1>7. Cardinality(1 .. Len(s)) <= Cardinality(live)
  BY <1>4, <1>5, FS_Injection
<1>8. Cardinality(Addr) \in Nat /\ Cardinality(live) \in Nat
  BY <1>5, AddrAssumption, FS_CardinalityType
<1> QED
  BY <1>1, <1>4, <1>5, <1>6, <1>7, <1>8

\* A list that is not empty is a chain from its head to its tail.
LEMMA ChainToTail ==
    ASSUME IInv, live # {}
    PROVE  \E s \in Seq(live) : Chain(s) /\ s[Len(s)] = tail
<1> DEFINE T == {n \in Nat : \E s \in Seq(live) : Chain(s) /\ (Len(s) = n + 1 \/ s[Len(s)] = tail)}
<1>1. 0 \in T
  <2>1. head \in live /\ \A a \in live : ord[head] <= ord[a]
    BY DEF IInv, ListInOrder
  <2>2. <<head>> \in Seq(live) /\ Len(<<head>>) = 1 /\ <<head>>[1] = head /\ <<head>> # <<>>
    BY <2>1
  <2>3. ASSUME NEW b \in live, ord[b] <= ord[head] PROVE b = head
    <3>1. ord[b] = ord[head]
      BY <2>1, <2>3 DEF IInv, TypeOK
    <3> QED
      BY <2>1, <3>1 DEF IInv, OrdFresh
  <2>4. Chain(<<head>>)
    BY <2>2, <2>3 DEF Chain
  <2>5. \E s \in Seq(live) : Chain(s) /\ Len(s) = 0 + 1
    <3> HIDE DEF Chain
    <3>1. Len(<<head>>) = 0 + 1
      BY <2>2
    <3> QED
      BY <2>2, <2>4, <3>1, Zenon
  <2> QED
    BY <2>5
<1>2. ASSUME NEW n \in T PROVE n + 1 \in T
  <2>1. PICK s \in Seq(live) : Chain(s) /\ (Len(s) = n + 1 \/ s[Len(s)] = tail)
    BY <1>2
  <2>2. CASE s[Len(s)] = tail
    BY <1>2, <2>1, <2>2
  <2>3. CASE s[Len(s)] # tail
    <3> DEFINE t == Append(s, next[s[Len(s)]])
    <3>1. t \in Seq(live) /\ Chain(t)
      BY <2>1, <2>3, ChainGrows
    <3>2. Len(t) = (n + 1) + 1
      BY <2>1, <2>3, ChainGrows, AppendProperties
    <3> HIDE DEF t
    <3> QED
      BY <1>2, <3>1, <3>2
  <2> QED
    BY <2>2, <2>3
<1>3. T = Nat
  <2> HIDE DEF T
  <2>1. T \subseteq Nat
    BY DEF T
  <2> QED
    BY <1>1, <1>2, <2>1, SetInduction
<1>4. Cardinality(Addr) \in Nat
  BY AddrAssumption, FS_CardinalityType
<1>5. PICK s \in Seq(live) : Chain(s) /\ (Len(s) = Cardinality(Addr) + 1 \/ s[Len(s)] = tail)
  BY <1>3, <1>4
<1>6. Len(s) <= Cardinality(Addr)
  BY <1>5, ChainDistinct
<1>7. Len(s) \in Nat
  BY LenProperties
<1> QED
  BY <1>4, <1>5, <1>6, <1>7

\* The chain to the tail is what the two walks meet.
LEMMA ListIsWalked ==
    ASSUME IInv
    PROVE  WalkIsList
<1> DEFINE N == Cardinality(Addr)
<1>1. N \in Nat
  BY AddrAssumption, FS_CardinalityType
<1>2. CASE live = {}
  <2>1. head = NULL /\ tail = NULL
    BY <1>2 DEF IInv, ListInOrder
  <2>2. <<>> \in Seq(live) /\ Len(<<>>) = 0
    BY EmptySeq
  <2>3. Follows(next, head, <<>>) /\ Follows(prev, tail, <<>>)
    BY <2>1 DEF Follows
  <2>4. Walk(next, head) = <<>> /\ Walk(prev, tail) = <<>>
    <3> HIDE DEF N
    <3>1. Len(<<>>) <= Cardinality(Addr)
      BY <1>1 DEF N
    <3> QED
      BY <1>1, <2>2, <2>3, <3>1, WalkFollows DEF N
  <2>5. ToSet(<<>>) = {} /\ Reverse(<<>>) = <<>> /\ Cardinality({}) = 0
    BY FS_EmptySet DEF ToSet, Reverse
  <2> QED
    BY <1>2, <2>2, <2>4, <2>5 DEF WalkIsList
<1>3. CASE live # {}
  <2>1. PICK s \in Seq(live) : Chain(s) /\ s[Len(s)] = tail
    BY <1>3, ChainToTail
  <2> DEFINE L == Len(s)
             r == Reverse(s)
  <2>2. /\ s \in Injection(1 .. L, live) /\ L <= N /\ IsFiniteSet(live)
        /\ L \in Nat /\ L >= 1 /\ \A i \in 1 .. L : s[i] \in live
    BY <2>1, ChainDistinct, LenProperties, ElementOfSeq, EmptySeq DEF Chain
  <2>3. /\ live \subseteq Addr /\ NULL \notin live
        /\ \A b \in live : ord[b] <= ord[tail]
    BY <1>3, AddrAssumption DEF IInv, TypeOK, ListInOrder
  <2>4. /\ \A i \in 1 .. L - 1 : s[i] # tail /\ s[i + 1] = next[s[i]]
        /\ s[1] = head /\ s[L] = tail /\ s # <<>>
    BY <2>1 DEF Chain
  <2>5. \A b \in live : (next[b] = NULL <=> b = tail) /\ (prev[b] = NULL <=> b = head)
                        /\ (next[b] # NULL => prev[next[b]] = b)
    BY DEF IInv, ListInOrder
  <2>6. \A i \in 1 .. L - 1 : i \in 1 .. L /\ i + 1 \in 1 .. L /\ prev[s[i + 1]] = s[i]
    BY <2>2, <2>3, <2>4, <2>5
  <2>7. Follows(next, head, s)
    <3>1. ASSUME NEW i \in 1 .. L
          PROVE  s[i] # NULL /\ next[s[i]] = IF i = L THEN NULL ELSE s[i + 1]
      <4>1. CASE i = L
        BY <2>2, <2>3, <2>4, <2>5, <4>1
      <4>2. CASE i # L
        <5>1. i \in 1 .. L - 1
          BY <2>2, <4>2
        <5> QED
          BY <2>2, <2>3, <2>4, <4>2, <5>1
      <4> QED
        BY <4>1, <4>2
    <3> QED
      BY <2>4, <3>1 DEF Follows
  <2>8. r \in Seq(live) /\ Len(r) = L /\ \A i \in 1 .. L : r[i] = s[(L - i) + 1]
    <3>1. \A i \in 1 .. L : (L - i) + 1 \in 1 .. L
      BY <2>2
    <3>2. r = [i \in 1 .. L |-> s[(L - i) + 1]]
      BY DEF Reverse
    <3>3. \A i \in 1 .. L : s[(L - i) + 1] \in live
      BY <2>2, <3>1
    <3> QED
      BY <2>2, <3>2, <3>3
  <2> HIDE DEF r
  <2>9. Follows(prev, tail, r)
    <3>1. r # <<>> /\ r[1] = tail
      BY <2>2, <2>4, <2>8
    <3>2. ASSUME NEW i \in 1 .. L
          PROVE  r[i] # NULL /\ prev[r[i]] = IF i = L THEN NULL ELSE r[i + 1]
      <4>1. r[i] \in live
        BY <2>2, <2>8
      <4>2. CASE i = L
        <5>1. r[i] = head
          BY <2>2, <2>4, <2>8, <4>2
        <5> QED
          BY <2>3, <2>5, <4>1, <4>2, <5>1
      <4>3. CASE i # L
        <5>1. L - i \in 1 .. L - 1 /\ i + 1 \in 1 .. L /\ (L - (i + 1)) + 1 = L - i
          BY <2>2, <4>3
        <5>2. prev[s[(L - i) + 1]] = s[L - i]
          BY <2>6, <5>1
        <5>3. r[i + 1] = s[L - i] /\ r[i] = s[(L - i) + 1]
          BY <2>8, <5>1
        <5> QED
          BY <2>3, <4>1, <4>3, <5>2, <5>3
      <4> QED
        BY <4>2, <4>3
    <3> QED
      BY <2>8, <3>1, <3>2 DEF Follows
  <2>10. Walk(next, head) = s /\ Walk(prev, tail) = r
    BY <1>1, <2>2, <2>7, <2>8, <2>9, WalkFollows
  <2>11. \A b \in live : \E i \in 1 .. L : s[i] = b
    BY <2>1, <2>3 DEF Chain
  <2>12. ToSet(s) = live
    BY <2>2, <2>11, SMTT(60) DEF ToSet
  <2>13. L = Cardinality(live)
    <3>1. s \in Bijection(1 .. L, live)
      BY <2>2, <2>11 DEF Bijection, Injection, Surjection
    <3>2. ExistsBijection(1 .. L, live)
      BY <3>1 DEF ExistsBijection
    <3>3. IsFiniteSet(1 .. L) /\ Cardinality(1 .. L) = L
      BY <2>2, FS_Interval
    <3> QED
      BY <3>2, <3>3, FS_Bijection
  <2> QED
    BY <2>10, <2>12, <2>13 DEF WalkIsList, r
<1> QED
  BY <1>2, <1>3

\* get_timerlist_ptr_by_handle and ecos_timer_function_loop, which walk along next
\* from the head, meet every allocated timer exactly once and then stop, for any
\* number of timers; a walk along prev from the tail meets them backwards.
THEOREM WalksMeetAll == Spec => []WalkIsList
<1>1. Spec => []IInv
  BY InitIInv, NextIInv, PTL DEF Spec
<1>2. IInv => WalkIsList
  BY ListIsWalked
<1> QED
  BY <1>1, <1>2, PTL
-----------------------------------------------------------------------------
(* Every step of the linked list is a step of the map of TimerService or    *)
(* leaves the map alone.                                                    *)

\* The map entry of a node.
Entry(a) == [body |-> body[a], ord |-> ord[a]]

\* The map is defined at the handles in use and holds each node's entry there.
AbsOK ==
    /\ DOMAIN AbsTimers = UsedHandles
    /\ \A a \in live : hnd[a] \in UsedHandles /\ AbsTimers[hnd[a]] = Entry(a)
    /\ \A h \in UsedHandles : \E a \in live : h = hnd[a] /\ AbsTimers[h] = Entry(a)

\* With distinct handles, the map at a node's handle is that node's entry.
LEMMA AbsEntries == IInv => AbsOK
<1> SUFFICES ASSUME IInv PROVE AbsOK
  OBVIOUS
<1>1. DOMAIN AbsTimers = UsedHandles
  BY DEF AbsTimers
<1>2. ASSUME NEW a \in live
      PROVE  hnd[a] \in UsedHandles /\ AbsTimers[hnd[a]] = Entry(a)
  <2>1. hnd[a] \in UsedHandles
    BY DEF UsedHandles
  <2>2. Find(hnd[a]) = {a}
    BY DEF Find, IInv, HandlesDistinct
  <2>3. (CHOOSE b \in Find(hnd[a]) : TRUE) = a
    BY <2>2
  <2> QED
    BY <2>1, <2>3 DEF AbsTimers, Entry
<1>3. ASSUME NEW h \in UsedHandles
      PROVE  \E a \in live : h = hnd[a] /\ AbsTimers[h] = Entry(a)
  <2>1. PICK a \in live : h = hnd[a]
    BY DEF UsedHandles
  <2> QED
    BY <2>1, <1>2
<1> QED
  BY <1>1, <1>2, <1>3 DEF AbsOK

\* A step that changes the fields of one live node changes the map at its handle.
LEMMA BodyStepAbs ==
    ASSUME IInv, IInv', NEW a \in live, NEW b,
           body' = [body EXCEPT ![a] = b],
           UNCHANGED <<live, hnd, ord>>
    PROVE  AbsTimers' = [AbsTimers EXCEPT ![hnd[a]].body = b]
<1> USE DEF Entry
<1>0. AbsOK /\ AbsOK'
  BY AbsEntries, PTL
<1>1. /\ DOMAIN AbsTimers' = UsedHandles'
      /\ \A h \in UsedHandles' : \E d \in live' : h = hnd'[d] /\ AbsTimers'[h] = Entry(d)'
  BY <1>0 DEF AbsOK
<1>2. UsedHandles' = UsedHandles
  BY DEF UsedHandles
<1>3. ASSUME NEW h \in UsedHandles
      PROVE  AbsTimers'[h] = [AbsTimers EXCEPT ![hnd[a]].body = b][h]
  <2>1. PICK d \in live : h = hnd[d] /\ AbsTimers'[h] = Entry(d)'
    BY <1>1, <1>2
  <2>2. AbsTimers[h] = Entry(d) /\ AbsTimers[hnd[a]] = Entry(a) /\ hnd[a] \in DOMAIN AbsTimers
    BY <1>0, <2>1 DEF AbsOK
  <2>3. hnd[d] = hnd[a] <=> d = a
    BY DEF IInv, HandlesDistinct
  <2>4. CASE d = a
    BY <2>1, <2>2, <2>4 DEF IInv, TypeOK
  <2>5. CASE d # a
    BY <2>1, <2>2, <2>3, <2>5 DEF IInv, TypeOK
  <2> QED
    BY <2>4, <2>5
<1> QED
  BY <1>0, <1>1, <1>2, <1>3 DEF AbsOK, AbsTimers

\* The operators TimerService takes from TimerBase are the ones EcosTimer uses.
LEMMA SameOps ==
    ASSUME NEW b, NEW t, NEW f, NEW i, NEW c, NEW h, NEW used
    PROVE  /\ TS!Handle = Handle
           /\ TS!Armed(f, i, c, t) = Armed(f, i, c, t)
           /\ TS!Rearmed(b, f, i, c, t) = Rearmed(b, f, i, c, t)
           /\ TS!Suspended(b) = Suspended(b)
           /\ TS!Resumed(b, t) = Resumed(b, t)
           /\ TS!Ran(b, t) = Ran(b, t)
           /\ TS!Due(b, t) <=> Due(b, t)
           /\ TS!IsLowestFree(h, used) <=> IsLowestFree(h, used)
<1>1. TS!Handle = Handle
  BY DEF TS!Handle, Handle
<1>2. TS!Armed(f, i, c, t) = Armed(f, i, c, t)
  BY DEF TS!Armed, Armed
<1>3. TS!Rearmed(b, f, i, c, t) = Rearmed(b, f, i, c, t)
  BY DEF TS!Rearmed, Rearmed
<1>4. TS!Suspended(b) = Suspended(b)
  BY DEF TS!Suspended, Suspended
<1>5. TS!Resumed(b, t) = Resumed(b, t)
  BY DEF TS!Resumed, Resumed
<1>6. TS!Ran(b, t) = Ran(b, t)
  BY DEF TS!Ran, Ran, TS!COUNT_FOREVER, COUNT_FOREVER
<1>7. TS!Due(b, t) <=> Due(b, t)
  BY DEF TS!Due, Due
<1>8. TS!IsLowestFree(h, used) <=> IsLowestFree(h, used)
  BY <1>1 DEF TS!IsLowestFree, IsLowestFree
<1> QED
  BY <1>1, <1>2, <1>3, <1>4, <1>5, <1>6, <1>7, <1>8

\* A step that leaves nodes alone leaves the map alone.
LEMMA SameAbs ==
    ASSUME UNCHANGED <<live, hnd, body, ord>>
    PROVE  AbsTimers' = AbsTimers
  BY DEF AbsTimers, UsedHandles, Find

\* ecos_timer_function_add is the Add of the map.
LEMMA AddRefines ==
    ASSUME IInv, IInv',
           NEW f \in Func \cup {NULL}, NEW i \in Interval, NEW c \in Count,
           Add(f, i, c)
    PROVE  TS!Add(f, i, c)
<1>0. AbsOK /\ AbsOK'
  BY AbsEntries, PTL
<1>1. PICK a \in Addr \ live, h \in Handle :
        /\ IsLowestFree(h, UsedHandles)
        /\ live' = live \cup {a}
        /\ hnd' = [hnd EXCEPT ![a] = h]
        /\ body' = [body EXCEPT ![a] = Armed(f, i, c, uptime)]
        /\ ord' = [ord EXCEPT ![a] = added + 1]
  BY DEF Add
<1>2. added' = added + 1 /\ UNCHANGED <<uptime, pass>> /\ ApiMayRun /\ added < MaxAdd
  BY DEF Add
<1>3. UsedHandles' = UsedHandles \cup {h}
  BY <1>1 DEF UsedHandles, IInv, TypeOK
<1>4. AbsTimers'[h] = [body |-> Armed(f, i, c, uptime), ord |-> added + 1]
  <2>1. a \in live' /\ hnd'[a] = h
    BY <1>1 DEF IInv, TypeOK
  <2>2. AbsTimers'[h] = Entry(a)'
    BY <1>0, <2>1 DEF AbsOK
  <2> QED
    BY <1>1, <2>2 DEF Entry, IInv, TypeOK
<1>5. ASSUME NEW k \in UsedHandles PROVE k # h /\ AbsTimers'[k] = AbsTimers[k]
  <2>1. k # h
    BY <1>1 DEF IsLowestFree
  <2>2. PICK d \in live : k = hnd[d] /\ AbsTimers[k] = Entry(d)
    BY <1>0 DEF AbsOK
  <2>3. d \in live' /\ hnd'[d] = k
    BY <1>1, <2>2 DEF IInv, TypeOK
  <2>4. AbsTimers'[k] = Entry(d)'
    BY <1>0, <2>3 DEF AbsOK
  <2>5. Entry(d)' = Entry(d)
    BY <1>1, <2>2 DEF Entry, IInv, TypeOK
  <2> QED
    BY <2>1, <2>2, <2>4, <2>5
<1>6. AbsTimers' = [k \in UsedHandles \cup {h} |->
                     IF k = h THEN [body |-> Armed(f, i, c, uptime), ord |-> added + 1]
                     ELSE AbsTimers[k]]
  <2> DEFINE G == [k \in UsedHandles \cup {h} |->
                     IF k = h THEN [body |-> Armed(f, i, c, uptime), ord |-> added + 1]
                     ELSE AbsTimers[k]]
  <2>1. DOMAIN AbsTimers' = DOMAIN G
    BY <1>0, <1>3 DEF AbsOK
  <2>2. \A k \in DOMAIN G : AbsTimers'[k] = G[k]
    BY <1>4, <1>5
  <2>3. AbsTimers' = [k \in DOMAIN AbsTimers' |-> AbsTimers'[k]]
    BY DEF AbsTimers
  <2> QED
    BY <2>1, <2>2, <2>3
<1>7. AbsCursor' = AbsCursor
  <2>1. s_p_timer # NULL => s_p_timer \in live
    BY DEF IInv, PassOnList, TypeOK
  <2> QED
    BY <1>1, <1>2, <2>1 DEF AbsCursor, pass, IInv, TypeOK
<1>8. DOMAIN AbsTimers = UsedHandles
  BY <1>0 DEF AbsOK
<1> QED
  BY <1>1, <1>2, <1>6, <1>7, <1>8, SameOps DEF TS!Add, TS!ApiMayRun, ApiMayRun, pass

\* ecos_timer_function_del is the Del of the map.
LEMMA DelRefines ==
    ASSUME IInv, IInv', NEW h \in Handle, Del(h)
    PROVE  TS!Del(h)
<1>0. AbsOK /\ AbsOK'
  BY AbsEntries, PTL
<1>1. PICK a \in live : hnd[a] = h /\ ~CallerKeeps(a) /\ live' = live \ {a}
  BY DEF Del, Find
<1>2. UNCHANGED <<hnd, body, ord, added, uptime, pass>> /\ ApiMayRun
  BY DEF Del
<1>3. UsedHandles' = UsedHandles \ {h}
  BY <1>1, <1>2 DEF UsedHandles, IInv, HandlesDistinct
<1>4. ASSUME NEW k \in UsedHandles' PROVE AbsTimers'[k] = AbsTimers[k]
  <2>1. PICK d \in live' : k = hnd'[d] /\ AbsTimers'[k] = Entry(d)'
    BY <1>0 DEF AbsOK
  <2>2. d \in live /\ k = hnd[d]
    BY <1>1, <1>2, <2>1
  <2> QED
    BY <1>0, <1>2, <2>1, <2>2 DEF AbsOK, Entry
<1>5. AbsTimers' = [k \in UsedHandles \ {h} |-> AbsTimers[k]]
  <2>1. AbsTimers' = [k \in DOMAIN AbsTimers' |-> AbsTimers'[k]]
    BY DEF AbsTimers
  <2> QED
    BY <1>0, <1>3, <1>4, <2>1 DEF AbsOK
<1>6. h \in UsedHandles /\ DOMAIN AbsTimers = UsedHandles
  BY <1>0, <1>1 DEF AbsOK
<1>7. pc = "callback" => h # AbsCursor
  <2>1. pc = "callback" => s_p_timer \in live /\ s_p_timer # NULL /\ s_p_timer # a
    BY <1>1, AddrAssumption DEF IInv, PassOnList, CallerKeeps, TypeOK
  <2> QED
    BY <1>1, <2>1 DEF AbsCursor, IInv, HandlesDistinct
<1>8. AbsCursor' = AbsCursor
  BY <1>2 DEF AbsCursor, pass
<1> QED
  BY <1>2, <1>5, <1>6, <1>7, <1>8 DEF TS!Del, TS!ApiMayRun, ApiMayRun, pass

\* Setting, suspending and resuming a timer do the same to the map.
LEMMA BodyApiRefines ==
    ASSUME IInv, IInv', NEW h \in Handle
    PROVE  /\ \A f \in Func \cup {NULL}, i \in Interval, c \in Count :
                Set(h, f, i, c) => TS!Set(h, f, i, c)
           /\ Suspend(h) => TS!Suspend(h)
           /\ Resume(h) => TS!Resume(h)
<1>0. AbsOK
  BY AbsEntries
<1>1. ASSUME NEW a \in Find(h), NEW b, body' = [body EXCEPT ![a] = b],
             UNCHANGED <<live, hnd, ord, added, links, uptime, pass>>
      PROVE  /\ AbsTimers' = [AbsTimers EXCEPT ![h].body = b]
             /\ h \in DOMAIN AbsTimers
             /\ AbsTimers[h].body = body[a]
             /\ UNCHANGED <<uptime, s_current_uptime, AbsCursor, pc, added>>
  <2>1. a \in live /\ hnd[a] = h
    BY DEF Find
  <2>2. AbsTimers' = [AbsTimers EXCEPT ![h].body = b]
    BY <1>1, <2>1, BodyStepAbs
  <2>3. AbsCursor' = AbsCursor
    BY <1>1 DEF AbsCursor, pass
  <2>4. h \in DOMAIN AbsTimers /\ AbsTimers[h] = Entry(a)
    BY <1>0, <2>1 DEF AbsOK
  <2>5. AbsTimers[h].body = body[a]
    BY <2>4 DEF Entry
  <2> QED
    BY <1>1, <2>2, <2>3, <2>4, <2>5 DEF pass
<1>2. ASSUME NEW f \in Func \cup {NULL}, NEW i \in Interval, NEW c \in Count,
             Set(h, f, i, c)
      PROVE  TS!Set(h, f, i, c)
  <2>1. PICK a \in Find(h) : body' = [body EXCEPT ![a] = Rearmed(body[a], f, i, c, uptime)]
    BY <1>2 DEF Set
  <2>2. UNCHANGED <<live, hnd, ord, added, links, uptime, pass>> /\ ApiMayRun
    BY <1>2 DEF Set
  <2>3. /\ AbsTimers' = [AbsTimers EXCEPT ![h].body = Rearmed(body[a], f, i, c, uptime)]
        /\ h \in DOMAIN AbsTimers
        /\ AbsTimers[h].body = body[a]
        /\ UNCHANGED <<uptime, s_current_uptime, AbsCursor, pc, added>>
    BY <1>1, <2>1, <2>2
  <2>4. TS!Rearmed(body[a], f, i, c, uptime) = Rearmed(body[a], f, i, c, uptime)
    BY SameOps
  <2> QED
    BY <2>2, <2>3, <2>4 DEF TS!Set, TS!ApiMayRun, TS!WithBody, ApiMayRun
<1>3. ASSUME Suspend(h) PROVE TS!Suspend(h)
  <2>1. PICK a \in Find(h) : body' = [body EXCEPT ![a] = Suspended(body[a])]
    BY <1>3 DEF Suspend
  <2>2. UNCHANGED <<live, hnd, ord, added, links, uptime, pass>> /\ ApiMayRun
    BY <1>3 DEF Suspend
  <2> QED
    BY <1>1, <2>1, <2>2, SameOps DEF TS!Suspend, TS!ApiMayRun, TS!WithBody, ApiMayRun
<1>4. ASSUME Resume(h) PROVE TS!Resume(h)
  <2>1. PICK a \in Find(h) : body' = [body EXCEPT ![a] = Resumed(body[a], uptime)]
    BY <1>4 DEF Resume
  <2>2. UNCHANGED <<live, hnd, ord, added, links, uptime, pass>> /\ ApiMayRun
    BY <1>4 DEF Resume
  <2> QED
    BY <1>1, <2>1, <2>2, SameOps DEF TS!Resume, TS!ApiMayRun, TS!WithBody, ApiMayRun
<1> QED
  BY <1>2, <1>3, <1>4

\* Where the list puts the pass next is where the map does: a node that follows
\* every live node numbered n or less is the first timer added after n.
LEMMA NextInMap ==
    ASSUME IInv, NEW n \in Nat, NEW q \in live \cup {NULL},
           q # NULL => n < ord[q] /\ \A b \in live : ord[b] <= n \/ ord[q] <= ord[b],
           q = NULL => \A b \in live : ord[b] <= n,
           NEW k, k = IF q = NULL THEN NULL ELSE hnd[q]
    PROVE  k \in Handle \cup {NULL} /\ TS!IsNextAfter(k, n, AbsTimers)
<1>0. AbsOK
  BY AbsEntries
<1>1. CASE q = NULL
  <2>1. \A h \in DOMAIN AbsTimers : AbsTimers[h].ord <= n
    BY <1>0, <1>1 DEF AbsOK, Entry
  <2> QED
    BY <1>1, <2>1 DEF TS!IsNextAfter
<1>2. CASE q # NULL
  <2>1. q \in live /\ k = hnd[q] /\ k \in Handle
    BY <1>2 DEF IInv, TypeOK
  <2>2. k \in DOMAIN AbsTimers /\ AbsTimers[k].ord = ord[q]
    <3>1. k \in DOMAIN AbsTimers /\ AbsTimers[k] = Entry(q)
      BY <1>0, <2>1 DEF AbsOK
    <3> QED
      BY <3>1 DEF Entry
  <2>3. ASSUME NEW h \in DOMAIN AbsTimers, AbsTimers[h].ord > n
        PROVE  ord[q] <= AbsTimers[h].ord
    <3>1. PICK a \in live : AbsTimers[h] = Entry(a)
      BY <1>0 DEF AbsOK
    <3>2. AbsTimers[h].ord = ord[a] /\ ord[a] \in Nat
      BY <3>1 DEF Entry, IInv, TypeOK
    <3> QED
      BY <1>2, <2>3, <3>2
  <2> QED
    BY <1>2, <2>1, <2>2, <2>3 DEF TS!IsNextAfter
<1> QED
  BY <1>1, <1>2

\* The pass along next is the pass over the map in the order of adding.
LEMMA LoopRefines ==
    ASSUME IInv, IInv', Loop
    PROVE  TS!Loop
<1>0. AbsOK
  BY AbsEntries
<1>1. ASSUME LoopBegin PROVE TS!LoopBegin
  <2>1. /\ pc = "idle" /\ pc' = "scan" /\ s_current_uptime' = uptime /\ s_p_timer' = head
        /\ UNCHANGED <<live, hnd, body, ord, added, uptime>>
    BY <1>1 DEF LoopBegin, nodes
  <2>2. AbsTimers' = AbsTimers
    BY <2>1, SameAbs
  <2>3. AbsCursor' = IF head = NULL THEN NULL ELSE hnd[head]
    BY <2>1 DEF AbsCursor
  <2>4. /\ head \in live \cup {NULL}
        /\ head # NULL => 0 < ord[head] /\ \A b \in live : ord[b] <= 0 \/ ord[head] <= ord[b]
        /\ head = NULL => \A b \in live : ord[b] <= 0
    BY DEF IInv, TypeOK, ListInOrder, OrdFresh
  <2>5. AbsCursor' \in Handle \cup {NULL} /\ TS!IsNextAfter(AbsCursor', 0, AbsTimers)
    BY <2>3, <2>4, NextInMap
  <2> QED
    BY <2>1, <2>2, <2>5, SameOps DEF TS!LoopBegin
<1>2. ASSUME LoopCall PROVE TS!LoopCall
  <2>1. s_p_timer \in live /\ s_p_timer # NULL
    BY <1>2 DEF LoopCall, IInv, PassOnList
  <2>2. AbsCursor = hnd[s_p_timer] /\ AbsCursor # NULL
    BY <2>1, TimerConstants DEF AbsCursor, IInv, TypeOK, Handle
  <2>3. AbsTimers[AbsCursor].body = body[s_p_timer]
    <3>1. AbsTimers[AbsCursor] = Entry(s_p_timer)
      BY <1>0, <2>1, <2>2 DEF AbsOK
    <3> QED
      BY <3>1 DEF Entry
  <2>4. body' = [body EXCEPT ![s_p_timer] = Ran(body[s_p_timer], s_current_uptime)]
    BY <1>2 DEF LoopCall
  <2>5. AbsTimers' = [AbsTimers EXCEPT ![AbsCursor].body = Ran(body[s_p_timer], s_current_uptime)]
    BY <1>2, <2>1, <2>2, <2>4, BodyStepAbs DEF LoopCall
  <2>6. AbsCursor' = AbsCursor
    BY <1>2 DEF LoopCall, AbsCursor
  <2>7. TS!Due(body[s_p_timer], s_current_uptime)
    BY <1>2, SameOps DEF LoopCall
  <2>8. TS!Ran(body[s_p_timer], s_current_uptime) = Ran(body[s_p_timer], s_current_uptime)
    BY SameOps
  <2> QED
    BY <1>2, <2>2, <2>3, <2>5, <2>6, <2>7, <2>8 DEF LoopCall, TS!LoopCall, TS!WithBody
<1>3. ASSUME LoopNext PROVE TS!LoopNext
  <2>1. s_p_timer \in live /\ s_p_timer # NULL
    BY <1>3, AddrAssumption DEF LoopNext, IInv, PassOnList, TypeOK
  <2>2. AbsCursor = hnd[s_p_timer] /\ AbsCursor # NULL
    BY <2>1, TimerConstants DEF AbsCursor, IInv, TypeOK, Handle
  <2>3. AbsTimers[AbsCursor].body = body[s_p_timer] /\ AbsTimers[AbsCursor].ord = ord[s_p_timer]
    <3>1. AbsTimers[AbsCursor] = Entry(s_p_timer)
      BY <1>0, <2>1, <2>2 DEF AbsOK
    <3> QED
      BY <3>1 DEF Entry
  <2>4. /\ s_p_timer' = next[s_p_timer] /\ pc' = "scan"
        /\ UNCHANGED <<live, hnd, body, ord, added, uptime, s_current_uptime>>
    BY <1>3 DEF LoopNext, nodes
  <2>5. AbsTimers' = AbsTimers
    BY <2>4, SameAbs
  <2> DEFINE q == next[s_p_timer]
             n == ord[s_p_timer]
  <2>6. /\ q \in live \cup {NULL} /\ n \in Nat
        /\ q # NULL => n < ord[q] /\ \A b \in live : ord[b] <= n \/ ord[q] <= ord[b]
        /\ q = NULL => \A b \in live : ord[b] <= n
    BY <2>1 DEF IInv, TypeOK, ListInOrder
  <2>7. AbsCursor' = IF q = NULL THEN NULL ELSE hnd[q]
    BY <2>4 DEF AbsCursor
  <2> HIDE DEF q, n
  <2>8. AbsCursor' \in Handle \cup {NULL} /\ TS!IsNextAfter(AbsCursor', n, AbsTimers)
    BY <2>6, <2>7, NextInMap
  <2>9. \/ pc = "scan" /\ AbsCursor # NULL
            /\ ~TS!Due(AbsTimers[AbsCursor].body, s_current_uptime)
        \/ pc = "callback"
    BY <1>3, <2>2, <2>3, SameOps DEF LoopNext
  <2> QED
    BY <2>3, <2>4, <2>5, <2>8, <2>9, SameOps DEF TS!LoopNext, n
<1>4. ASSUME LoopEnd PROVE TS!LoopEnd
  <2>1. /\ pc = "scan" /\ s_p_timer = NULL /\ pc' = "idle"
        /\ UNCHANGED <<live, hnd, body, ord, added, uptime, s_current_uptime, s_p_timer>>
    BY <1>4 DEF LoopEnd, nodes
  <2>2. AbsTimers' = AbsTimers
    BY <2>1, SameAbs
  <2> QED
    BY <2>1, <2>2 DEF TS!LoopEnd, AbsCursor
<1> QED
  BY <1>1, <1>2, <1>3, <1>4 DEF Loop, TS!Loop

\* The linked list with its pass, callbacks included, does nothing the map of
\* TimerService does not (the safety part of ImplementsTimerService; its
\* fairness part is left to TLC).
THEOREM ListImplementsMap == Spec => TS!Safety
<1>1. Init => TS!Init
  <2> SUFFICES ASSUME Init PROVE TS!Init
    OBVIOUS
  <2>1. UsedHandles = {}
    BY DEF Init, UsedHandles
  <2>2. AbsTimers = [h \in {} |-> NULL]
    BY <2>1 DEF AbsTimers
  <2> QED
    BY <2>2 DEF Init, TS!Init, AbsCursor
<1>2. ASSUME IInv, IInv', [Next]_vars PROVE [TS!Next]_(TS!vars)
  <2>1. ASSUME Tick PROVE TS!Tick
    <3>1. AbsTimers' = AbsTimers
      BY <2>1, SameAbs DEF Tick, nodes
    <3> QED
      BY <2>1, <3>1 DEF Tick, TS!Tick, AbsCursor, nodes, pass
  <2>2. ASSUME Free PROVE TS!Free
    <3>1. UsedHandles' = {}
      BY <2>2 DEF Free, UsedHandles
    <3>2. AbsTimers' = [h \in {} |-> NULL]
      BY <3>1 DEF AbsTimers
    <3>3. AbsCursor' = AbsCursor
      BY <2>2 DEF Free, AbsCursor, pass
    <3> QED
      BY <2>2, <3>2, <3>3 DEF Free, TS!Free, pass
  <2>3. ASSUME Api PROVE TS!Api
    BY <1>2, <2>2, <2>3, AddRefines, DelRefines, BodyApiRefines, SameOps DEF Api, TS!Api
  <2>4. ASSUME UNCHANGED vars PROVE UNCHANGED TS!vars
    <3>1. AbsTimers' = AbsTimers
      BY <2>4, SameAbs DEF vars, nodes
    <3> QED
      BY <2>4, <3>1 DEF vars, nodes, links, pass, TS!vars, AbsCursor
  <2> QED
    BY <1>2, <2>1, <2>3, <2>4, LoopRefines DEF Next, TS!Next
<1>3. Spec => []IInv
  BY InitIInv, NextIInv, PTL DEF Spec
<1> QED
  BY <1>1, <1>2, <1>3, PTL DEF Spec, TS!Safety
=============================================================================
