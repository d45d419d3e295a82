------------------------- MODULE EcosRegistryProofs -------------------------
(***************************************************************************)
(* EcosRegistry proved for any MIBs, rows, addresses and values: what is   *)
(* allocated is what the table points to and what failed registrations     *)
(* left, the chained hash table implements the map of MibMap, an escaped   *)
(* text is read back as it was, and a load puts back what was saved.       *)
(***************************************************************************)
EXTENDS EcosRegistry, FiniteSetTheorems, SequenceTheorems, NaturalsInduction,
        WellFoundedInduction, TLAPS

Node == [key : Mib, arg : Addr]
Registration == [mib : Mib, desc : Desc]

\* A node is in the row of its key, and no key is twice in a row.
RowsOK ==
    /\ rows \in [0 .. ROWS - 1 -> Seq(Node)]
    /\ \A i \in 0 .. ROWS - 1 : \A k \in 1 .. Len(rows[i]) : Row(rows[i][k].key) = i
    /\ \A i \in 0 .. ROWS - 1 : \A k, l \in 1 .. Len(rows[i]) : rows[i][k].key = rows[i][l].key => k = l

\* A node points to a registration of its key.
NodesOK ==
    /\ reg \in [Addr -> Registration \cup {NULL}]
    /\ \A n \in Nodes : reg[n.arg] # NULL /\ reg[n.arg].mib = n.key

\* What is allocated and no node points to is what failed registrations left.
Used == {a \in Addr : reg[a] # NULL}
Args == {n.arg : n \in Nodes}
Leaked == Used \ Args
LeakOK ==
    /\ failed \in Nat
    /\ IsFiniteSet(Args)
    /\ IsFiniteSet(Leaked) /\ Cardinality(Leaked) = failed

\* A registry that is not initialised is empty: ecos_mib_reg_init drops nothing.
ClosedIsEmpty == up \in BOOLEAN /\ (~up => Nodes = {} /\ order = <<>>)

IInv == RowsOK /\ NodesOK /\ LeakOK /\ ClosedIsEmpty

-----------------------------------------------------------------------------
(* The hash table. *)

LEMMA RowOf ==
    ASSUME NEW m \in Mib
    PROVE  Row(m) \in 0 .. ROWS - 1
<1>1. m \in Nat /\ ROWS \in Nat /\ ROWS > 0
  BY RegistryAssumption
<1> QED
  BY <1>1 DEF Row

\* A node of the table is a node of the row of its key.
LEMMA NodesInRows ==
    ASSUME RowsOK
    PROVE  /\ Nodes \subseteq Node
           /\ \A n : n \in Nodes <=> \E i \in 0 .. ROWS - 1 : \E k \in 1 .. Len(rows[i]) : rows[i][k] = n
           /\ \A n \in Nodes : \E k \in 1 .. Len(rows[Row(n.key)]) : rows[Row(n.key)][k] = n
           /\ \A n, x \in Nodes : n.key = x.key => n = x
<1>1. /\ DOMAIN rows = 0 .. ROWS - 1
      /\ \A i \in 0 .. ROWS - 1 : /\ Len(rows[i]) \in Nat /\ DOMAIN rows[i] = 1 .. Len(rows[i])
                                  /\ \A k \in 1 .. Len(rows[i]) : rows[i][k] \in Node
  BY LenProperties, ElementOfSeq DEF RowsOK
<1>2. \A n : n \in Nodes <=> \E i \in 0 .. ROWS - 1 : \E k \in 1 .. Len(rows[i]) : rows[i][k] = n
  BY <1>1 DEF Nodes
<1>3. ASSUME NEW n \in Nodes
      PROVE  n \in Node /\ \E k \in 1 .. Len(rows[Row(n.key)]) : rows[Row(n.key)][k] = n
  <2>1. PICK i \in 0 .. ROWS - 1 : \E k \in 1 .. Len(rows[i]) : rows[i][k] = n
    BY <1>2
  <2>2. PICK k \in 1 .. Len(rows[i]) : rows[i][k] = n
    BY <2>1
  <2>3. Row(n.key) = i
    BY <2>2 DEF RowsOK
  <2> QED
    BY <1>1, <2>2, <2>3
<1>4. ASSUME NEW n \in Nodes, NEW x \in Nodes, n.key = x.key PROVE n = x
  <2>1. PICK k \in 1 .. Len(rows[Row(n.key)]) : rows[Row(n.key)][k] = n
    BY <1>3
  <2>2. PICK l \in 1 .. Len(rows[Row(n.key)]) : rows[Row(n.key)][l] = x
    BY <1>3, <1>4
  <2>3. Row(n.key) \in 0 .. ROWS - 1
    BY <1>3, RowOf DEF Node
  <2>4. k = l
    BY <1>4, <2>1, <2>2, <2>3 DEF RowsOK
  <2> QED
    BY <2>1, <2>2, <2>4
<1> QED
  BY <1>2, <1>3, <1>4

\* ecos_shash32_node_search finds the node with the key it is asked for, and
\* nothing when there is none.
LEMMA SearchFinds ==
    ASSUME RowsOK, NEW m \in Mib
    PROVE  /\ \A n \in Nodes : n.key = m => ecos_shash32_node_search(m) = n.arg
           /\ ecos_shash32_node_search(m) # NULL =>
                [key |-> m, arg |-> ecos_shash32_node_search(m)] \in Nodes
<1> DEFINE q == rows[Row(m)]
           I == {k \in 1 .. Len(q) : q[k].key = m}
<1>1. Row(m) \in 0 .. ROWS - 1 /\ q \in Seq(Node)
  BY RowOf DEF RowsOK
<1>2. DOMAIN q = 1 .. Len(q) /\ Len(q) \in Nat
  BY <1>1, LenProperties
<1>3. CASE I = {}
  <2>1. ecos_shash32_node_search(m) = NULL
    BY <1>2, <1>3 DEF ecos_shash32_node_search
  <2>2. \A n \in Nodes : n.key # m
    BY <1>3, NodesInRows
  <2> QED
    BY <2>1, <2>2
<1>4. ASSUME NEW k \in I
      PROVE  /\ \A n \in Nodes : n.key = m => ecos_shash32_node_search(m) = n.arg
             /\ ecos_shash32_node_search(m) # NULL =>
                  [key |-> m, arg |-> ecos_shash32_node_search(m)] \in Nodes
  <2> DEFINE First(l) == q[l].key = m /\ \A j \in 1 .. l - 1 : q[j].key # m
  <2>1. k \in 1 .. Len(q) /\ q[k].key = m /\ q[k] \in Node
    BY <1>1, <1>4, ElementOfSeq
  <2>2. \A l \in 1 .. Len(q) : q[l].key = m => l = k
    BY <1>1, <2>1 DEF RowsOK
  <2>3. First(k) /\ \A l \in DOMAIN q : First(l) => l = k
    BY <1>2, <2>1, <2>2
  <2>4. ecos_shash32_node_search(m) = q[CHOOSE l \in DOMAIN q : First(l)].arg
    BY <1>2, <2>1 DEF ecos_shash32_node_search
  <2>5. (CHOOSE l \in DOMAIN q : First(l)) = k
    <3> HIDE DEF First
    <3> QED
      BY <1>2, <2>1, <2>3
  <2>6. ecos_shash32_node_search(m) = q[k].arg
    BY <2>4, <2>5
  <2>7. q[k] \in Nodes
    BY <1>1, <2>1, NodesInRows
  <2>8. q[k] = [key |-> m, arg |-> q[k].arg]
    BY <2>1 DEF Node
  <2>9. \A n \in Nodes : n.key = m => n = q[k]
    BY <2>1, <2>7, NodesInRows
  <2> QED
    BY <2>6, <2>7, <2>8, <2>9
<1> QED
  BY <1>3, <1>4

\* ecos_shash32_node_insert of a key that is not there.
LEMMA InsertedOK ==
    ASSUME RowsOK, NEW m \in Mib, NEW a \in Addr, ecos_shash32_node_search(m) = NULL,
           rows' = Inserted(m, a)
    PROVE  RowsOK' /\ Nodes' = Nodes \cup {[key |-> m, arg |-> a]}
<1> DEFINE r == Row(m)
           n0 == [key |-> m, arg |-> a]
           q == rows[r]
<1>1. /\ r \in 0 .. ROWS - 1 /\ q \in Seq(Node) /\ n0 \in Node /\ Len(q) \in Nat
      /\ n0.key = m
  BY RowOf, LenProperties DEF RowsOK, Node
<1>2. \A k \in 1 .. Len(q) : q[k].key # m
  <2> SUFFICES ASSUME NEW k \in 1 .. Len(q), q[k].key = m PROVE FALSE
    OBVIOUS
  <2>1. q[k] \in Nodes
    BY <1>1, NodesInRows
  <2>2. q[k].arg = NULL
    BY <2>1, SearchFinds
  <2>3. q[k] \in Node
    BY <2>1, NodesInRows
  <2> QED
    BY <2>2, <2>3, RegistryAssumption DEF Node
<1>3. /\ rows' \in [0 .. ROWS - 1 -> Seq(Node)] /\ rows'[r] = Append(q, n0)
      /\ \A i \in 0 .. ROWS - 1 : i # r => rows'[i] = rows[i]
  <2>1. Append(q, n0) \in Seq(Node)
    BY <1>1, AppendProperties
  <2> QED
    BY <1>1, <2>1 DEF RowsOK, Inserted
<1>4. /\ Len(rows'[r]) = Len(q) + 1 /\ rows'[r][Len(q) + 1] = n0
      /\ \A k \in 1 .. Len(q) : rows'[r][k] = q[k]
  BY <1>1, <1>3, AppendProperties
<1>5. \A k : k \in 1 .. Len(rows'[r]) <=> k \in 1 .. Len(q) \/ k = Len(q) + 1
  BY <1>1, <1>4
<1> HIDE DEF n0
<1>6. RowsOK'
  <2>1. \A i \in 0 .. ROWS - 1 : \A k \in 1 .. Len(rows'[i]) : Row(rows'[i][k].key) = i
    <3> SUFFICES ASSUME NEW i \in 0 .. ROWS - 1, NEW k \in 1 .. Len(rows'[i])
                 PROVE  Row(rows'[i][k].key) = i
      OBVIOUS
    <3>1. CASE i # r
      BY <1>3, <3>1 DEF RowsOK
    <3>2. CASE i = r /\ k \in 1 .. Len(q)
      BY <1>1, <1>4, <3>2 DEF RowsOK
    <3>3. CASE i = r /\ k = Len(q) + 1
      BY <1>1, <1>4, <3>3
    <3> QED
      BY <1>5, <3>1, <3>2, <3>3
  <2>2. ASSUME NEW i \in 0 .. ROWS - 1, NEW k \in 1 .. Len(rows'[i]), NEW l \in 1 .. Len(rows'[i]),
               rows'[i][k].key = rows'[i][l].key
        PROVE  k = l
    <3>1. CASE i # r
      BY <1>3, <2>2, <3>1 DEF RowsOK
    <3>2. CASE i = r
      <4>1. CASE k \in 1 .. Len(q) /\ l \in 1 .. Len(q)
        BY <1>1, <1>4, <2>2, <3>2, <4>1 DEF RowsOK
      <4>2. CASE k = Len(q) + 1
        <5>1. rows'[r][l].key = m
          BY <1>1, <1>4, <2>2, <3>2, <4>2
        <5> QED
          BY <1>2, <1>4, <1>5, <3>2, <4>2, <5>1
      <4>3. CASE l = Len(q) + 1
        <5>1. rows'[r][k].key = m
          BY <1>1, <1>4, <2>2, <3>2, <4>3
        <5> QED
          BY <1>2, <1>4, <1>5, <3>2, <4>3, <5>1
      <4> QED
        BY <1>5, <3>2, <4>1, <4>2, <4>3
    <3> QED
      BY <3>1, <3>2
  <2> QED
    BY <1>3, <2>1, <2>2 DEF RowsOK, Row
<1>7. ASSUME NEW n PROVE n \in Nodes' <=> n \in Nodes \/ n = n0
  <2>1. n \in Nodes' <=> \E i \in 0 .. ROWS - 1 : \E k \in 1 .. Len(rows'[i]) : rows'[i][k] = n
    <3>1. /\ DOMAIN rows' = 0 .. ROWS - 1
          /\ \A i \in 0 .. ROWS - 1 : DOMAIN rows'[i] = 1 .. Len(rows'[i])
      BY <1>3, LenProperties
    <3> QED
      BY <3>1 DEF Nodes
  <2>2. n \in Nodes <=> \E i \in 0 .. ROWS - 1 : \E k \in 1 .. Len(rows[i]) : rows[i][k] = n
    BY NodesInRows
  <2>3. ASSUME n \in Nodes' PROVE n \in Nodes \/ n = n0
    <3>1. PICK i \in 0 .. ROWS - 1 : \E k \in 1 .. Len(rows'[i]) : rows'[i][k] = n
      BY <2>1, <2>3
    <3>2. PICK k \in 1 .. Len(rows'[i]) : rows'[i][k] = n
      BY <3>1
    <3>3. CASE i # r
      BY <1>3, <2>2, <3>2, <3>3
    <3>4. CASE i = r /\ k \in 1 .. Len(q)
      BY <1>1, <1>4, <2>2, <3>2, <3>4
    <3>5. CASE i = r /\ k = Len(q) + 1
      BY <1>4, <3>2, <3>5
    <3> QED
      BY <1>5, <3>3, <3>4, <3>5
  <2>4. ASSUME n \in Nodes PROVE n \in Nodes'
    <3>1. PICK i \in 0 .. ROWS - 1 : \E k \in 1 .. Len(rows[i]) : rows[i][k] = n
      BY <2>2, <2>4
    <3>2. PICK k \in 1 .. Len(rows[i]) : rows[i][k] = n
      BY <3>1
    <3>3. k \in 1 .. Len(rows'[i]) /\ rows'[i][k] = n
      BY <1>3, <1>4, <1>5, <3>2
    <3> QED
      BY <2>1, <3>3
  <2>5. n = n0 => n \in Nodes'
    BY <1>1, <1>4, <1>5, <2>1
  <2> QED
    BY <2>3, <2>4, <2>5
<1> QED
  BY <1>6, <1>7 DEF n0

\* A sequence without its p-th element.
LEMMA RemoveAtIs ==
    ASSUME NEW S, NEW s \in Seq(S), NEW p \in 1 .. Len(s)
    PROVE  /\ RemoveAt(s, p) \in Seq(S) /\ Len(RemoveAt(s, p)) = Len(s) - 1
           /\ \A i \in 1 .. Len(s) - 1 : RemoveAt(s, p)[i] = IF i < p THEN s[i] ELSE s[i + 1]
<1> DEFINE n == Len(s)
           s1 == SubSeq(s, 1, p - 1)
           s2 == SubSeq(s, p + 1, n)
           t == RemoveAt(s, p)
<1>1. n \in Nat /\ p \in Int /\ 1 <= p /\ p <= n /\ \A i \in 1 .. n : s[i] \in S
  BY LenProperties, ElementOfSeq
<1>2. /\ s1 \in Seq(S) /\ Len(s1) = p - 1 /\ \A i \in 1 .. p - 1 : s1[i] = s[i]
  <2>1. /\ s1 \in Seq(S) /\ Len(s1) = IF 1 <= p - 1 THEN (p - 1) - 1 + 1 ELSE 0
        /\ \A i \in 1 .. (p - 1) - 1 + 1 : s1[i] = s[1 + i - 1]
    <3>1. \A i \in 1 .. p - 1 : s[i] \in S
      BY <1>1
    <3>2. 1 \in Int /\ p - 1 \in Int
      BY <1>1
    <3> QED
      BY <3>1, <3>2, SubSeqProperties
  <2> HIDE DEF s1
  <2>2. (p - 1) - 1 + 1 = p - 1 /\ \A i \in Int : 1 + i - 1 = i
    BY <1>1
  <2>3. Len(s1) = p - 1
    BY <1>1, <2>1
  <2> QED
    BY <2>1, <2>2, <2>3
<1>3. /\ s2 \in Seq(S) /\ Len(s2) = n - p /\ \A i \in 1 .. n - p : s2[i] = s[p + i]
  <2>1. /\ s2 \in Seq(S) /\ Len(s2) = IF p + 1 <= n THEN n - (p + 1) + 1 ELSE 0
        /\ \A i \in 1 .. n - (p + 1) + 1 : s2[i] = s[(p + 1) + i - 1]
    <3>1. \A i \in p + 1 .. n : s[i] \in S
      BY <1>1
    <3>2. p + 1 \in Int /\ n \in Int
      BY <1>1
    <3> QED
      BY <3>1, <3>2, SubSeqProperties
  <2> HIDE DEF s2
  <2>2. Len(s2) = n - p
    BY <1>1, <2>1
  <2>3. ASSUME NEW i \in 1 .. n - p PROVE s2[i] = s[p + i]
    <3>1. i \in 1 .. n - (p + 1) + 1 /\ (p + 1) + i - 1 = p + i
      BY <1>1
    <3> QED
      BY <2>1, <3>1
  <2> QED
    BY <2>1, <2>2, <2>3
<1>4. t = s1 \o s2
  BY DEF RemoveAt
<1> HIDE DEF t, s1, s2
<1>5. Len(s1) + Len(s2) = n - 1
  BY <1>1, <1>2, <1>3
<1>6. /\ t \in Seq(S) /\ Len(t) = Len(s1) + Len(s2)
      /\ \A i \in 1 .. Len(s1) + Len(s2) : t[i] = IF i <= Len(s1) THEN s1[i] ELSE s2[i - Len(s1)]
  BY <1>2, <1>3, <1>4, ConcatProperties
<1>7. ASSUME NEW i \in 1 .. n - 1 PROVE t[i] = IF i < p THEN s[i] ELSE s[i + 1]
  <2>1. CASE i < p
    <3>1. i \in 1 .. p - 1 /\ i <= p - 1
      BY <1>1, <2>1
    <3> QED
      BY <1>2, <1>5, <1>6, <2>1, <3>1
  <2>2. CASE ~(i < p)
    <3> DEFINE k == i - (p - 1)
    <3>1. k \in 1 .. n - p /\ p + k = i + 1 /\ ~(i <= p - 1)
      BY <1>1, <2>2
    <3>2. Len(s1) = p - 1 /\ i \in 1 .. Len(s1) + Len(s2)
      BY <1>2, <1>5
    <3>3. t[i] = s2[k]
      BY <1>6, <3>1, <3>2
    <3> HIDE DEF k
    <3>4. s2[k] = s[p + k]
      BY <1>3, <3>1
    <3> QED
      BY <2>2, <3>1, <3>3, <3>4
  <2> QED
    BY <2>1, <2>2
<1> QED
  BY <1>5, <1>6, <1>7 DEF t

\* ecos_shash32_node_remove of a key that is there.
LEMMA RemovedOK ==
    ASSUME RowsOK, NEW m \in Mib, NEW n0 \in Nodes, n0.key = m, rows' = Removed(m)
    PROVE  RowsOK' /\ Nodes' = Nodes \ {n0}
<1> DEFINE r == Row(m)
           q == rows[r]
<1>1. r \in 0 .. ROWS - 1 /\ q \in Seq(Node) /\ Len(q) \in Nat
  BY RowOf, LenProperties DEF RowsOK
<1>2. PICK p \in 1 .. Len(q) : q[p] = n0
  BY NodesInRows
<1>3. \A k \in 1 .. Len(q) : q[k].key = m <=> k = p
  BY <1>1, <1>2 DEF RowsOK
<1>4. SelectInSeq(q, LAMBDA n : n.key = m) = p
  <2>1. {i \in 1 .. Len(q) : q[i].key = m} = {p}
    BY <1>3
  <2>2. Min({p}) = p
    BY <1>1 DEF Min
  <2> QED
    BY <2>1, <2>2 DEF SelectInSeq
<1>5. RemoveFirstMatch(q, LAMBDA n : n.key = m) = RemoveAt(q, p)
  BY <1>3, <1>4 DEF RemoveFirstMatch
<1> DEFINE t == RemoveAt(q, p)
<1>6. /\ t \in Seq(Node) /\ Len(t) = Len(q) - 1
      /\ \A i \in 1 .. Len(q) - 1 : t[i] = IF i < p THEN q[i] ELSE q[i + 1]
  BY <1>1, RemoveAtIs
<1> HIDE DEF t
<1>7. /\ rows' \in [0 .. ROWS - 1 -> Seq(Node)] /\ rows'[r] = t
      /\ \A i \in 0 .. ROWS - 1 : i # r => rows'[i] = rows[i]
  BY <1>1, <1>5, <1>6 DEF RowsOK, Removed, t
<1> DEFINE old(i) == IF i < p THEN i ELSE i + 1
<1>8. /\ \A i \in 1 .. Len(t) : t[i] = q[old(i)] /\ old(i) \in 1 .. Len(q) /\ old(i) # p
      /\ \A i, j \in 1 .. Len(t) : old(i) = old(j) => i = j
      /\ \A j \in 1 .. Len(q) : j # p => \E i \in 1 .. Len(t) : old(i) = j
  <2>1. \A i \in 1 .. Len(t) : t[i] = q[old(i)] /\ old(i) \in 1 .. Len(q) /\ old(i) # p
    BY <1>1, <1>6
  <2>2. \A i, j \in 1 .. Len(t) : old(i) = old(j) => i = j
    BY <1>1, <1>6
  <2>3. ASSUME NEW j \in 1 .. Len(q), j # p PROVE \E i \in 1 .. Len(t) : old(i) = j
    <3>1. CASE j < p
      BY <1>1, <1>6, <3>1
    <3>2. CASE j > p
      <4>1. j - 1 \in 1 .. Len(t) /\ old(j - 1) = j
        BY <1>1, <1>6, <3>2
      <4> QED
        BY <4>1
    <3> QED
      BY <2>3, <3>1, <3>2
  <2> QED
    BY <2>1, <2>2, <2>3
<1> HIDE DEF old
<1>9. RowsOK'
  <2>1. ASSUME NEW i \in 0 .. ROWS - 1, NEW k \in 1 .. Len(rows'[i])
        PROVE  Row(rows'[i][k].key) = i
    <3>1. CASE i # r
      BY <1>7, <3>1 DEF RowsOK
    <3>2. CASE i = r
      <4>1. rows'[i][k] = q[old(k)] /\ old(k) \in 1 .. Len(q)
        BY <1>7, <1>8, <3>2
      <4> QED
        BY <1>1, <3>2, <4>1 DEF RowsOK
    <3> QED
      BY <3>1, <3>2
  <2>2. ASSUME NEW i \in 0 .. ROWS - 1, NEW k \in 1 .. Len(rows'[i]), NEW l \in 1 .. Len(rows'[i]),
               rows'[i][k].key = rows'[i][l].key
        PROVE  k = l
    <3>1. CASE i # r
      BY <1>7, <2>2, <3>1 DEF RowsOK
    <3>2. CASE i = r
      <4>1. /\ rows'[i][k] = q[old(k)] /\ old(k) \in 1 .. Len(q)
            /\ rows'[i][l] = q[old(l)] /\ old(l) \in 1 .. Len(q)
        BY <1>7, <1>8, <3>2
      <4>2. old(k) = old(l)
        BY <1>1, <2>2, <3>2, <4>1 DEF RowsOK
      <4> QED
        BY <1>7, <1>8, <3>2, <4>2
    <3> QED
      BY <3>1, <3>2
  <2> QED
    BY <1>7, <2>1, <2>2 DEF RowsOK, Row
<1>10. ASSUME NEW n PROVE n \in Nodes' <=> n \in Nodes /\ n # n0
  <2>1. n \in Nodes' <=> \E i \in 0 .. ROWS - 1 : \E k \in 1 .. Len(rows'[i]) : rows'[i][k] = n
    <3>1. /\ DOMAIN rows' = 0 .. ROWS - 1
          /\ \A i \in 0 .. ROWS - 1 : DOMAIN rows'[i] = 1 .. Len(rows'[i])
      BY <1>7, LenProperties
    <3> QED
      BY <3>1 DEF Nodes
  <2>2. n \in Nodes <=> \E i \in 0 .. ROWS - 1 : \E k \in 1 .. Len(rows[i]) : rows[i][k] = n
    BY NodesInRows
  <2>3. ASSUME n \in Nodes' PROVE n \in Nodes /\ n # n0
    <3>1. PICK i \in 0 .. ROWS - 1 : \E k \in 1 .. Len(rows'[i]) : rows'[i][k] = n
      BY <2>1, <2>3
    <3>2. PICK k \in 1 .. Len(rows'[i]) : rows'[i][k] = n
      BY <3>1
    <3>3. CASE i # r
      <4>1. k \in 1 .. Len(rows[i]) /\ rows[i][k] = n
        BY <1>7, <3>2, <3>3
      <4>2. Row(n.key) = i
        BY <4>1 DEF RowsOK
      <4> QED
        BY <2>2, <3>3, <4>1, <4>2
    <3>4. CASE i = r
      <4>1. n = q[old(k)] /\ old(k) \in 1 .. Len(q) /\ old(k) # p
        BY <1>7, <1>8, <3>2, <3>4
      <4>2. n.key # m
        BY <1>3, <4>1
      <4> QED
        BY <1>1, <2>2, <4>1, <4>2
    <3> QED
      BY <3>3, <3>4
  <2>4. ASSUME n \in Nodes, n # n0 PROVE n \in Nodes'
    <3>1. PICK i \in 0 .. ROWS - 1 : \E k \in 1 .. Len(rows[i]) : rows[i][k] = n
      BY <2>2, <2>4
    <3>2. PICK k \in 1 .. Len(rows[i]) : rows[i][k] = n
      BY <3>1
    <3>3. CASE i # r
      BY <1>7, <2>1, <3>2, <3>3
    <3>4. CASE i = r
      <4>1. k \in 1 .. Len(q) /\ k # p
        BY <1>2, <2>4, <3>2, <3>4
      <4>2. PICK j \in 1 .. Len(t) : old(j) = k
        BY <1>8, <4>1
      <4>3. t[j] = n
        BY <1>8, <3>2, <3>4, <4>2
      <4> QED
        BY <1>1, <1>7, <2>1, <4>2, <4>3
    <3> QED
      BY <3>3, <3>4
  <2> QED
    BY <2>3, <2>4
<1> QED
  BY <1>9, <1>10

LEMMA EmptyTable ==
    ASSUME rows' = [i \in 0 .. ROWS - 1 |-> <<>>]
    PROVE  RowsOK' /\ Nodes' = {} /\ Args' = {}
<1>1. \A i \in 0 .. ROWS - 1 : rows'[i] = <<>> /\ Len(rows'[i]) = 0 /\ DOMAIN rows'[i] = {}
  OBVIOUS
<1>2. <<>> \in Seq(Node)
  BY EmptySeq
<1>3. RowsOK'
  BY <1>1, <1>2 DEF RowsOK, Node
<1>4. Nodes' = {}
  BY <1>1 DEF Nodes
<1> QED
  BY <1>3, <1>4 DEF Args

-----------------------------------------------------------------------------
(* The invariant. *)

\* Every allocated registration is a leaked one or one a node points to.
LEMMA ArgsUsed ==
    ASSUME IInv
    PROVE  /\ Args \subseteq Used /\ Used = Args \cup Leaked /\ Args \cap Leaked = {}
           /\ \A n \in Nodes : n.key \in Mib /\ n.arg \in Addr
           /\ \A n, x \in Nodes : n.arg = x.arg => n = x
<1>1. \A n \in Nodes : n.key \in Mib /\ n.arg \in Addr /\ reg[n.arg] # NULL /\ reg[n.arg].mib = n.key
  BY NodesInRows DEF IInv, NodesOK, Node
<1>2. \A n, x \in Nodes : n.arg = x.arg => n = x
  BY <1>1, NodesInRows DEF IInv
<1>3. Args \subseteq Used
  BY <1>1 DEF Args, Used
<1> QED
  BY <1>1, <1>2, <1>3 DEF Leaked

LEMMA NewRegistration ==
    ASSUME NEW m \in Mib, NEW d \in DescOf[m]
    PROVE  [mib |-> m, desc |-> d] \in Registration /\ [mib |-> m, desc |-> d] # NULL
<1>1. d \in Desc
  BY RegistryAssumption
<1>2. [mib |-> m, desc |-> d] \in Registration
  BY <1>1 DEF Registration
<1> QED
  BY <1>2, RegistryAssumption DEF Registration

\* ecos_mib_register of a MIB that is not there: the new registration has a node.
LEMMA RegisterIInv ==
    ASSUME IInv, NEW m \in Mib, NEW d \in DescOf[m], Register(m, d)
    PROVE  IInv'
<1> DEFINE g == [mib |-> m, desc |-> d]
<1>1. PICK a \in Addr : /\ reg[a] = NULL /\ reg' = [reg EXCEPT ![a] = g]
                        /\ rows' = Inserted(m, a)
  BY DEF Register
<1>2. up /\ up' = up /\ failed' = failed /\ ecos_shash32_node_search(m) = NULL
  BY DEF Register
<1> DEFINE n0 == [key |-> m, arg |-> a]
<1>3. RowsOK' /\ Nodes' = Nodes \cup {n0} /\ n0.key = m /\ n0.arg = a
  BY <1>1, <1>2, InsertedOK DEF IInv
<1>4. g \in Registration /\ g # NULL /\ g.mib = m
  BY NewRegistration
<1> HIDE DEF g, n0
<1>5. /\ reg' \in [Addr -> Registration \cup {NULL}] /\ reg'[a] = g
      /\ \A b \in Addr : b # a => reg'[b] = reg[b]
  BY <1>1, <1>4 DEF IInv, NodesOK
<1>6. \A n \in Nodes : n.arg \in Addr /\ n.arg # a /\ reg[n.arg] # NULL /\ reg[n.arg].mib = n.key
  BY <1>1, ArgsUsed DEF IInv, NodesOK
<1>7. NodesOK'
  <2>1. \A n \in Nodes' : reg'[n.arg] # NULL /\ reg'[n.arg].mib = n.key
    BY <1>3, <1>4, <1>5, <1>6
  <2> QED
    BY <1>5, <2>1 DEF NodesOK, Registration
<1>8. Args' = Args \cup {a}
  BY <1>3 DEF Args
<1>9. Used' = Used \cup {a} /\ a \notin Used
  BY <1>1, <1>4, <1>5 DEF Used
<1>10. Leaked' = Leaked
  BY <1>8, <1>9 DEF Leaked
<1>11. LeakOK'
  BY <1>2, <1>8, <1>10, FS_AddElement DEF IInv, LeakOK
<1> QED
  BY <1>2, <1>3, <1>7, <1>11 DEF IInv, ClosedIsEmpty

\* ecos_mib_register of a MIB that is there: the new registration is leaked.
LEMMA RegisterUsedIInv ==
    ASSUME IInv, NEW m \in Mib, NEW d \in DescOf[m], RegisterUsed(m, d)
    PROVE  IInv'
<1> DEFINE g == [mib |-> m, desc |-> d]
<1>1. PICK a \in Addr : reg[a] = NULL /\ reg' = [reg EXCEPT ![a] = g]
  BY DEF RegisterUsed
<1>2. up' = up /\ failed' = failed + 1 /\ rows' = rows /\ order' = order
  BY DEF RegisterUsed
<1>3. g \in Registration /\ g # NULL
  BY NewRegistration
<1> HIDE DEF g
<1>4. Nodes' = Nodes /\ Args' = Args /\ RowsOK'
  <2>1. Nodes' = Nodes
    BY <1>2 DEF Nodes
  <2>2. Args' = Args
    BY <2>1 DEF Args
  <2>3. RowsOK'
    BY <1>2 DEF IInv, RowsOK, Row, Node
  <2> QED
    BY <2>1, <2>2, <2>3
<1>5. /\ reg' \in [Addr -> Registration \cup {NULL}] /\ reg'[a] = g
      /\ \A b \in Addr : b # a => reg'[b] = reg[b]
  BY <1>1, <1>3 DEF IInv, NodesOK
<1>6. \A n \in Nodes : n.arg \in Addr /\ n.arg # a /\ reg[n.arg] # NULL /\ reg[n.arg].mib = n.key
  BY <1>1, ArgsUsed DEF IInv, NodesOK
<1>7. NodesOK'
  <2>1. \A n \in Nodes' : reg'[n.arg] # NULL /\ reg'[n.arg].mib = n.key
    BY <1>4, <1>5, <1>6
  <2> QED
    BY <1>5, <2>1 DEF NodesOK, Registration
<1>8. Used' = Used \cup {a} /\ a \notin Used
  BY <1>1, <1>3, <1>5 DEF Used
<1>9. a \notin Args /\ a \notin Leaked
  BY <1>8, ArgsUsed DEF Leaked
<1>10. Leaked' = Leaked \cup {a}
  BY <1>4, <1>8, <1>9 DEF Leaked
<1>11. IsFiniteSet(Leaked') /\ Cardinality(Leaked') = Cardinality(Leaked) + 1
  BY <1>9, <1>10, FS_AddElement DEF IInv, LeakOK
<1>12. LeakOK'
  BY <1>2, <1>4, <1>11 DEF IInv, LeakOK
<1> QED
  BY <1>2, <1>4, <1>7, <1>12 DEF IInv, ClosedIsEmpty

\* ecos_mib_unregister frees what the node it removes points to, and no other node
\* points to it.
LEMMA UnregisterIInv ==
    ASSUME IInv, NEW m \in Mib, ecos_mib_unregister(m)
    PROVE  IInv'
<1> DEFINE x == ecos_shash32_node_search(m)
           n0 == [key |-> m, arg |-> x]
<1>1. up /\ up' = up /\ failed' = failed /\ order' = order /\ x # NULL
  BY DEF ecos_mib_unregister
<1>2. reg' = [reg EXCEPT ![x] = NULL] /\ rows' = Removed(m)
  BY DEF ecos_mib_unregister
<1>3. n0 \in Nodes /\ n0.key = m /\ n0.arg = x
  BY <1>1, SearchFinds DEF IInv
<1> HIDE DEF x, n0
<1>4. RowsOK' /\ Nodes' = Nodes \ {n0}
  BY <1>2, <1>3, RemovedOK DEF IInv
<1>5. x \in Addr /\ \A n \in Nodes' : n.arg # x /\ n.arg \in Addr /\ n \in Nodes
  BY <1>3, <1>4, ArgsUsed
<1>6. /\ reg' \in [Addr -> Registration \cup {NULL}] /\ reg'[x] = NULL
      /\ \A b \in Addr : b # x => reg'[b] = reg[b]
  BY <1>2, <1>5 DEF IInv, NodesOK
<1>7. NodesOK'
  <2>1. \A n \in Nodes' : reg'[n.arg] # NULL /\ reg'[n.arg].mib = n.key
    BY <1>5, <1>6 DEF IInv, NodesOK
  <2> QED
    BY <1>6, <2>1 DEF NodesOK, Registration
<1>8. Args' = Args \ {x} /\ x \in Args
  BY <1>3, <1>4, <1>5 DEF Args
<1>9. Used' = Used \ {x}
  BY <1>5, <1>6 DEF Used
<1>10. Leaked' = Leaked
  BY <1>8, <1>9 DEF Leaked
<1>11. LeakOK'
  BY <1>1, <1>8, <1>10, FS_RemoveElement DEF IInv, LeakOK
<1> QED
  BY <1>1, <1>4, <1>7, <1>11 DEF IInv, ClosedIsEmpty

\* ecos_mib_reg_free leaves what was leaked, and nothing else.
LEMMA FreeIInv ==
    ASSUME IInv, ecos_mib_reg_free
    PROVE  IInv'
<1>1. /\ up' = FALSE /\ order' = <<>> /\ failed' = failed
      /\ rows' = [i \in 0 .. ROWS - 1 |-> <<>>]
  BY DEF ecos_mib_reg_free
<1>2. \A a : a \in Args <=> \E i \in DOMAIN rows : \E k \in DOMAIN rows[i] : rows[i][k].arg = a
  BY DEF Args, Nodes
<1>3. reg' = [a \in Addr |-> IF a \in Args THEN NULL ELSE reg[a]]
  BY <1>2 DEF ecos_mib_reg_free
<1>4. RowsOK' /\ Nodes' = {} /\ Args' = {}
  BY <1>1, EmptyTable
<1>5. reg' \in [Addr -> Registration \cup {NULL}]
  BY <1>3 DEF IInv, NodesOK
<1>6. Leaked' = Leaked
  BY <1>3, <1>4 DEF Leaked, Used
<1>7. NodesOK'
  BY <1>4, <1>5 DEF NodesOK, Registration
<1>8. LeakOK'
  BY <1>1, <1>4, <1>6, FS_EmptySet DEF IInv, LeakOK
<1> QED
  BY <1>1, <1>4, <1>7, <1>8 DEF IInv, ClosedIsEmpty

\* A process that starts has nothing allocated.
LEMMA StartIInv ==
    ASSUME up' = FALSE, rows' = [i \in 0 .. ROWS - 1 |-> <<>>], reg' = [a \in Addr |-> NULL],
           order' = <<>>, failed' = 0
    PROVE  IInv'
<1>1. RowsOK' /\ Nodes' = {} /\ Args' = {}
  BY EmptyTable
<1>2. Used' = {} /\ Leaked' = {}
  BY DEF Used, Leaked
<1>3. NodesOK'
  BY <1>1 DEF NodesOK, Registration
<1>4. LeakOK'
  BY <1>1, <1>2, FS_EmptySet DEF LeakOK
<1> QED
  BY <1>1, <1>3, <1>4 DEF IInv, ClosedIsEmpty

\* What does not touch the registry.
LEMMA SameRegistry ==
    ASSUME IInv, UNCHANGED registry
    PROVE  IInv'
<1>1. Nodes' = Nodes /\ Args' = Args /\ Leaked' = Leaked
  BY DEF registry, Nodes, Args, Leaked, Used
<1> QED
  BY <1>1, ZenonT(60) DEF IInv, registry, RowsOK, NodesOK, LeakOK, ClosedIsEmpty, Row, Node, Registration

LEMMA NextIInv ==
    ASSUME IInv, [Next]_vars
    PROVE  IInv'
<1>1. CASE ecos_mib_reg_init
  <2>1. /\ ~up /\ up' = TRUE /\ order' = <<>> /\ UNCHANGED <<reg, failed>>
        /\ rows' = [i \in 0 .. ROWS - 1 |-> <<>>]
    BY <1>1 DEF ecos_mib_reg_init
  <2>2. Nodes = {} /\ Args = {}
    BY <2>1 DEF IInv, ClosedIsEmpty, Args
  <2>3. RowsOK' /\ Nodes' = {} /\ Args' = {}
    BY <2>1, EmptyTable
  <2>4. NodesOK'
    BY <2>1, <2>3 DEF IInv, NodesOK, Registration
  <2>5. LeakOK'
    BY <2>1, <2>2, <2>3 DEF IInv, LeakOK, Leaked, Used
  <2> QED
    BY <2>1, <2>3, <2>4, <2>5 DEF IInv, ClosedIsEmpty
<1>2. CASE ecos_mib_reg_free
  BY <1>2, FreeIInv
<1>3. CASE SaveFile \/ Load \/ \E m \in Mib : Write(m)
  <2>1. UNCHANGED registry
    BY <1>3 DEF SaveFile, Load, LoadOpen, LoadKeyLine, LoadValLine, LoadOtherLine, LoadEnd, Write
  <2> QED
    BY <2>1, SameRegistry
<1>4. CASE Restart
  BY <1>4, StartIInv DEF Restart
<1>5. ASSUME NEW m \in Mib, ecos_mib_unregister(m) PROVE IInv'
  BY <1>5, UnregisterIInv
<1>6. ASSUME NEW m \in Mib, NEW d \in DescOf[m], Register(m, d) PROVE IInv'
  BY <1>6, RegisterIInv
<1>7. ASSUME NEW m \in Mib, NEW d \in DescOf[m], RegisterUsed(m, d) PROVE IInv'
  BY <1>7, RegisterUsedIInv
<1>8. CASE UNCHANGED vars
  <2>1. UNCHANGED registry
    BY <1>8 DEF vars
  <2> QED
    BY <2>1, SameRegistry
<1> QED
  BY <1>1, <1>2, <1>3, <1>4, <1>5, <1>6, <1>7, <1>8 DEF Next

LEMMA InitIInv ==
    ASSUME Init
    PROVE  IInv
<1>1. /\ up = FALSE /\ order = <<>> /\ failed = 0
      /\ \A i \in 0 .. ROWS - 1 : rows[i] = <<>> /\ Len(rows[i]) = 0 /\ DOMAIN rows[i] = {}
      /\ DOMAIN rows = 0 .. ROWS - 1 /\ reg = [a \in Addr |-> NULL]
  BY DEF Init
<1>2. rows \in [0 .. ROWS - 1 -> Seq(Node)]
  <2>1. <<>> \in Seq(Node)
    BY EmptySeq
  <2> QED
    BY <2>1 DEF Init
<1>3. RowsOK
  BY <1>1, <1>2 DEF RowsOK
<1>4. Nodes = {} /\ Args = {}
  BY <1>1 DEF Nodes, Args
<1>5. Leaked = {}
  BY <1>1 DEF Leaked, Used
<1>6. NodesOK
  BY <1>1, <1>4 DEF NodesOK
<1>7. LeakOK
  BY <1>1, <1>4, <1>5, FS_EmptySet DEF LeakOK
<1> QED
  BY <1>1, <1>3, <1>4, <1>6, <1>7 DEF IInv, ClosedIsEmpty

LEMMA Invariance == Spec => []IInv
<1>1. Init => IInv
  BY InitIInv
<1>2. IInv /\ [Next]_vars => IInv'
  BY NextIInv
<1> QED
  BY <1>1, <1>2, PTL DEF Spec

\* As many registrations as nodes have a node.
LEMMA NodesAreArgs ==
    ASSUME IInv
    PROVE  IsFiniteSet(Nodes) /\ Cardinality(Nodes) = Cardinality(Args)
<1> DEFINE f == [a \in Args |-> CHOOSE n \in Nodes : n.arg = a]
<1>1. \A a \in Args : \E n \in Nodes : n.arg = a
  BY DEF Args
<1>2. \A a \in Args : f[a] \in Nodes /\ f[a].arg = a
  BY <1>1
<1>3. f \in [Args -> Nodes]
  BY <1>2
<1>4. \A n \in Nodes : n.arg \in Args /\ f[n.arg] = n
  <2>1. \A n \in Nodes : n.arg \in Args
    BY DEF Args
  <2> HIDE DEF f
  <2> QED
    BY <1>2, <2>1, ArgsUsed
<1> HIDE DEF f
<1>5. f \in Bijection(Args, Nodes)
  BY <1>2, <1>3, <1>4 DEF Bijection, Injection, Surjection, IsInjective
<1>6. ExistsBijection(Args, Nodes)
  BY <1>5 DEF ExistsBijection
<1> QED
  BY <1>6, FS_Bijection DEF IInv, LeakOK

\* Nothing but the registrations that failed is ever leaked, and nothing is freed
\* while a node points to it (ecos_mib_reg.c), for any number of MIBs, rows,
\* addresses and calls.
THEOREM NothingElseLeaks == Spec => []OnlyFailedLeak
<1>1. IInv => OnlyFailedLeak
  <2> SUFFICES ASSUME IInv PROVE OnlyFailedLeak
    OBVIOUS
  <2>1. \A n \in Nodes : reg[n.arg] # NULL /\ reg[n.arg].mib = n.key
    BY DEF IInv, NodesOK
  <2>2. Used = Args \cup Leaked /\ Args \cap Leaked = {}
    BY ArgsUsed
  <2>3. IsFiniteSet(Args) /\ IsFiniteSet(Leaked) /\ Cardinality(Leaked) = failed /\ failed \in Nat
    BY DEF IInv, LeakOK
  <2>4. Cardinality(Used) = Cardinality(Args) + Cardinality(Leaked) - Cardinality(Args \cap Leaked)
    BY <2>2, <2>3, FS_Union
  <2>5. Cardinality(Args) \in Nat /\ Cardinality({}) = 0
    BY <2>3, FS_CardinalityType, FS_EmptySet
  <2>6. Cardinality(Used) = Cardinality(Nodes) + failed
    <3>1. Cardinality(Args \cap Leaked) = 0 /\ Cardinality(Nodes) = Cardinality(Args)
      BY <2>2, <2>5, NodesAreArgs
    <3> QED
      BY <2>3, <2>4, <2>5, <3>1
  <2> QED
    BY <2>1, <2>6 DEF OnlyFailedLeak, Used
<1> QED
  BY <1>1, Invariance, PTL

-----------------------------------------------------------------------------
(* The hash table implements the map. *)

\* The map that MibMap sees, in terms of nodes.
Registered == {n \in Mib : ecos_shash32_node_search(n) # NULL}
AbsMap == [m \in Registered |-> reg[ecos_shash32_node_search(m)].desc]

\* What is registered is the keys of the nodes, and described by what they point to.
AbsIsNodes ==
    /\ \A m : m \in Registered <=> \E n \in Nodes : n.key = m
    /\ \A n \in Nodes : n.key \in Registered /\ AbsMap[n.key] = reg[n.arg].desc
    /\ \A n, x \in Nodes : n.key = x.key => n = x

LEMMA AbsNodes == RowsOK => AbsIsNodes
<1> SUFFICES ASSUME RowsOK PROVE AbsIsNodes
  OBVIOUS
<1>1. \A n \in Nodes : n.key \in Mib /\ n.arg \in Addr /\ n.arg # NULL
  BY NodesInRows, RegistryAssumption DEF Node
<1>2. \A n \in Nodes : ecos_shash32_node_search(n.key) = n.arg
  BY <1>1, SearchFinds
<1>3. \A n \in Nodes : n.key \in Registered
  BY <1>1, <1>2 DEF Registered
<1>4. ASSUME NEW m \in Registered PROVE \E n \in Nodes : n.key = m
  <2>1. m \in Mib /\ ecos_shash32_node_search(m) # NULL
    BY DEF Registered
  <2>2. [key |-> m, arg |-> ecos_shash32_node_search(m)] \in Nodes
    BY <2>1, SearchFinds
  <2> QED
    BY <2>2
<1> QED
  BY <1>2, <1>3, <1>4, NodesInRows DEF AbsMap, AbsIsNodes

LEMMA AbsNodesPrimed == RowsOK' => AbsIsNodes'
  BY AbsNodes, PTL

LEMMA AbsEmpty ==
    ASSUME Nodes = {}, RowsOK
    PROVE  AbsMap = [m \in {} |-> {}]
<1>1. Registered = {}
  BY AbsNodes DEF AbsIsNodes
<1> QED
  BY <1>1 DEF AbsMap

LEMMA AbsEmptyPrimed ==
    ASSUME Nodes' = {}, RowsOK'
    PROVE  AbsMap' = [m \in {} |-> {}]
<1>1. Registered' = {}
  BY AbsNodesPrimed DEF AbsIsNodes
<1>2. AbsMap' = [m \in Registered' |-> reg'[ecos_shash32_node_search(m)'].desc]
  BY DEF AbsMap
<1> QED
  BY <1>1, <1>2

\* A map that keeps its nodes and what they point to.
LEMMA AbsSame ==
    ASSUME IInv, RowsOK', Nodes' = Nodes, \A n \in Nodes : reg'[n.arg] = reg[n.arg]
    PROVE  AbsMap' = AbsMap
<1>1. AbsIsNodes /\ AbsIsNodes'
  BY AbsNodes, AbsNodesPrimed DEF IInv
<1>2. Registered' = Registered
  BY <1>1 DEF AbsIsNodes
<1>3. AbsMap = [m \in Registered |-> AbsMap[m]] /\ AbsMap' = [m \in Registered' |-> AbsMap'[m]]
  BY DEF AbsMap
<1>4. ASSUME NEW m \in Registered PROVE AbsMap'[m] = AbsMap[m]
  <2>1. PICK n \in Nodes : n.key = m
    BY <1>1 DEF AbsIsNodes
  <2> QED
    BY <1>1, <2>1 DEF AbsIsNodes
<1> QED
  BY <1>2, <1>3, <1>4

LEMMA RegisterRefines ==
    ASSUME IInv, NEW m \in Mib, NEW d \in DescOf[m], Register(m, d)
    PROVE  /\ m \notin Registered /\ d \in Desc
           /\ AbsMap' = [n \in Registered \cup {m} |-> IF n = m THEN d ELSE AbsMap[n]]
<1> DEFINE g == [mib |-> m, desc |-> d]
<1>1. PICK a \in Addr : /\ reg[a] = NULL /\ reg' = [reg EXCEPT ![a] = g]
                        /\ rows' = Inserted(m, a)
  BY DEF Register
<1>2. ecos_shash32_node_search(m) = NULL
  BY DEF Register
<1> DEFINE n0 == [key |-> m, arg |-> a]
<1>3. RowsOK' /\ Nodes' = Nodes \cup {n0} /\ n0.key = m /\ n0.arg = a
  BY <1>1, <1>2, InsertedOK DEF IInv
<1>4. g.desc = d
  OBVIOUS
<1> HIDE DEF g, n0
<1>5. reg'[a] = g /\ \A n \in Nodes : reg'[n.arg] = reg[n.arg]
  <2>1. \A n \in Nodes : n.arg \in Addr /\ n.arg # a
    BY <1>1, ArgsUsed DEF IInv, NodesOK
  <2> QED
    BY <1>1, <2>1 DEF IInv, NodesOK
<1>6. AbsIsNodes /\ AbsIsNodes'
  BY <1>3, AbsNodes, AbsNodesPrimed DEF IInv
<1>7. m \notin Registered
  BY <1>2 DEF Registered
<1>8. Registered' = Registered \cup {m}
  BY <1>3, <1>6 DEF AbsIsNodes
<1>9. AbsMap' = [n \in Registered' |-> AbsMap'[n]]
  BY DEF AbsMap
<1>10. AbsMap'[m] = d
  BY <1>3, <1>4, <1>5, <1>6 DEF AbsIsNodes
<1>11. ASSUME NEW k \in Registered PROVE AbsMap'[k] = AbsMap[k]
  <2>1. PICK n \in Nodes : n.key = k
    BY <1>6 DEF AbsIsNodes
  <2>2. n \in Nodes'
    BY <1>3
  <2> QED
    BY <1>5, <1>6, <2>1, <2>2 DEF AbsIsNodes
<1>12. d \in Desc
  BY RegistryAssumption
<1> QED
  BY <1>7, <1>8, <1>9, <1>10, <1>11, <1>12

LEMMA UnregisterRefines ==
    ASSUME IInv, NEW m \in Mib, ecos_mib_unregister(m)
    PROVE  m \in Registered /\ AbsMap' = [n \in Registered \ {m} |-> AbsMap[n]]
<1> DEFINE x == ecos_shash32_node_search(m)
           n0 == [key |-> m, arg |-> x]
<1>1. x # NULL /\ reg' = [reg EXCEPT ![x] = NULL] /\ rows' = Removed(m)
  BY DEF ecos_mib_unregister
<1>2. n0 \in Nodes /\ n0.key = m /\ n0.arg = x
  BY <1>1, SearchFinds DEF IInv
<1> HIDE DEF x, n0
<1>3. RowsOK' /\ Nodes' = Nodes \ {n0}
  BY <1>1, <1>2, RemovedOK DEF IInv
<1>4. \A n \in Nodes' : reg'[n.arg] = reg[n.arg]
  <2>1. \A n \in Nodes' : n.arg # x /\ n.arg \in Addr
    BY <1>2, <1>3, ArgsUsed
  <2> QED
    BY <1>1, <2>1 DEF IInv, NodesOK
<1>5. AbsIsNodes /\ AbsIsNodes'
  BY <1>3, AbsNodes, AbsNodesPrimed DEF IInv
<1>6. m \in Registered
  BY <1>2, <1>5 DEF AbsIsNodes
<1>7. Registered' = Registered \ {m}
  BY <1>2, <1>3, <1>5 DEF AbsIsNodes
<1>8. AbsMap' = [n \in Registered' |-> AbsMap'[n]]
  BY DEF AbsMap
<1>9. ASSUME NEW k \in Registered' PROVE AbsMap'[k] = AbsMap[k]
  <2>1. PICK n \in Nodes' : n.key = k
    BY <1>5 DEF AbsIsNodes
  <2>2. n \in Nodes
    BY <1>3, <2>1
  <2> QED
    BY <1>4, <1>5, <2>1, <2>2 DEF AbsIsNodes
<1> QED
  BY <1>6, <1>7, <1>8, <1>9

\* The chained hash table, with addresses that are allocated and freed and a list of
\* the registration order, is the map of MibMap: a MIB is found exactly when it is
\* registered and with its own description, whatever collides with it.
THEOREM TableImplementsMap == Spec => ImplementsMap
<1>1. Init => Map!Init
  <2> SUFFICES ASSUME Init PROVE Map!Init
    OBVIOUS
  <2>1. IInv /\ ~up /\ order = <<>>
    BY InitIInv DEF Init
  <2>2. AbsMap = [m \in {} |-> {}]
    BY <2>1, AbsEmpty DEF IInv, ClosedIsEmpty
  <2> QED
    BY <2>1, <2>2 DEF Map!Init, AbsMap, Registered
<1>2. ASSUME IInv, [Next]_vars PROVE [Map!Next]_(Map!vars)
  <2>0. DOMAIN AbsMap = Registered
    BY DEF AbsMap
  <2>1. CASE AbsMap' = AbsMap /\ UNCHANGED <<up, order>>
    BY <2>1 DEF Map!vars, AbsMap, Registered
  <2>2. CASE ecos_mib_reg_init
    <3>1. ~up /\ up' = TRUE /\ order' = <<>> /\ rows' = [i \in 0 .. ROWS - 1 |-> <<>>]
      BY <2>2 DEF ecos_mib_reg_init
    <3>2. order' = order /\ AbsMap = [m \in {} |-> {}]
      BY <1>2, <3>1, AbsEmpty DEF IInv, ClosedIsEmpty
    <3>3. AbsMap' = AbsMap
      BY <3>1, <3>2, EmptyTable, AbsEmptyPrimed
    <3>4. Map!Open
      BY <3>1, <3>2, <3>3 DEF Map!Open, AbsMap, Registered
    <3> QED
      BY <3>4 DEF Map!Next
  <2>3. CASE ecos_mib_reg_free \/ (Restart /\ up)
    <3>1. up /\ up' = FALSE /\ order' = <<>> /\ rows' = [i \in 0 .. ROWS - 1 |-> <<>>]
      BY <2>3 DEF ecos_mib_reg_free, Restart
    <3>2. AbsMap' = [m \in {} |-> {}]
      BY <3>1, EmptyTable, AbsEmptyPrimed
    <3>3. Map!Close
      BY <3>1, <3>2 DEF Map!Close, AbsMap, Registered
    <3> QED
      BY <3>3 DEF Map!Next
  <2>4. CASE Restart /\ ~up
    <3>1. /\ up' = FALSE /\ up = FALSE /\ order' = <<>> /\ order = <<>> /\ Nodes = {} /\ RowsOK
          /\ rows' = [i \in 0 .. ROWS - 1 |-> <<>>]
      BY <1>2, <2>4 DEF Restart, IInv, ClosedIsEmpty
    <3>2. AbsMap' = AbsMap
      BY <3>1, EmptyTable, AbsEmpty, AbsEmptyPrimed
    <3> QED
      BY <2>1, <3>1, <3>2
  <2>5. CASE UNCHANGED registry
    <3>1. Nodes' = Nodes /\ RowsOK' /\ UNCHANGED <<up, order, reg>>
      BY <1>2, <2>5, SameRegistry DEF registry, Nodes, IInv
    <3>2. AbsMap' = AbsMap
      BY <1>2, <3>1, AbsSame
    <3> QED
      BY <2>1, <3>1, <3>2
  <2>6. ASSUME NEW m \in Mib, NEW d \in DescOf[m], RegisterUsed(m, d)
        PROVE  [Map!Next]_(Map!vars)
    <3>1. PICK a \in Addr : reg[a] = NULL /\ reg' = [reg EXCEPT ![a] = [mib |-> m, desc |-> d]]
      BY <2>6 DEF RegisterUsed
    <3>2. UNCHANGED <<up, rows, order>>
      BY <2>6 DEF RegisterUsed
    <3>3. Nodes' = Nodes /\ RowsOK'
      BY <1>2, <3>2, RegisterUsedIInv, <2>6 DEF Nodes, IInv
    <3>4. \A n \in Nodes : reg'[n.arg] = reg[n.arg]
      BY <1>2, <3>1, ArgsUsed DEF IInv, NodesOK
    <3>5. AbsMap' = AbsMap
      BY <1>2, <3>3, <3>4, AbsSame
    <3> QED
      BY <2>1, <3>2, <3>5
  <2>7. ASSUME NEW m \in Mib, NEW d \in DescOf[m], Register(m, d)
        PROVE  [Map!Next]_(Map!vars)
    <3>1. /\ m \notin Registered /\ d \in Desc
          /\ AbsMap' = [n \in Registered \cup {m} |-> IF n = m THEN d ELSE AbsMap[n]]
      BY <1>2, <2>7, RegisterRefines
    <3>2. /\ up /\ up' = up
          /\ order' = IF m \in ToSet(order) THEN order ELSE Append(order, m)
      BY <2>7 DEF Register, add_mib_register_order
    <3>3. Map!ToSet(order) = ToSet(order)
      BY DEF Map!ToSet, ToSet
    <3>4. /\ m \notin DOMAIN AbsMap
          /\ AbsMap' = [n \in DOMAIN AbsMap \cup {m} |-> IF n = m THEN d ELSE AbsMap[n]]
      BY <2>0, <3>1
    <3>5. order' = IF m \in Map!ToSet(order) THEN order ELSE Append(order, m)
      BY <3>2, <3>3
    <3>6. Map!Register(m, d)
      BY <3>2, <3>4, <3>5, Zenon DEF Map!Register, AbsMap, Registered
    <3> QED
      BY <3>1, <3>6 DEF Map!Next
  <2>8. ASSUME NEW m \in Mib, ecos_mib_unregister(m) PROVE [Map!Next]_(Map!vars)
    <3>1. m \in Registered /\ AbsMap' = [n \in Registered \ {m} |-> AbsMap[n]]
      BY <1>2, <2>8, UnregisterRefines
    <3>2. UNCHANGED <<up, order>>
      BY <2>8 DEF ecos_mib_unregister
    <3>3. Map!Unregister(m)
      BY <2>0, <3>1, <3>2 DEF Map!Unregister, AbsMap, Registered, Map!Restrict
    <3> QED
      BY <3>3 DEF Map!Next
  <2>9. (SaveFile \/ Load \/ (\E m \in Mib : Write(m)) \/ UNCHANGED vars) => UNCHANGED registry
    BY DEF SaveFile, Load, LoadOpen, LoadKeyLine, LoadValLine, LoadOtherLine, LoadEnd, Write, vars
  <2> QED
    BY <1>2, <2>2, <2>3, <2>4, <2>5, <2>6, <2>7, <2>8, <2>9 DEF Next
<1> QED
  BY <1>1, <1>2, Invariance, PTL DEF Spec, ImplementsMap, Map!Spec

-----------------------------------------------------------------------------
(* Sequences of sequences. *)

\* Induction over the natural numbers, for a set.
LEMMA SetInduction ==
    ASSUME NEW T, T \subseteq Nat, 0 \in T, \A n \in T : n + 1 \in T
    PROVE  T = Nat
<1> SUFFICES ASSUME Nat \ T # {} PROVE FALSE
  OBVIOUS
<1>1. PICK x \in Nat \ T : \A y \in Nat \ T : ~(<<y, x>> \in OpToRel(<, Nat))
  BY NatLessThanWellFounded, WFMin
<1>2. x # 0 /\ x - 1 \in Nat
  OBVIOUS
<1>3. x - 1 \in T
  <2>1. <<x - 1, x>> \in {ss \in Nat \X Nat : ss[1] < ss[2]}
    BY <1>2
  <2>2. <<x - 1, x>> \in OpToRel(<, Nat)
    BY <2>1, Zenon DEF OpToRel
  <2> QED
    BY <1>1, <1>2, <2>2
<1> QED
  BY <1>2, <1>3

\* The parts of FlattenSeq(seqs): what its first i sequences give.
Parts(seqs, n, fl) ==
    /\ fl[0] = <<>>
    /\ \A i \in 1 .. n : fl[i] = fl[i - 1] \o seqs[i]

LEMMA PartsExist ==
    ASSUME NEW S, NEW n \in Nat, NEW seqs \in [1 .. n -> Seq(S)]
    PROVE  \E fl \in [0 .. n -> Seq(S)] : Parts(seqs, n, fl)
<1> DEFINE T == {k \in Nat : k <= n => \E h \in [0 .. k -> Seq(S)] : Parts(seqs, k, h)}
<1>1. 0 \in T
  <2> DEFINE h == [i \in 0 .. 0 |-> <<>>]
  <2>1. h \in [0 .. 0 -> Seq(S)]
    BY EmptySeq
  <2>2. Parts(seqs, 0, h)
    BY DEF Parts
  <2> QED
    BY <2>1, <2>2
<1>2. ASSUME NEW k \in T PROVE k + 1 \in T
  <2> SUFFICES ASSUME k + 1 <= n PROVE \E g \in [0 .. k + 1 -> Seq(S)] : Parts(seqs, k + 1, g)
    BY <1>2
  <2>1. PICK h \in [0 .. k -> Seq(S)] : Parts(seqs, k, h)
    BY <1>2
  <2>2. k + 1 \in 1 .. n /\ k \in 0 .. k /\ seqs[k + 1] \in Seq(S) /\ h[k] \in Seq(S)
    BY <1>2, <2>1
  <2> DEFINE x == h[k] \o seqs[k + 1]
             g == [i \in 0 .. k + 1 |-> IF i = k + 1 THEN x ELSE h[i]]
  <2>3. x \in Seq(S)
    BY <2>2, ConcatProperties
  <2> HIDE DEF x
  <2>4. g \in [0 .. k + 1 -> Seq(S)]
    BY <1>2, <2>1, <2>3
  <2>5. g[0] = <<>>
    BY <1>2, <2>1 DEF Parts
  <2>6. ASSUME NEW i \in 1 .. k + 1 PROVE g[i] = g[i - 1] \o seqs[i]
    <3>1. CASE i = k + 1
      <4>1. g[i] = x /\ i - 1 = k
        BY <1>2, <3>1
      <4>2. k \in 0 .. k + 1 /\ k # k + 1
        BY <1>2
      <4>3. g[k] = h[k]
        BY <4>2
      <4> QED
        BY <3>1, <4>1, <4>3 DEF x
    <3>2. CASE i # k + 1
      <4>1. i \in 1 .. k /\ g[i] = h[i] /\ g[i - 1] = h[i - 1]
        BY <1>2, <3>2
      <4> QED
        BY <2>1, <4>1 DEF Parts
    <3> QED
      BY <3>1, <3>2
  <2> HIDE DEF g
  <2>7. Parts(seqs, k + 1, g)
    BY <2>5, <2>6 DEF Parts
  <2> QED
    BY <2>4, <2>7
<1>3. n \in T
  <2> HIDE DEF T
  <2>1. T \subseteq Nat
    BY DEF T
  <2> QED
    BY <1>1, <1>2, <2>1, SetInduction
<1> QED
  BY <1>3

LEMMA FlattenIsParts ==
    ASSUME NEW S, NEW n \in Nat, NEW seqs \in [1 .. n -> Seq(S)],
           NEW fl \in [0 .. n -> Seq(S)], Parts(seqs, n, fl)
    PROVE  FlattenSeq(seqs) = fl[n]
<1>1. Len(seqs) = n /\ DOMAIN seqs = 1 .. n
  OBVIOUS
<1>2. CASE n = 0
  <2>1. seqs = <<>>
    BY <1>1, <1>2
  <2> QED
    BY <1>1, <1>2, <2>1 DEF FlattenSeq, Parts
<1>3. CASE n # 0
  <2> DEFINE Step(h, i) == IF i = 1 THEN seqs[i] ELSE h[i - 1] \o seqs[i]
             f == CHOOSE h : h = [i \in 1 .. n |-> Step(h, i)]
  <2>1. FlattenSeq(seqs) = f[n]
    BY <1>1, <1>3 DEF FlattenSeq
  <2>2. fl[1] = seqs[1]
    <3>1. 1 \in 1 .. n /\ seqs[1] \in Seq(S)
      BY <1>3
    <3>2. fl[1] = fl[1 - 1] \o seqs[1]
      BY <3>1 DEF Parts
    <3>3. 1 - 1 = 0 /\ fl[0] = <<>>
      BY DEF Parts
    <3>4. fl[1] = <<>> \o seqs[1]
      BY <3>2, <3>3
    <3> QED
      BY <3>1, <3>4, ConcatEmptySeq
  <2>3. \E h : h = [i \in 1 .. n |-> Step(h, i)]
    <3> DEFINE g == [i \in 1 .. n |-> fl[i]]
    <3>1. ASSUME NEW i \in 1 .. n PROVE g[i] = Step(g, i)
      <4>1. CASE i = 1
        BY <2>2, <4>1
      <4>2. CASE i # 1
        <5>1. i - 1 \in 1 .. n
          BY <4>2
        <5> QED
          BY <4>2, <5>1 DEF Parts
      <4> QED
        BY <4>1, <4>2
    <3>2. g = [i \in 1 .. n |-> g[i]]
      OBVIOUS
    <3> HIDE DEF g, Step
    <3>3. g = [i \in 1 .. n |-> Step(g, i)]
      BY <3>1, <3>2
    <3> QED
      BY <3>3
  <2>4. f = [i \in 1 .. n |-> Step(f, i)]
    <3> HIDE DEF Step
    <3> QED
      BY <2>3
  <2> HIDE DEF f
  <2>5. \A i \in 1 .. n : f[i] = IF i = 1 THEN seqs[i] ELSE f[i - 1] \o seqs[i]
    BY <2>4
  <2> DEFINE T == {k \in Nat : k + 1 <= n => f[k + 1] = fl[k + 1]}
  <2>6. 0 \in T
    BY <1>3, <2>2, <2>5
  <2>7. ASSUME NEW k \in T PROVE k + 1 \in T
    <3> SUFFICES ASSUME k + 2 <= n PROVE f[k + 2] = fl[k + 2]
      BY <2>7
    <3>1. k + 2 \in 1 .. n /\ k + 2 # 1 /\ (k + 2) - 1 = k + 1 /\ f[k + 1] = fl[k + 1]
      BY <2>7
    <3>2. f[k + 2] = f[k + 1] \o seqs[k + 2]
      BY <2>5, <3>1
    <3>3. fl[k + 2] = fl[k + 1] \o seqs[k + 2]
      BY <3>1 DEF Parts
    <3> QED
      BY <3>1, <3>2, <3>3
  <2>8. n - 1 \in T
    <3> HIDE DEF T
    <3>1. T \subseteq Nat /\ n - 1 \in Nat
      BY <1>3 DEF T
    <3> QED
      BY <2>6, <2>7, <3>1, SetInduction
  <2> QED
    BY <1>3, <2>1, <2>8
<1> QED
  BY <1>2, <1>3

\* u is s and then t.
IsConcat(u, s, t) ==
    /\ Len(s) \in Nat /\ Len(t) \in Nat /\ Len(u) = Len(s) + Len(t)
    /\ \A l \in 1 .. Len(s) : l \in 1 .. Len(u) /\ u[l] = s[l]
    /\ \A l \in 1 .. Len(t) : Len(s) + l \in 1 .. Len(u) /\ u[Len(s) + l] = t[l]
    /\ \A l \in 1 .. Len(u) : l \in 1 .. Len(s) \/ \E k \in 1 .. Len(t) : l = Len(s) + k

LEMMA ConcatAt ==
    ASSUME NEW S, NEW s \in Seq(S), NEW t \in Seq(S)
    PROVE  s \o t \in Seq(S) /\ IsConcat(s \o t, s, t)
<1> DEFINE a == Len(s)
           b == Len(t)
           u == s \o t
<1>1. a \in Nat /\ b \in Nat
  BY LenProperties
<1>2. /\ u \in Seq(S) /\ Len(u) = a + b
      /\ \A l \in 1 .. a + b : u[l] = IF l <= a THEN s[l] ELSE t[l - a]
  BY ConcatProperties
<1> HIDE DEF a, b, u
<1>3. \A l \in 1 .. a : l \in 1 .. a + b /\ u[l] = s[l]
  BY <1>1, <1>2
<1>4. ASSUME NEW l \in 1 .. b PROVE a + l \in 1 .. a + b /\ u[a + l] = t[l]
  <2>1. a + l \in 1 .. a + b /\ ~(a + l <= a) /\ (a + l) - a = l
    BY <1>1
  <2> QED
    BY <1>2, <2>1
<1>5. ASSUME NEW l \in 1 .. a + b, l \notin 1 .. a PROVE \E k \in 1 .. b : l = a + k
  <2>1. l - a \in 1 .. b /\ l = a + (l - a)
    BY <1>1, <1>5
  <2> QED
    BY <2>1
<1> QED
  BY <1>1, <1>2, <1>3, <1>4, <1>5 DEF a, b, u, IsConcat

\* A part is the one before it and the next sequence.
LEMMA PartStep ==
    ASSUME NEW S, NEW n \in Nat, NEW seqs \in [1 .. n -> Seq(S)],
           NEW fl \in [0 .. n -> Seq(S)], Parts(seqs, n, fl), NEW i \in 1 .. n
    PROVE  IsConcat(fl[i], fl[i - 1], seqs[i])
<1>1. i - 1 \in 0 .. n
  OBVIOUS
<1>2. fl[i] = fl[i - 1] \o seqs[i] /\ fl[i - 1] \in Seq(S) /\ seqs[i] \in Seq(S)
  BY <1>1 DEF Parts
<1> QED
  BY <1>2, ConcatAt

\* A part is a prefix of the whole.
LEMMA PartsPrefix ==
    ASSUME NEW S, NEW n \in Nat, NEW seqs \in [1 .. n -> Seq(S)],
           NEW fl \in [0 .. n -> Seq(S)], Parts(seqs, n, fl), NEW i \in 0 .. n
    PROVE  Len(fl[i]) <= Len(fl[n]) /\ \A k \in 1 .. Len(fl[i]) : fl[n][k] = fl[i][k]
<1> DEFINE P(j) == Len(fl[j]) <= Len(fl[n]) /\ \A k \in 1 .. Len(fl[j]) : fl[n][k] = fl[j][k]
           T == {k \in Nat : k <= n => P(n - k)}
<1>1. \A j \in 0 .. n : Len(fl[j]) \in Nat
  BY LenProperties
<1>2. 0 \in T
  BY <1>1
<1>3. ASSUME NEW k \in T PROVE k + 1 \in T
  <2> SUFFICES ASSUME k + 1 <= n PROVE P(n - (k + 1))
    BY <1>3
  <2> DEFINE j == n - k
  <2>1. j \in 1 .. n /\ j - 1 = n - (k + 1) /\ j - 1 \in 0 .. n /\ j \in 0 .. n
    BY <1>3
  <2>2. P(j)
    BY <1>3
  <2> HIDE DEF j
  <2>4. /\ Len(fl[j - 1]) \in Nat /\ Len(seqs[j]) \in Nat
        /\ Len(fl[j]) = Len(fl[j - 1]) + Len(seqs[j])
        /\ \A l \in 1 .. Len(fl[j - 1]) : l \in 1 .. Len(fl[j]) /\ fl[j][l] = fl[j - 1][l]
    <3> HIDE DEF T, P
    <3>1. IsConcat(fl[j], fl[j - 1], seqs[j])
      BY <2>1, PartStep
    <3> QED
      BY <3>1 DEF IsConcat
  <2>5. Len(fl[j]) \in Nat /\ Len(fl[n]) \in Nat
    BY <1>1, <2>1
  <2> DEFINE a == Len(fl[j - 1])
             b == Len(seqs[j])
             c == Len(fl[j])
             d == Len(fl[n])
  <2>6. Len(fl[j - 1]) <= Len(fl[n])
    <3>1. a \in Nat /\ b \in Nat /\ c = a + b /\ c <= d /\ d \in Nat
      BY <2>2, <2>4, <2>5
    <3> HIDE DEF a, b, c, d
    <3>2. a <= d
      BY <3>1
    <3> QED
      BY <3>2 DEF a, d
  <2>7. ASSUME NEW l \in 1 .. Len(fl[j - 1]) PROVE fl[n][l] = fl[j - 1][l]
    BY <2>2, <2>4
  <2> QED
    BY <2>1, <2>6, <2>7
<1>4. n - i \in T
  <2> HIDE DEF T
  <2>1. T \subseteq Nat /\ n - i \in Nat
    BY DEF T
  <2> QED
    BY <1>2, <1>3, <2>1, SetInduction
<1>5. n - i <= n /\ n - (n - i) = i
  OBVIOUS
<1>6. P(n - (n - i))
  BY <1>4, <1>5
<1> QED
  BY <1>5, <1>6

\* Where the i-th sequence stands in the whole.
IsPart(seqs, n, fl, i) ==
    /\ Len(fl[i - 1]) \in Nat /\ Len(seqs[i]) \in Nat /\ Len(fl[n]) \in Nat
    /\ Len(fl[i]) = Len(fl[i - 1]) + Len(seqs[i]) /\ Len(fl[i]) <= Len(fl[n])
    /\ \A k \in 1 .. Len(seqs[i]) : fl[n][Len(fl[i - 1]) + k] = seqs[i][k]

LEMMA PartsAt ==
    ASSUME NEW S, NEW n \in Nat, NEW seqs \in [1 .. n -> Seq(S)],
           NEW fl \in [0 .. n -> Seq(S)], Parts(seqs, n, fl), NEW i \in 1 .. n
    PROVE  IsPart(seqs, n, fl, i)
<1>1. n \in 0 .. n /\ i \in 0 .. n /\ fl[n] \in Seq(S)
  OBVIOUS
<1>2. Len(fl[n]) \in Nat
  BY <1>1, LenProperties
<1>3. Len(fl[i]) <= Len(fl[n]) /\ \A k \in 1 .. Len(fl[i]) : fl[n][k] = fl[i][k]
  BY <1>1, PartsPrefix, ZenonT(60)
<1>4. IsConcat(fl[i], fl[i - 1], seqs[i])
  BY PartStep
<1> QED
  BY <1>2, <1>3, <1>4 DEF IsConcat, IsPart

\* What is in the whole is in one of its sequences.
InOne(x, seqs, n) == \E i \in 1 .. n : \E k \in 1 .. Len(seqs[i]) : x = seqs[i][k]

LEMMA PartsHave ==
    ASSUME NEW S, NEW n \in Nat, NEW seqs \in [1 .. n -> Seq(S)],
           NEW fl \in [0 .. n -> Seq(S)], Parts(seqs, n, fl), NEW j \in 1 .. Len(fl[n])
    PROVE  InOne(fl[n][j], seqs, n)
<1> DEFINE P(m) == \A l \in 1 .. Len(fl[m]) : \E i \in 1 .. m : \E k \in 1 .. Len(seqs[i]) : fl[m][l] = seqs[i][k]
           T == {m \in Nat : m <= n => P(m)}
<1>1. 0 \in T
  <2>1. Len(fl[0]) = 0
    BY DEF Parts
  <2> QED
    BY <2>1
<1>2. ASSUME NEW m \in T PROVE m + 1 \in T
  <2> SUFFICES ASSUME m + 1 <= n PROVE P(m + 1)
    <3> HIDE DEF P
    <3> QED
      BY <1>2
  <2> SUFFICES ASSUME NEW l \in 1 .. Len(fl[m + 1])
               PROVE  \E i \in 1 .. m + 1 : \E k \in 1 .. Len(seqs[i]) : fl[m + 1][l] = seqs[i][k]
    OBVIOUS
  <2>1. m \in 0 .. n /\ m + 1 \in 1 .. n /\ m + 1 \in 0 .. n /\ (m + 1) - 1 = m /\ P(m) /\ m \in Nat
    BY <1>2
  <2>3. /\ \A x \in 1 .. Len(fl[m]) : fl[m + 1][x] = fl[m][x]
        /\ \A x \in 1 .. Len(seqs[m + 1]) : fl[m + 1][Len(fl[m]) + x] = seqs[m + 1][x]
        /\ l \in 1 .. Len(fl[m]) \/ \E k \in 1 .. Len(seqs[m + 1]) : l = Len(fl[m]) + k
    <3> DEFINE i == m + 1
    <3>1. i \in 1 .. n /\ i - 1 = m /\ l \in 1 .. Len(fl[i])
      BY <2>1
    <3> HIDE DEF T, P, i
    <3>2. IsConcat(fl[i], fl[i - 1], seqs[i])
      BY <3>1, PartStep
    <3> QED
      BY <3>1, <3>2, ZenonT(60) DEF i, IsConcat
  <2>4. CASE l \in 1 .. Len(fl[m])
    <3>1. PICK i \in 1 .. m : \E k \in 1 .. Len(seqs[i]) : fl[m][l] = seqs[i][k]
      BY <2>1, <2>4
    <3>2. i \in 1 .. m + 1
      BY <2>1
    <3> QED
      BY <2>3, <2>4, <3>1, <3>2
  <2>5. CASE \E k \in 1 .. Len(seqs[m + 1]) : l = Len(fl[m]) + k
    <3>1. m + 1 \in 1 .. m + 1
      BY <2>1
    <3> QED
      BY <2>3, <2>5, <3>1
  <2> QED
    BY <2>3, <2>4, <2>5
<1>3. n \in T
  <2> HIDE DEF T
  <2>1. T \subseteq Nat
    BY DEF T
  <2> QED
    BY <1>1, <1>2, <2>1, SetInduction
<1> QED
  BY <1>3 DEF InOne

-----------------------------------------------------------------------------
(* read_content. *)

Content(S) == [ok : BOOLEAN, text : Seq(S)]

\* What was read, with a symbol before it.
Before(x, c) == [c EXCEPT !.text = <<x>> \o @]

LEMMA BeforeIs ==
    ASSUME NEW S, NEW x \in S, NEW c \in Content(S)
    PROVE  /\ Before(x, c) \in Content(S)
           /\ Before(x, c) = [ok |-> c.ok, text |-> <<x>> \o c.text]
<1>1. <<x>> \in Seq(S) /\ c.text \in Seq(S) /\ c = [ok |-> c.ok, text |-> c.text] /\ c.ok \in BOOLEAN
  BY DEF Content
<1>2. <<x>> \o c.text \in Seq(S)
  BY <1>1, ConcatProperties
<1>3. Before(x, c) = [ok |-> c.ok, text |-> <<x>> \o c.text]
  <2> DEFINE y == <<x>> \o c.text
  <2>1. Before(x, c) = [c EXCEPT !.text = y]
    BY DEF Before
  <2> HIDE DEF y
  <2>2. [c EXCEPT !.text = y] = [ok |-> c.ok, text |-> y]
    BY DEF Content
  <2> QED
    BY <2>1, <2>2 DEF y
<1> QED
  BY <1>1, <1>2, <1>3 DEF Content

\* The step of read_content at p, from what it reads after p.
Empty(ok) == [ok |-> ok, text |-> <<>>]
Escape(buf, p) == buf[p] = Backslash /\ p < Len(buf) /\ buf[p + 1] = Quote
ReadStep(buf, h, p) ==
    IF p > Len(buf) THEN Empty(FALSE)
    ELSE IF Escape(buf, p) THEN Before(Quote, h[p + 2])
    ELSE IF buf[p] = Quote THEN Empty(TRUE)
    ELSE Before(buf[p], h[p + 1])

IsReader(buf, h) == h = [p \in 1 .. Len(buf) + 2 |-> ReadStep(buf, h, p)]

LEMMA ReadStepType ==
    ASSUME NEW S, NEW buf \in Seq(S), Quote \in S, NEW N, N = Len(buf),
           NEW h \in [1 .. N + 2 -> Content(S)], NEW p \in 1 .. N + 2
    PROVE  ReadStep(buf, h, p) \in Content(S)
<1>1. N \in Nat /\ Empty(TRUE) \in Content(S) /\ Empty(FALSE) \in Content(S)
  BY LenProperties, EmptySeq DEF Content, Empty
<1>2. CASE p > N
  BY <1>1, <1>2 DEF ReadStep
<1>3. CASE ~(p > N) /\ Escape(buf, p)
  <2>1. p + 2 \in 1 .. N + 2
    BY <1>1, <1>3 DEF Escape
  <2>2. Before(Quote, h[p + 2]) \in Content(S)
    BY <2>1, BeforeIs
  <2> QED
    BY <1>3, <2>2 DEF ReadStep
<1>4. CASE ~(p > N) /\ ~Escape(buf, p) /\ buf[p] # Quote
  <2>1. p + 1 \in 1 .. N + 2 /\ p \in 1 .. N
    BY <1>1, <1>4
  <2>2. buf[p] \in S
    BY <2>1, ElementOfSeq
  <2>3. Before(buf[p], h[p + 1]) \in Content(S)
    BY <2>1, <2>2, BeforeIs
  <2> QED
    BY <1>4, <2>3 DEF ReadStep
<1>5. CASE ~(p > N) /\ ~Escape(buf, p) /\ buf[p] = Quote
  BY <1>1, <1>5 DEF ReadStep
<1> QED
  BY <1>2, <1>3, <1>4, <1>5

\* The recursion of read_content, from the end of the line, is a function.
LEMMA ReaderExists ==
    ASSUME NEW S, NEW buf \in Seq(S), Quote \in S
    PROVE  \E h \in [1 .. Len(buf) + 2 -> Content(S)] : IsReader(buf, h)
<1> DEFINE N == Len(buf)
           D == 1 .. N + 2
           R(h, p) == ReadStep(buf, h, p)
           Good(k, h) == \A p \in D : p > N + 2 - k => h[p] = R(h, p)
           T == {k \in Nat : \E h \in [D -> Content(S)] : Good(k, h)}
<1>0. N \in Nat
  BY LenProperties
<1>1. 0 \in T
  <2> DEFINE h == [p \in D |-> Empty(FALSE)]
  <2>1. h \in [D -> Content(S)]
    BY EmptySeq DEF Content, Empty
  <2>2. Good(0, h)
    BY <1>0
  <2> HIDE DEF h, Good
  <2> QED
    BY <2>1, <2>2
<1>2. ASSUME NEW k \in T PROVE k + 1 \in T
  <2>1. k \in Nat
    BY <1>2
  <2>2. PICK h \in [D -> Content(S)] : Good(k, h)
    <3> HIDE DEF Good
    <3> QED
      BY <1>2
  <2> DEFINE q == N + 2 - k
             v == R(h, q)
             g == IF q \in D THEN [h EXCEPT ![q] = v] ELSE h
  <2>3. q \in Int
    BY <1>0, <2>1
  <2>4. q \in D => v \in Content(S)
    <3> HIDE DEF q
    <3> QED
      BY ReadStepType
  <2> HIDE DEF v
  <2>5. g \in [D -> Content(S)]
    BY <2>2, <2>4
  <2>6. ASSUME NEW p \in D, p > N + 2 - (k + 1) PROVE g[p] = R(g, p)
    <3>1. p \in Int /\ p >= q
      BY <1>0, <2>1, <2>6
    <3>2. R(g, p) = R(h, p)
      <4>1. ASSUME NEW j \in D, j > q PROVE g[j] = h[j]
        BY <2>2, <4>1
      <4>2. p <= N => p + 1 \in D /\ p + 1 > q
        BY <1>0, <2>3, <3>1
      <4>3. p < N => p + 2 \in D /\ p + 2 > q
        BY <1>0, <2>3, <3>1
      <4>4. (p <= N => g[p + 1] = h[p + 1]) /\ (p < N => g[p + 2] = h[p + 2])
        BY <4>1, <4>2, <4>3
      <4>5. p > N \/ p <= N
        BY <1>0, <3>1
      <4> HIDE DEF g
      <4> QED
        BY <4>4, <4>5 DEF ReadStep, Escape
    <3>3. CASE p = q
      <4>1. g[p] = R(h, p)
        BY <2>2, <3>3 DEF v
      <4> QED
        BY <3>2, <4>1
    <3>4. CASE p # q
      <4>1. p > q
        BY <2>3, <3>1, <3>4
      <4>2. g[p] = h[p]
        BY <2>2, <3>4
      <4>3. h[p] = R(h, p)
        BY <2>2, <4>1
      <4> QED
        BY <3>2, <4>2, <4>3
    <3> QED
      BY <3>3, <3>4
  <2> HIDE DEF g
  <2>7. Good(k + 1, g)
    BY <2>6
  <2> HIDE DEF Good
  <2> QED
    BY <2>1, <2>5, <2>7
<1>3. N + 2 \in T
  <2> HIDE DEF T
  <2>1. T \subseteq Nat /\ N + 2 \in Nat
    BY <1>0 DEF T
  <2> QED
    BY <1>1, <1>2, <2>1, SetInduction
<1>4. PICK h \in [D -> Content(S)] : Good(N + 2, h)
  <2> HIDE DEF Good
  <2> QED
    BY <1>3
<1>5. \A p \in D : h[p] = R(h, p)
  BY <1>0, <1>4
<1>6. h = [p \in D |-> h[p]]
  BY <1>4
<1>7. h = [p \in D |-> R(h, p)]
  <2> HIDE DEF D, R
  <2> QED
    BY <1>5, <1>6
<1> QED
  BY <1>4, <1>7 DEF IsReader

LEMMA ReaderUnique ==
    ASSUME NEW S, NEW buf \in Seq(S), NEW f, NEW h, IsReader(buf, f), IsReader(buf, h)
    PROVE  f = h
<1> DEFINE N == Len(buf)
           D == 1 .. N + 2
           T == {k \in Nat : \A p \in D : p > N + 2 - k => f[p] = h[p]}
<1>0. N \in Nat
  BY LenProperties
<1>1. \A p \in D : f[p] = ReadStep(buf, f, p) /\ h[p] = ReadStep(buf, h, p)
  BY DEF IsReader
<1>2. 0 \in T
  BY <1>0
<1>3. ASSUME NEW k \in T PROVE k + 1 \in T
  <2> SUFFICES ASSUME NEW p \in D, p > N + 2 - (k + 1) PROVE f[p] = h[p]
    BY <1>3
  <2>1. k \in Nat /\ \A j \in D : j > N + 2 - k => f[j] = h[j]
    BY <1>3
  <2>2. p <= N => p + 1 \in D /\ p + 1 > N + 2 - k
    BY <1>0, <2>1
  <2>3. p < N => p + 2 \in D /\ p + 2 > N + 2 - k
    BY <1>0, <2>1
  <2>4. (p <= N => f[p + 1] = h[p + 1]) /\ (p < N => f[p + 2] = h[p + 2])
    BY <2>1, <2>2, <2>3
  <2>5. p > N \/ p <= N
    BY <1>0
  <2>6. ReadStep(buf, f, p) = ReadStep(buf, h, p)
    BY <2>4, <2>5 DEF ReadStep, Escape
  <2> QED
    BY <1>1, <2>6
<1>4. N + 2 \in T
  <2> HIDE DEF T
  <2>1. T \subseteq Nat /\ N + 2 \in Nat
    BY <1>0 DEF T
  <2> QED
    BY <1>2, <1>3, <2>1, SetInduction
<1>5. \A p \in D : f[p] = h[p]
  BY <1>0, <1>4
<1>6. f = [p \in D |-> ReadStep(buf, f, p)] /\ h = [p \in D |-> ReadStep(buf, h, p)]
  BY DEF IsReader
<1>7. f = [p \in D |-> f[p]] /\ h = [p \in D |-> h[p]]
  BY <1>6
<1> QED
  BY <1>5, <1>7

LEMMA MinIsIn ==
    ASSUME NEW I, I \subseteq Nat, I # {}
    PROVE  Min(I) \in I
<1>1. PICK x \in I : \A y \in I : ~(<<y, x>> \in OpToRel(<, Nat))
  BY NatLessThanWellFounded, WFMin
<1>2. ASSUME NEW y \in I PROVE x <= y
  <2>1. x \in Nat /\ y \in Nat
    OBVIOUS
  <2>2. <<y, x>> \notin {ss \in Nat \X Nat : ss[1] < ss[2]}
    BY <1>1, Zenon DEF OpToRel
  <2> QED
    BY <2>1, <2>2
<1>3. (CHOOSE z \in I : \A y \in I : z <= y) \in I
  BY <1>2
<1> QED
  BY <1>3 DEF Min

\* Where a tag is first in a line.
IsFirst(buf, tag, q) == q \in 1 .. Len(buf) /\ buf[q] = tag /\ \A j \in 1 .. q - 1 : buf[j] # tag

LEMMA FirstTag ==
    ASSUME NEW S, NEW buf \in Seq(S), NEW tag
    PROVE  /\ \A q : IsFirst(buf, tag, q) => strstr(buf, tag) = q
           /\ strstr(buf, tag) \in 0 .. Len(buf)
           /\ (\E i \in 1 .. Len(buf) : buf[i] = tag) <=> Has(buf, tag)
<1> DEFINE I == {i \in 1 .. Len(buf) : buf[i] = tag}
           first == IF I # {} THEN Min(I) ELSE 0
<1>0. Len(buf) \in Nat /\ DOMAIN buf = 1 .. Len(buf)
  BY LenProperties
<1>1. strstr(buf, tag) = first
  BY DEF strstr, SelectInSeq
<1>2. ASSUME NEW q, IsFirst(buf, tag, q) PROVE first = q
  <2>1. q \in I /\ \A j \in I : q <= j
    BY <1>0, <1>2 DEF IsFirst
  <2>2. \A x \in I : (\A y \in I : x <= y) => x = q
    BY <1>0, <2>1
  <2>3. I \subseteq Int
    BY <1>0
  <2> HIDE DEF I
  <2>4. (CHOOSE x \in I : \A y \in I : x <= y) = q
    BY <2>1, <2>2
  <2> QED
    BY <2>1, <2>4 DEF Min
<1>3. I # {} => first \in I
  <2>1. I \subseteq Nat
    BY <1>0
  <2> HIDE DEF I
  <2> QED
    BY <2>1, MinIsIn
<1>4. first \in 0 .. Len(buf) /\ (I # {} <=> first # 0)
  <2>1. CASE I = {}
    BY <1>0, <2>1
  <2>2. CASE I # {}
    <3>1. first \in 1 .. Len(buf)
      BY <1>3, <2>2
    <3> HIDE DEF first
    <3> QED
      BY <1>0, <2>2, <3>1
  <2> QED
    BY <2>1, <2>2
<1>5. I # {} <=> \E i \in 1 .. Len(buf) : buf[i] = tag
  OBVIOUS
<1> HIDE DEF first, I
<1> QED
  BY <1>1, <1>2, <1>4, <1>5 DEF Has

\* Where the first quote of a line is.
IsFirstQuote(buf, q) == IsFirst(buf, Quote, q)

LEMMA FirstQuote ==
    ASSUME NEW S, NEW buf \in Seq(S)
    PROVE  /\ \A q : IsFirstQuote(buf, q) => strstr(buf, Quote) = q
           /\ strstr(buf, Quote) \in 0 .. Len(buf)
  BY FirstTag DEF IsFirstQuote

\* What read_content returns, in terms of the function it is defined by.
LEMMA ReadContentIs ==
    ASSUME NEW S, NEW buf \in Seq(S), Quote \in S
    PROVE  \E h \in [1 .. Len(buf) + 2 -> Content(S)] :
              /\ IsReader(buf, h)
              /\ read_content(buf) = LET first == strstr(buf, Quote)
                                     IN  IF first = 0 THEN Empty(FALSE) ELSE h[first + 1]
<1> DEFINE first == strstr(buf, Quote)
           f == CHOOSE h : h = [p \in 1 .. Len(buf) + 2 |-> ReadStep(buf, h, p)]
<1>1. PICK h \in [1 .. Len(buf) + 2 -> Content(S)] : IsReader(buf, h)
  BY ReaderExists
<1>2. IsReader(buf, f)
  <2>1. h = [p \in 1 .. Len(buf) + 2 |-> ReadStep(buf, h, p)]
    BY <1>1 DEF IsReader
  <2>2. f = [p \in 1 .. Len(buf) + 2 |-> ReadStep(buf, f, p)]
    BY <2>1
  <2> QED
    BY <2>2 DEF IsReader
<1>3. read_content(buf) = IF first = 0 THEN Empty(FALSE) ELSE f[first + 1]
  BY DEF read_content, ReadStep, Escape, Before, Empty
<1> HIDE DEF f, first
<1>4. f = h
  BY <1>1, <1>2, ReaderUnique
<1>5. read_content(buf) = IF first = 0 THEN Empty(FALSE) ELSE h[first + 1]
  BY <1>3, <1>4
<1> QED
  BY <1>1, <1>5 DEF first

LEMMA ReadType ==
    ASSUME NEW S, NEW buf \in Seq(S), Quote \in S
    PROVE  read_content(buf) \in Content(S)
<1> DEFINE first == strstr(buf, Quote)
<1>1. PICK h \in [1 .. Len(buf) + 2 -> Content(S)] :
         read_content(buf) = IF first = 0 THEN Empty(FALSE) ELSE h[first + 1]
  BY ReadContentIs
<1>2. first \in 0 .. Len(buf) /\ Len(buf) \in Nat
  BY FirstQuote, LenProperties
<1> HIDE DEF first
<1>3. first # 0 => first + 1 \in 1 .. Len(buf) + 2
  BY <1>2
<1>4. Empty(FALSE) \in Content(S)
  BY EmptySeq DEF Empty, Content
<1> QED
  BY <1>1, <1>3, <1>4

ReadsAt(S, buf, q) ==
    \E h \in [1 .. Len(buf) + 2 -> Content(S)] : IsReader(buf, h) /\ read_content(buf) = h[q + 1]

LEMMA ReadAt ==
    ASSUME NEW S, NEW buf \in Seq(S), Quote \in S, NEW q, IsFirstQuote(buf, q)
    PROVE  ReadsAt(S, buf, q)
<1> DEFINE first == strstr(buf, Quote)
<1>1. PICK h \in [1 .. Len(buf) + 2 -> Content(S)] :
         /\ IsReader(buf, h)
         /\ read_content(buf) = IF first = 0 THEN Empty(FALSE) ELSE h[first + 1]
  BY ReadContentIs
<1>2. first = q
  BY FirstQuote
<1>3. q # 0
  BY LenProperties DEF IsFirstQuote, IsFirst
<1> HIDE DEF first
<1>4. read_content(buf) = h[q + 1]
  BY <1>1, <1>2, <1>3
<1> QED
  BY <1>1, <1>4 DEF ReadsAt

\* A reader that has the symbols of a text before it, one after the other, and then
\* the end, reads the text.
LEMMA ReadAlong ==
    ASSUME NEW S, NEW text \in Seq(S), NEW n, n = Len(text), NEW c,
           c[n] = Empty(TRUE), \A i \in 1 .. n : c[i - 1] = Before(text[i], c[i])
    PROVE  c[0] = [ok |-> TRUE, text |-> text]
<1> DEFINE V(m) == [ok |-> TRUE, text |-> SubSeq(text, m + 1, n)]
           T == {k \in Nat : k <= n => c[n - k] = V(n - k)}
<1>0. n \in Nat /\ \A i \in 1 .. n : text[i] \in S
  BY LenProperties, ElementOfSeq
<1>1. \A m \in 0 .. n : SubSeq(text, m + 1, n) \in Seq(S)
  <2> SUFFICES ASSUME NEW m \in 0 .. n PROVE SubSeq(text, m + 1, n) \in Seq(S)
    OBVIOUS
  <2>1. m + 1 \in Int /\ n \in Int /\ \A i \in m + 1 .. n : text[i] \in S
    BY <1>0
  <2> QED
    BY <2>1, SubSeqProperties
<1>2. 0 \in T
  <2>1. SubSeq(text, n + 1, n) = <<>>
    BY <1>0, SubSeqEmpty
  <2>2. n - 0 = n
    BY <1>0
  <2> QED
    BY <2>1, <2>2 DEF Empty
<1>3. ASSUME NEW k \in T PROVE k + 1 \in T
  <2> SUFFICES ASSUME k + 1 <= n PROVE c[n - (k + 1)] = V(n - (k + 1))
    <3> HIDE DEF V
    <3> QED
      BY <1>3
  <2> DEFINE i == n - k
  <2>1. i \in 1 .. n /\ i \in 0 .. n /\ n - (k + 1) = i - 1 /\ (i - 1) + 1 = i /\ c[i] = V(i)
    <3> HIDE DEF V
    <3> QED
      BY <1>0, <1>3
  <2> HIDE DEF i, T
  <2>2. c[i - 1] = Before(text[i], V(i))
    <3> HIDE DEF V
    <3> QED
      BY <2>1
  <2>3. V(i) \in Content(S) /\ text[i] \in S
    BY <1>0, <1>1, <2>1 DEF Content
  <2>4. Before(text[i], V(i)) = [ok |-> V(i).ok, text |-> <<text[i]>> \o V(i).text]
    <3> HIDE DEF V
    <3> QED
      BY <2>3, BeforeIs
  <2>5. <<text[i]>> \o SubSeq(text, i + 1, n) = SubSeq(text, i, n)
    <3>1. n \in i .. n
      BY <1>0, <2>1
    <3> QED
      BY <2>1, <3>1, SubSeqRecursiveFirst
  <2>6. V(i).ok = TRUE /\ V(i).text = SubSeq(text, i + 1, n)
    OBVIOUS
  <2>7. Before(text[i], V(i)) = [ok |-> TRUE, text |-> SubSeq(text, i, n)]
    BY <2>4, <2>5, <2>6
  <2> QED
    BY <2>1, <2>2, <2>7
<1>4. n \in T
  <2> HIDE DEF T
  <2>1. T \subseteq Nat
    BY DEF T
  <2> QED
    BY <1>0, <1>2, <1>3, <2>1, SetInduction
<1>5. n - n = 0 /\ n <= n
  BY <1>0
<1>6. c[0] = V(0)
  <2> HIDE DEF V
  <2> QED
    BY <1>4, <1>5
<1>7. SubSeq(text, 0 + 1, n) = text
  BY SubSeqFull
<1> QED
  BY <1>6, <1>7

\* A text between two others.
IsFramed(buf, a, s, b) ==
    /\ Len(a) \in Nat /\ Len(s) \in Nat /\ Len(b) \in Nat
    /\ Len(buf) = Len(a) + Len(s) + Len(b)
    /\ \A i \in 1 .. Len(a) : buf[i] = a[i]
    /\ \A i \in 1 .. Len(s) : buf[Len(a) + i] = s[i]
    /\ \A i \in 1 .. Len(b) : buf[Len(a) + Len(s) + i] = b[i]

LEMMA Framed ==
    ASSUME NEW S, NEW a \in Seq(S), NEW s \in Seq(S), NEW b \in Seq(S)
    PROVE  a \o s \o b \in Seq(S) /\ IsFramed(a \o s \o b, a, s, b)
<1> DEFINE as == a \o s
           buf == a \o s \o b
<1>1. as \in Seq(S) /\ IsConcat(as, a, s)
  BY ConcatAt
<1> HIDE DEF as
<1>2. as \o b \in Seq(S) /\ IsConcat(as \o b, as, b)
  BY <1>1, ConcatAt
<1>3. buf = as \o b
  BY DEF as
<1> HIDE DEF buf
<1>4. IsConcat(buf, as, b) /\ buf \in Seq(S)
  BY <1>2, <1>3
<1>5. Len(a) \in Nat /\ Len(s) \in Nat /\ Len(b) \in Nat /\ Len(as) = Len(a) + Len(s)
  BY <1>1, <1>4 DEF IsConcat
<1>6. Len(buf) = Len(a) + Len(s) + Len(b)
  BY <1>4, <1>5 DEF IsConcat
<1>7. \A i \in 1 .. Len(as) : buf[i] = as[i]
  BY <1>4 DEF IsConcat
<1>8. \A i \in 1 .. Len(a) : i \in 1 .. Len(as) /\ buf[i] = a[i]
  BY <1>1, <1>7 DEF IsConcat
<1>9. \A i \in 1 .. Len(s) : Len(a) + i \in 1 .. Len(as) /\ buf[Len(a) + i] = s[i]
  BY <1>1, <1>7 DEF IsConcat
<1>10. \A i \in 1 .. Len(b) : buf[Len(as) + i] = b[i]
  BY <1>4 DEF IsConcat
<1> QED
  BY <1>4, <1>5, <1>6, <1>8, <1>9, <1>10 DEF IsFramed, buf

\* A value line whose text holds no quote and does not end with a backslash is read
\* back as it was.
LEMMA ReadPlain ==
    ASSUME NEW S, Quote \in S, Char \in S, ValTag \in S, NEW text \in Seq(S),
           \A i \in 1 .. Len(text) : text[i] # Quote,
           Len(text) > 0 => text[Len(text)] # Backslash
    PROVE  read_content(<<ValTag, Quote>> \o text \o <<Quote, Char>>) = [ok |-> TRUE, text |-> text]
<1> DEFINE n == Len(text)
           a == <<ValTag, Quote>>
           b == <<Quote, Char>>
           buf == a \o text \o b
<1>1. a \in Seq(S) /\ b \in Seq(S) /\ Len(a) = 2 /\ Len(b) = 2
      /\ a[1] = ValTag /\ a[2] = Quote /\ b[1] = Quote
  OBVIOUS
<1> HIDE DEF a, b
<1>2. /\ buf \in Seq(S) /\ n \in Nat /\ Len(buf) = n + 4
      /\ buf[1] = ValTag /\ buf[2] = Quote /\ buf[n + 3] = Quote
      /\ \A i \in 1 .. n : buf[2 + i] = text[i]
  <2>0. buf \in Seq(S) /\ IsFramed(buf, a, text, b)
    BY <1>1, Framed
  <2>1. /\ n \in Nat /\ Len(buf) = 2 + n + 2
        /\ \A i \in 1 .. 2 : buf[i] = a[i]
        /\ \A i \in 1 .. n : buf[2 + i] = text[i]
        /\ \A i \in 1 .. 2 : buf[2 + n + i] = b[i]
    <3> HIDE DEF buf
    <3> QED
      BY <1>1, <2>0 DEF IsFramed
  <2> HIDE DEF buf, n
  <2>2. 2 + n + 1 = n + 3 /\ 2 + n + 2 = n + 4
    BY <2>1
  <2> QED
    BY <1>1, <2>0, <2>1, <2>2
<1> HIDE DEF buf, n
<1>3. IsFirstQuote(buf, 2)
  BY <1>2, RegistryAssumption DEF IsFirstQuote, IsFirst
<1>4. PICK h \in [1 .. Len(buf) + 2 -> Content(S)] : IsReader(buf, h) /\ read_content(buf) = h[2 + 1]
  <2>1. ReadsAt(S, buf, 2)
    BY <1>2, <1>3, ReadAt
  <2> QED
    BY <2>1 DEF ReadsAt
<1>5. \A p \in 1 .. n + 6 : h[p] = ReadStep(buf, h, p)
  <2>1. Len(buf) + 2 = n + 6
    BY <1>2
  <2>2. \A p \in 1 .. Len(buf) + 2 : h[p] = ReadStep(buf, h, p)
    BY <1>4 DEF IsReader
  <2> QED
    BY <2>1, <2>2
<1> DEFINE c == [i \in 0 .. n |-> h[3 + i]]
<1>6. c[n] = Empty(TRUE)
  <2>0. n + 3 \in 1 .. n + 6 /\ ~(n + 3 > n + 4) /\ 3 + n = n + 3 /\ n \in 0 .. n
    BY <1>2
  <2>1. c[n] = h[n + 3]
    BY <2>0
  <2>2. ~Escape(buf, n + 3)
    BY <1>2, RegistryAssumption DEF Escape
  <2> QED
    BY <1>2, <1>5, <2>0, <2>1, <2>2 DEF ReadStep
<1>7. ASSUME NEW i \in 1 .. n PROVE c[i - 1] = Before(text[i], c[i])
  <2>0. /\ 2 + i \in 1 .. n + 6 /\ ~(2 + i > n + 4) /\ i - 1 \in 0 .. n /\ i \in 0 .. n
        /\ 3 + (i - 1) = 2 + i /\ 3 + i = (2 + i) + 1
    <3>1. n \in Nat /\ i \in Nat /\ 1 <= i /\ i <= n
      BY <1>2
    <3> QED
      BY <3>1
  <2>1. c[i - 1] = h[2 + i] /\ c[i] = h[(2 + i) + 1]
    BY <2>0
  <2>2. buf[2 + i] = text[i] /\ text[i] # Quote
    BY <1>2 DEF n
  <2>3. ~Escape(buf, 2 + i)
    <3>1. CASE i = n
      BY <1>2, <2>2, <3>1 DEF Escape, n
    <3>2. CASE i # n
      <4>1. i + 1 \in 1 .. n /\ (2 + i) + 1 = 2 + (i + 1)
        BY <1>2, <3>2
      <4>2. buf[(2 + i) + 1] # Quote
        BY <1>2, <4>1 DEF n
      <4> QED
        BY <4>2 DEF Escape
    <3> QED
      BY <3>1, <3>2
  <2>4. h[2 + i] = Before(text[i], h[(2 + i) + 1])
    BY <1>2, <1>5, <2>0, <2>2, <2>3 DEF ReadStep
  <2> QED
    BY <2>1, <2>4
<1>8. c[0] = h[2 + 1]
  BY <1>2
<1> HIDE DEF c
<1>9. c[0] = [ok |-> TRUE, text |-> text]
  BY <1>6, <1>7, ReadAlong, ZenonT(60) DEF n
<1> QED
  BY <1>4, <1>8, <1>9 DEF buf, a, b

\* A text with its quotes escaped, between quotes, is read back as it was.
LEMMA ReadEscaped ==
    ASSUME NEW text \in Seq(Symbol), Len(text) > 0 => text[Len(text)] # Backslash
    PROVE  read_content(<<Quote>> \o Escaped(text) \o <<Quote>>) = [ok |-> TRUE, text |-> text]
<1> DEFINE S == Symbol
           n == Len(text)
           unit(i) == IF text[i] = Quote THEN <<Backslash, Quote>> ELSE <<text[i]>>
           seqs == [i \in 1 .. n |-> unit(i)]
<1>0. n \in Nat /\ Quote \in S /\ Backslash \in S /\ \A i \in 1 .. n : text[i] \in S
  BY LenProperties, ElementOfSeq DEF Symbol
<1> HIDE DEF S
<1>1. seqs \in [1 .. n -> Seq(S)]
  <2>1. \A x \in S : <<x>> \in Seq(S) /\ <<Backslash, Quote>> \in Seq(S)
    BY <1>0
  <2> QED
    BY <1>0, <2>1
<1>2. ASSUME NEW i \in 1 .. n
      PROVE  /\ text[i] = Quote => /\ Len(seqs[i]) = 2 /\ seqs[i][1] = Backslash /\ seqs[i][2] = Quote
             /\ text[i] # Quote => Len(seqs[i]) = 1 /\ seqs[i][1] = text[i]
             /\ seqs[i][1] # Quote /\ 1 \in 1 .. Len(seqs[i])
  <2>1. CASE text[i] = Quote
    <3>1. seqs[i] = <<Backslash, Quote>>
      BY <2>1
    <3> QED
      BY <2>1, <3>1, RegistryAssumption
  <2>2. CASE text[i] # Quote
    <3>1. seqs[i] = <<text[i]>>
      BY <2>2
    <3> QED
      BY <2>2, <3>1
  <2> QED
    BY <2>1, <2>2
<1>3. Escaped(text) = FlattenSeq(seqs)
  BY DEF Escaped
<1> HIDE DEF seqs, unit
<1>4. PICK fl \in [0 .. n -> Seq(S)] : Parts(seqs, n, fl)
  BY <1>0, <1>1, PartsExist
<1> DEFINE e == fl[n]
           a == <<Quote>>
           buf == a \o e \o a
           L(i) == Len(fl[i])
<1>5. Escaped(text) = e /\ e \in Seq(S) /\ L(0) = 0
  <2>1. FlattenSeq(seqs) = e
    BY <1>0, <1>1, <1>4, FlattenIsParts
  <2>2. n \in 0 .. n
    BY <1>0
  <2>3. L(0) = 0
    BY <1>4 DEF Parts
  <2> QED
    BY <1>3, <2>1, <2>2, <2>3
<1>6. a \in Seq(S) /\ Len(a) = 1 /\ a[1] = Quote
  BY <1>0
<1> HIDE DEF a
<1>7. buf \in Seq(S) /\ IsFramed(buf, a, e, a)
  BY <1>5, <1>6, Framed
<1> HIDE DEF buf
<1>8. /\ L(n) \in Nat /\ Len(buf) = L(n) + 2 /\ buf[1] = Quote
      /\ \A j \in 1 .. L(n) : buf[1 + j] = e[j]
      /\ buf[L(n) + 2] = Quote
  <2>1. /\ L(n) \in Nat /\ Len(buf) = 1 + L(n) + 1
        /\ \A i \in 1 .. 1 : buf[i] = a[i] /\ buf[1 + L(n) + i] = a[i]
        /\ \A j \in 1 .. L(n) : buf[1 + j] = e[j]
    BY <1>6, <1>7 DEF IsFramed
  <2> HIDE DEF e, L
  <2>2. 1 + L(n) + 1 = L(n) + 2 /\ 1 \in 1 .. 1
    BY <2>1
  <2> QED
    BY <1>6, <2>1, <2>2
<1>9. IsFirstQuote(buf, 1)
  BY <1>8 DEF IsFirstQuote, IsFirst
<1>10. PICK h \in [1 .. Len(buf) + 2 -> Content(S)] : IsReader(buf, h) /\ read_content(buf) = h[1 + 1]
  <2>1. ReadsAt(S, buf, 1)
    BY <1>0, <1>7, <1>9, ReadAt
  <2> QED
    BY <2>1 DEF ReadsAt
<1>11. \A p \in 1 .. L(n) + 2 : h[p] = ReadStep(buf, h, p)
  <2>1. \A p \in 1 .. Len(buf) + 2 : h[p] = ReadStep(buf, h, p)
    BY <1>10 DEF IsReader
  <2> HIDE DEF L
  <2>2. 1 .. L(n) + 2 \subseteq 1 .. Len(buf) + 2
    BY <1>8
  <2> QED
    BY <2>1, <2>2
<1> DEFINE c == [i \in 0 .. n |-> h[2 + L(i)]]
<1>12. c[n] = Empty(TRUE)
  <2> HIDE DEF L
  <2>1. n \in 0 .. n /\ L(n) + 2 \in 1 .. L(n) + 2 /\ 2 + L(n) = L(n) + 2 /\ ~(L(n) + 2 > Len(buf))
    BY <1>0, <1>8
  <2>2. c[n] = h[L(n) + 2]
    BY <2>1
  <2>3. ~Escape(buf, L(n) + 2)
    BY <1>8, RegistryAssumption DEF Escape
  <2> QED
    BY <1>8, <1>11, <2>1, <2>2, <2>3 DEF ReadStep
<1>13. ASSUME NEW i \in 1 .. n PROVE c[i - 1] = Before(text[i], c[i])
  <2> DEFINE p == 2 + L(i - 1)
  <2>1. /\ i - 1 \in 0 .. n /\ i \in 0 .. n
    BY <1>0
  <2>2. c[i - 1] = h[p] /\ c[i] = h[2 + L(i)]
    BY <2>1
  <2>3. /\ L(i - 1) \in Nat /\ Len(seqs[i]) \in Nat
        /\ L(i) = L(i - 1) + Len(seqs[i]) /\ L(i) <= L(n)
        /\ \A k \in 1 .. Len(seqs[i]) : e[L(i - 1) + k] = seqs[i][k]
    <3>1. IsPart(seqs, n, fl, i)
      BY <1>0, <1>1, <1>4, PartsAt
    <3> QED
      BY <3>1 DEF IsPart
  <2> HIDE DEF L, e
  <2>4. ASSUME NEW k \in 1 .. Len(seqs[i]) PROVE buf[1 + L(i - 1) + k] = seqs[i][k]
    <3>1. L(i - 1) + k \in 1 .. L(n) /\ 1 + (L(i - 1) + k) = 1 + L(i - 1) + k
      BY <1>8, <2>3, SMTT(60)
    <3> QED
      BY <1>8, <2>3, <3>1
  <2>5. /\ p \in 1 .. L(n) + 2 /\ ~(p > Len(buf)) /\ p = 1 + L(i - 1) + 1 /\ p + 1 = 1 + L(i - 1) + 2
        /\ p + 1 <= Len(buf) /\ p < Len(buf)
    BY <1>2, <1>8, <2>3, SMTT(60)
  <2>6. h[p] = ReadStep(buf, h, p) /\ buf[p] = seqs[i][1]
    BY <1>2, <1>11, <2>4, <2>5
  <2>7. CASE text[i] = Quote
    <3>1. Len(seqs[i]) = 2 /\ seqs[i][1] = Backslash /\ seqs[i][2] = Quote
      BY <1>2, <2>7
    <3>2. 2 \in 1 .. Len(seqs[i]) /\ p + 2 = 2 + L(i)
      BY <2>3, <3>1
    <3>3. Escape(buf, p)
      BY <2>4, <2>5, <2>6, <3>1, <3>2 DEF Escape
    <3> QED
      BY <2>2, <2>5, <2>6, <2>7, <3>2, <3>3 DEF ReadStep
  <2>8. CASE text[i] # Quote
    <3>1. Len(seqs[i]) = 1 /\ seqs[i][1] = text[i]
      BY <1>2, <2>8
    <3>2. p + 1 = 2 + L(i)
      BY <2>3, <3>1
    <3>3. ~Escape(buf, p)
      <4>1. CASE i = n
        <5>1. text[i] # Backslash
          BY <1>0, <4>1
        <5> QED
          BY <2>6, <3>1, <5>1 DEF Escape
      <4>2. CASE i # n
        <5>1. i + 1 \in 1 .. n /\ (i + 1) - 1 = i
          BY <1>0, <4>2
        <5>2. /\ L((i + 1) - 1) \in Nat /\ Len(seqs[i + 1]) \in Nat
              /\ L(i + 1) = L((i + 1) - 1) + Len(seqs[i + 1]) /\ L(i + 1) <= L(n)
              /\ \A k \in 1 .. Len(seqs[i + 1]) : e[L((i + 1) - 1) + k] = seqs[i + 1][k]
          <6>1. IsPart(seqs, n, fl, i + 1)
            BY <1>0, <1>1, <1>4, <5>1, PartsAt
          <6> QED
            BY <6>1 DEF IsPart, L, e
        <5>3. /\ L(i) \in Nat /\ Len(seqs[i + 1]) \in Nat /\ L(i) + Len(seqs[i + 1]) <= L(n)
              /\ e[L(i) + 1] = seqs[i + 1][1] /\ seqs[i + 1][1] # Quote /\ 1 \in 1 .. Len(seqs[i + 1])
          BY <1>2, <5>1, <5>2
        <5>4. L(i) + 1 \in 1 .. L(n) /\ 1 + (L(i) + 1) = p + 1
          <6> DEFINE x == Len(seqs[i + 1])
          <6>1. L(i) \in Nat /\ x \in Nat /\ L(i) + x <= L(n) /\ 1 <= x /\ L(n) \in Nat
            BY <1>8, <5>3
          <6> HIDE DEF x, p
          <6> QED
            BY <3>2, <6>1
        <5>5. buf[p + 1] # Quote
          BY <1>8, <5>3, <5>4
        <5> QED
          BY <5>5 DEF Escape
      <4> QED
        BY <4>1, <4>2
    <3> QED
      BY <2>2, <2>5, <2>6, <2>8, <3>1, <3>2, <3>3 DEF ReadStep
  <2> QED
    BY <2>7, <2>8
<1>14. c[0] = h[1 + 1]
  BY <1>0, <1>5
<1> HIDE DEF c
<1>15. c[0] = [ok |-> TRUE, text |-> text]
  BY <1>12, <1>13, ReadAlong
<1> QED
  BY <1>5, <1>10, <1>14, <1>15 DEF buf, a

-----------------------------------------------------------------------------
(* The configuration file. *)

\* ecos_mib_find_by_desc finds a node with the description, if there is one.
LEMMA FindByDesc ==
    ASSUME IInv, NEW d
    PROVE  /\ ecos_mib_find_by_desc(d) # NULL =>
                \E n \in Nodes : n.arg = ecos_mib_find_by_desc(d) /\ reg[n.arg].desc = d
           /\ (\E n \in Nodes : reg[n.arg].desc = d) => ecos_mib_find_by_desc(d) # NULL
<1> DEFINE seqs == [i \in 1 .. ROWS |-> rows[i - 1]]
           nodes == FlattenSeq(seqs)
           I == {k \in 1 .. Len(nodes) : reg[nodes[k].arg].desc = d}
           first == IF I # {} THEN Min(I) ELSE 0
<1>0. ROWS \in Nat /\ rows \in [0 .. ROWS - 1 -> Seq(Node)] /\ RowsOK
  BY RegistryAssumption DEF IInv, RowsOK
<1>1. seqs \in [1 .. ROWS -> Seq(Node)]
  <2>1. \A i \in 1 .. ROWS : i - 1 \in 0 .. ROWS - 1
    BY <1>0
  <2> QED
    BY <1>0, <2>1
<1>2. SelectInSeq(nodes, LAMBDA n : reg[n.arg].desc = d) = first
  BY DEF SelectInSeq
<1>3. ecos_mib_find_by_desc(d) = IF first = 0 THEN NULL ELSE nodes[first].arg
  BY <1>2 DEF ecos_mib_find_by_desc
<1>4. \A i \in 1 .. ROWS : i - 1 \in 0 .. ROWS - 1 /\ seqs[i] = rows[i - 1]
  BY <1>0
<1> HIDE DEF seqs
<1>5. PICK fl \in [0 .. ROWS -> Seq(Node)] : Parts(seqs, ROWS, fl)
  BY <1>0, <1>1, PartsExist
<1>6. nodes = fl[ROWS] /\ Len(nodes) \in Nat
  <2>1. nodes = fl[ROWS]
    BY <1>0, <1>1, <1>5, FlattenIsParts
  <2>2. fl[ROWS] \in Seq(Node)
    BY <1>0
  <2> HIDE DEF nodes
  <2> QED
    BY <2>1, <2>2, LenProperties
<1> HIDE DEF nodes
<1>7. ASSUME NEW k \in 1 .. Len(nodes) PROVE nodes[k] \in Nodes
  <2>1. PICK i \in 1 .. ROWS : \E l \in 1 .. Len(seqs[i]) : nodes[k] = seqs[i][l]
    <3>1. k \in 1 .. Len(fl[ROWS])
      BY <1>6
    <3>2. InOne(fl[ROWS][k], seqs, ROWS)
      BY <1>0, <1>1, <1>5, <3>1, PartsHave
    <3> QED
      BY <1>6, <3>2 DEF InOne
  <2>2. PICK l \in 1 .. Len(seqs[i]) : nodes[k] = seqs[i][l]
    BY <2>1
  <2> QED
    BY <1>0, <1>4, <2>2, NodesInRows
<1>8. ASSUME NEW n \in Nodes PROVE \E k \in 1 .. Len(nodes) : nodes[k] = n
  <2>1. PICK j \in 0 .. ROWS - 1 : \E l \in 1 .. Len(rows[j]) : rows[j][l] = n
    BY <1>0, NodesInRows
  <2>2. PICK l \in 1 .. Len(rows[j]) : rows[j][l] = n
    BY <2>1
  <2> DEFINE i == j + 1
  <2>3. i \in 1 .. ROWS /\ i - 1 = j
    BY <1>0
  <2>4. seqs[i] = rows[j]
    BY <1>4, <2>3
  <2> HIDE DEF i
  <2>5. IsPart(seqs, ROWS, fl, i)
    BY <1>0, <1>1, <1>5, <2>3, PartsAt
  <2>6. /\ Len(fl[i - 1]) \in Nat /\ Len(seqs[i]) \in Nat
        /\ Len(fl[i - 1]) + Len(seqs[i]) <= Len(nodes)
        /\ nodes[Len(fl[i - 1]) + l] = n
    BY <1>6, <2>2, <2>4, <2>5 DEF IsPart
  <2> DEFINE a == Len(fl[i - 1])
             b == Len(seqs[i])
  <2>7. a + l \in 1 .. Len(nodes)
    <3>1. a \in Nat /\ b \in Nat /\ a + b <= Len(nodes) /\ l \in 1 .. b
      BY <2>2, <2>4, <2>6
    <3> HIDE DEF a, b
    <3> QED
      BY <1>6, <3>1
  <2> QED
    BY <2>6, <2>7
<1>9. I # {} => first \in I
  <2>1. I \subseteq Nat
    BY <1>6
  <2> HIDE DEF I
  <2> QED
    BY <2>1, MinIsIn
<1>10. ASSUME ecos_mib_find_by_desc(d) # NULL
       PROVE  \E n \in Nodes : n.arg = ecos_mib_find_by_desc(d) /\ reg[n.arg].desc = d
  <2>1. first # 0
    BY <1>3, <1>10
  <2>2. first \in I
    BY <1>9, <2>1
  <2> HIDE DEF first
  <2>3. nodes[first] \in Nodes /\ reg[nodes[first].arg].desc = d
    BY <1>7, <2>2
  <2> QED
    BY <1>3, <2>1, <2>3
<1>11. ASSUME NEW n \in Nodes, reg[n.arg].desc = d PROVE ecos_mib_find_by_desc(d) # NULL
  <2>1. I # {}
    BY <1>8, <1>11
  <2>2. first \in I
    BY <1>9, <2>1
  <2> HIDE DEF first
  <2>3. first # 0 /\ nodes[first] \in Nodes
    BY <1>6, <1>7, <2>2
  <2>4. nodes[first].arg \in Addr
    BY <2>3, ArgsUsed
  <2> QED
    BY <1>3, <2>3, <2>4, RegistryAssumption
<1> QED
  BY <1>10, <1>11

Printed == Symbol \cup 0 .. 255
Byte == 0 .. 255
Ip == [1 .. 4 -> Byte]

LEMMA FunctionIsSeq ==
    ASSUME NEW B, NEW n \in Nat, NEW v \in [1 .. n -> B]
    PROVE  v \in Seq(B) /\ Len(v) = n /\ v = [i \in 1 .. n |-> v[i]]
  OBVIOUS

\* The four bytes of an ip, printed from the last, scanned, and put in order again.
LEMMA ReverseIp ==
    ASSUME NEW v \in Ip
    PROVE  /\ v \in Seq(Byte) /\ Len(v) = 4
           /\ Reverse(v) \in Ip /\ Reverse(v) = <<v[4], v[3], v[2], v[1]>>
           /\ Reverse(Reverse(v)) = v /\ v = <<v[1], v[2], v[3], v[4]>>
           /\ SubSeq(v, 1, 4) = v
<1>1. v \in Seq(Byte) /\ Len(v) = 4 /\ v = [i \in 1 .. 4 |-> v[i]]
  BY FunctionIsSeq DEF Ip
<1> DEFINE w == Reverse(v)
<1>2. w = [i \in 1 .. 4 |-> v[(4 - i) + 1]]
  BY <1>1 DEF Reverse
<1>3. w \in Ip
  <2>1. \A i \in 1 .. 4 : (4 - i) + 1 \in 1 .. 4
    OBVIOUS
  <2> QED
    BY <1>2, <2>1 DEF Ip
<1>4. w \in Seq(Byte) /\ Len(w) = 4 /\ w = [i \in 1 .. 4 |-> w[i]]
  BY <1>3, FunctionIsSeq DEF Ip
<1>5. Reverse(w) = [i \in 1 .. 4 |-> w[(4 - i) + 1]]
  BY <1>4 DEF Reverse
<1>6. w[1] = v[4] /\ w[2] = v[3] /\ w[3] = v[2] /\ w[4] = v[1]
  BY <1>2
<1>7. Reverse(w) = v
  <2>1. \A i \in 1 .. 4 : w[(4 - i) + 1] = v[i]
    <3> SUFFICES ASSUME NEW i \in 1 .. 4 PROVE w[(4 - i) + 1] = v[i]
      OBVIOUS
    <3>1. (4 - i) + 1 \in 1 .. 4 /\ (4 - ((4 - i) + 1)) + 1 = i
      OBVIOUS
    <3> QED
      BY <1>2, <3>1
  <2> HIDE DEF w
  <2> QED
    BY <1>1, <1>5, <2>1
<1>8. w = <<v[4], v[3], v[2], v[1]>>
  <2> HIDE DEF w
  <2> QED
    BY <1>4, <1>6
<1>9. v = <<v[1], v[2], v[3], v[4]>>
  BY <1>1
<1>10. SubSeq(v, 1, 4) = v
  BY <1>1, SubSeqFull
<1> QED
  BY <1>1, <1>3, <1>7, <1>8, <1>9, <1>10

-----------------------------------------------------------------------------
(* The lines of a text. *)

LEMMA MaxIsIn ==
    ASSUME NEW N \in Nat, NEW I, I \subseteq 0 .. N, I # {}
    PROVE  Max(I) \in I
<1> DEFINE T == {N - i : i \in I}
<1>1. T \subseteq Nat /\ T # {}
  <2>1. \A i \in I : N - i \in Nat
    OBVIOUS
  <2>2. PICK i \in I : TRUE
    OBVIOUS
  <2>3. N - i \in T
    BY <2>2
  <2> QED
    BY <2>1, <2>3
<1>2. Min(T) \in T /\ \A t \in T : Min(T) <= t
  <2> HIDE DEF T
  <2>1. PICK x \in T : \A y \in T : ~(<<y, x>> \in OpToRel(<, Nat))
    BY <1>1, NatLessThanWellFounded, WFMin
  <2>2. ASSUME NEW y \in T PROVE x <= y
    <3>1. x \in Nat /\ y \in Nat
      BY <1>1
    <3>2. <<y, x>> \notin {ss \in Nat \X Nat : ss[1] < ss[2]}
      BY <2>1, Zenon DEF OpToRel
    <3> QED
      BY <3>1, <3>2
  <2> QED
    BY <2>2 DEF Min
<1>3. PICK x \in I : Min(T) = N - x
  BY <1>2
<1>4. \A y \in I : N - x <= N - y
  BY <1>2, <1>3
<1>5. \A y \in I : x >= y
  <2> SUFFICES ASSUME NEW y \in I PROVE x >= y
    OBVIOUS
  <2>1. x \in Int /\ y \in Int /\ N - x <= N - y
    BY <1>4
  <2> QED
    BY <2>1
<1> QED
  BY <1>5 DEF Max

\* Each line is a text of the same symbols, and begins within the text.
LEMMA LineType ==
    ASSUME NEW S, NEW text \in Seq(S), NEW i \in Starts(text)
    PROVE  LineFrom(text, i) \in Seq(S) /\ i \in 0 .. Len(text) + 1
<1> DEFINE n == Len(text)
           E == {j \in i .. n + 1 : j = n + 1 \/ text[j] = Break}
           e == Min(E)
<1>1. n \in Nat /\ DOMAIN text = 1 .. n /\ \A k \in 1 .. n : text[k] \in S
  BY LenProperties, ElementOfSeq
<1>2. i \in 1 .. n + 1
  BY <1>1 DEF Starts
<1>3. E \subseteq Nat /\ n + 1 \in E
  BY <1>1, <1>2
<1>4. e \in E
  <2> HIDE DEF E
  <2> QED
    BY <1>3, MinIsIn
<1>5. e - 1 \in Int /\ e - 1 <= n /\ i \in Int /\ i >= 1
  BY <1>1, <1>2, <1>4
<1>6. LineFrom(text, i) = SubSeq(text, i, e - 1)
  BY DEF LineFrom
<1> HIDE DEF e, E
<1>7. \A k \in i .. e - 1 : text[k] \in S
  BY <1>1, <1>5
<1>8. SubSeq(text, i, e - 1) \in Seq(S)
  BY <1>5, <1>7, SubSeqProperties
<1> QED
  BY <1>1, <1>2, <1>6, <1>8

LEMMA TaggedType ==
    ASSUME NEW S, NEW line \in Seq(S), Quote \in S, NEW tag, Has(line, tag)
    PROVE  Tagged(line, tag) \in Content(S)
<1> DEFINE q == strstr(line, tag)
           n == Len(line)
           rest == SubSeq(line, q, n)
<1>1. n \in Nat /\ \A k \in 1 .. n : line[k] \in S
  BY LenProperties, ElementOfSeq
<1>2. q \in 1 .. n
  <2>1. q \in 0 .. n /\ q # 0
    BY FirstTag DEF Has
  <2> HIDE DEF q
  <2> QED
    BY <1>1, <2>1
<1>3. Tagged(line, tag) = read_content(rest)
  BY DEF Tagged
<1> HIDE DEF q
<1>4. rest \in Seq(S)
  <2>1. q \in Int /\ n \in Int /\ \A k \in q .. n : line[k] \in S
    BY <1>1, <1>2
  <2> QED
    BY <2>1, SubSeqProperties
<1> HIDE DEF rest
<1> QED
  BY <1>3, <1>4, ReadType

LEMMA TextReadType ==
    ASSUME NEW S, NEW text \in Seq(S), Quote \in S
    PROVE  TextRead(text) \in Content(S)
<1> DEFINE given == {i \in Valued(text) : \A j \in Rekeyed(text) : i < j}
<1>1. CASE given = {}
  <2>1. TextRead(text) = [ok |-> FALSE, text |-> <<>>]
    BY <1>1 DEF TextRead
  <2> QED
    BY <2>1, EmptySeq DEF Content
<1>2. CASE given # {}
  <2>1. given \subseteq 0 .. Len(text) + 1
    BY LineType DEF Valued
  <2>2. Len(text) + 1 \in Nat
    BY LenProperties
  <2>3. Max(given) \in given
    <3> HIDE DEF given
    <3> QED
      BY <1>2, <2>1, <2>2, MaxIsIn
  <2> DEFINE m == Max(given)
             line == LineFrom(text, m)
  <2>4. TextRead(text) = Tagged(line, ValTag)
    BY <1>2 DEF TextRead
  <2>5. m \in Starts(text) /\ Has(line, ValTag)
    BY <2>3 DEF Valued
  <2> HIDE DEF m
  <2>6. line \in Seq(S)
    BY <2>5, LineType
  <2> HIDE DEF line
  <2> QED
    BY <2>4, <2>5, <2>6, TaggedType
<1> QED
  BY <1>1, <1>2

\* A text that begins with the tag of a value, and holds neither that of a key nor a
\* line break, is read as the one line it was written as.
LEMMA OneLine ==
    ASSUME NEW S, NEW text \in Seq(S), 1 \in 1 .. Len(text), text[1] = ValTag,
           \A i \in 1 .. Len(text) : text[i] # KeyTag /\ text[i] # Break,
           read_content(text).ok
    PROVE  TextRead(text) = read_content(text)
<1> DEFINE n == Len(text)
<1>1. n \in Nat /\ DOMAIN text = 1 .. n /\ 1 <= n
  BY LenProperties
<1>2. Starts(text) = {1}
  BY <1>1 DEF Starts
<1>3. LineFrom(text, 1) = text
  <2> DEFINE E == {j \in 1 .. n + 1 : j = n + 1 \/ text[j] = Break}
  <2>1. E = {n + 1}
    BY <1>1
  <2>2. LineFrom(text, 1) = SubSeq(text, 1, Min(E) - 1)
    BY DEF LineFrom
  <2> HIDE DEF E
  <2>3. Min(E) \in E
    <3>1. E \subseteq Nat /\ E # {}
      BY <1>1, <2>1
    <3> QED
      BY <3>1, MinIsIn
  <2>4. Min(E) - 1 = n
    BY <1>1, <2>1, <2>3
  <2> QED
    BY <2>2, <2>4, SubSeqFull
<1>4. ~Has(text, KeyTag) /\ Has(text, ValTag)
  BY <1>1, FirstTag
<1>5. Tagged(text, ValTag) = read_content(text)
  <2>1. IsFirst(text, ValTag, 1)
    BY <1>1 DEF IsFirst
  <2>2. strstr(text, ValTag) = 1
    BY <2>1, FirstTag
  <2>3. Tagged(text, ValTag) = read_content(SubSeq(text, 1, Len(text)))
    BY <2>2 DEF Tagged
  <2> QED
    BY <2>3, SubSeqFull
<1>6. Rekeyed(text) = {}
  BY <1>2, <1>3, <1>4 DEF Rekeyed
<1>7. Valued(text) = {1}
  BY <1>2, <1>3, <1>4, <1>5 DEF Valued
<1> DEFINE given == {i \in Valued(text) : \A j \in Rekeyed(text) : i < j}
<1>8. given = {1}
  BY <1>6, <1>7
<1>9. TextRead(text) = Tagged(LineFrom(text, Max(given)), ValTag)
  BY <1>8 DEF TextRead
<1> HIDE DEF given
<1>10. Max(given) = 1
  <2>1. given \subseteq 0 .. 1 /\ given # {} /\ 1 \in Nat
    BY <1>8
  <2>2. Max(given) \in given
    BY <2>1, MaxIsIn
  <2> QED
    BY <1>8, <2>2
<1> QED
  BY <1>3, <1>5, <1>9, <1>10

\* What ecos_load_common stores of a text that was read.
Taken(type, text) == IF type = "ip" THEN ntohl(read_type_val(type, text)) ELSE read_type_val(type, text)

\* The text of a value line: the printed value between quotes.
LEMMA ValText ==
    ASSUME NEW S, Quote \in S, Char \in S, ValTag \in S, NEW t \in Seq(S), NEW line,
           line.text = <<ValTag, Quote>> \o t \o <<Quote, Char>>
    PROVE  /\ line.text \in Seq(S) /\ Between(line) = t
           /\ 1 \in 1 .. Len(line.text) /\ line.text[1] = ValTag
           /\ \A i \in 1 .. Len(line.text) :
                 line.text[i] \in {ValTag, Quote, Char} \/ \E k \in 1 .. Len(t) : line.text[i] = t[k]
<1> DEFINE n == Len(t)
           a == <<ValTag, Quote>>
           b == <<Quote, Char>>
           buf == line.text
<1>1. /\ a \in Seq(S) /\ b \in Seq(S) /\ Len(a) = 2 /\ Len(b) = 2
      /\ a[1] = ValTag /\ a[2] = Quote /\ b[1] = Quote /\ b[2] = Char
  OBVIOUS
<1>2. buf = a \o t \o b
  OBVIOUS
<1> HIDE DEF a, b, buf
<1>3. buf \in Seq(S) /\ IsFramed(buf, a, t, b)
  BY <1>1, <1>2, Framed
<1>4. /\ n \in Nat /\ Len(buf) = 2 + n + 2 /\ \A i \in 1 .. n : buf[2 + i] = t[i] /\ t[i] \in S
      /\ t = [i \in 1 .. n |-> t[i]]
  BY <1>1, <1>3, LenProperties, ElementOfSeq DEF IsFramed
<1>5. 1 \in 1 .. Len(buf) /\ buf[1] = ValTag
  <2>1. \A i \in 1 .. 2 : buf[i] = a[i]
    BY <1>1, <1>3 DEF IsFramed
  <2> QED
    BY <1>1, <1>4, <2>1
<1>6. ASSUME NEW i \in 1 .. Len(buf)
       PROVE  buf[i] \in {ValTag, Quote, Char} \/ \E k \in 1 .. Len(t) : buf[i] = t[k]
  <2>0. /\ \A k \in 1 .. 2 : buf[k] = a[k] /\ buf[2 + n + k] = b[k]
        /\ \A k \in 1 .. n : buf[2 + k] = t[k]
    BY <1>1, <1>3 DEF IsFramed
  <2> HIDE DEF n
  <2>1. CASE i \in 1 .. 2
    BY <1>1, <2>0, <2>1
  <2>2. CASE i \in 3 .. n + 2
    <3>1. i - 2 \in 1 .. n /\ 2 + (i - 2) = i
      BY <1>4, <2>2
    <3> QED
      BY <2>0, <3>1 DEF n
  <2>3. CASE i \in n + 3 .. n + 4
    <3>1. i - (2 + n) \in 1 .. 2 /\ 2 + n + (i - (2 + n)) = i
      BY <1>4, <2>3
    <3> QED
      BY <1>1, <2>0, <3>1
  <2> QED
    BY <1>4, <2>1, <2>2, <2>3
<1>7. Between(line) = SubSeq(buf, 3, n + 2)
  <2>1. Between(line) = SubSeq(buf, 3, Len(buf) - 2)
    BY DEF Between, buf
  <2> HIDE DEF n
  <2>2. Len(buf) - 2 = n + 2
    BY <1>4
  <2> QED
    BY <2>1, <2>2
<1> HIDE DEF n
<1> DEFINE u == SubSeq(buf, 3, n + 2)
<1>8. \A i \in 3 .. n + 2 : buf[i] \in S
  <2> SUFFICES ASSUME NEW i \in 3 .. n + 2 PROVE buf[i] \in S
    OBVIOUS
  <2>1. i - 2 \in 1 .. n /\ 2 + (i - 2) = i
    BY <1>4
  <2> QED
    BY <1>4, <2>1
<1>9. /\ u \in Seq(S) /\ Len(u) = IF 3 <= n + 2 THEN (n + 2) - 3 + 1 ELSE 0
      /\ \A i \in 1 .. (n + 2) - 3 + 1 : u[i] = buf[3 + i - 1]
  <2>1. 3 \in Int /\ n + 2 \in Int
    BY <1>4
  <2> QED
    BY <1>8, <2>1, SubSeqProperties
<1> HIDE DEF u
<1>10. Len(u) = n /\ \A i \in 1 .. n : u[i] = t[i]
  <2>1. (n + 2) - 3 + 1 = n /\ \A i \in 1 .. n : 3 + i - 1 = 2 + i
    BY <1>4
  <2>2. Len(u) = n
    BY <1>4, <1>9
  <2> QED
    BY <1>4, <1>9, <2>1, <2>2
<1>11. u = t
  BY <1>4, <1>9, <1>10, SeqEqual DEF n
<1> QED
  BY <1>3, <1>5, <1>6, <1>7, <1>11 DEF u, buf

\* A value line whose text needs no escape is read back as it was.
LEMMA ReadAlone ==
    ASSUME NEW S, Quote \in S, Char \in S, ValTag \in S, NEW t \in Seq(S), NEW line,
           line.text = <<ValTag, Quote>> \o t \o <<Quote, Char>>,
           \A i \in 1 .. Len(t) : t[i] # Quote /\ t[i] # KeyTag /\ t[i] # Break,
           Len(t) > 0 => t[Len(t)] # Backslash
    PROVE  TextRead(line.text) = [ok |-> TRUE, text |-> t]
<1>1. read_content(line.text) = [ok |-> TRUE, text |-> t]
  BY ReadPlain
<1> DEFINE x == line.text
<1>2. /\ x \in Seq(S) /\ 1 \in 1 .. Len(x) /\ x[1] = ValTag
      /\ \A i \in 1 .. Len(x) : x[i] \in {ValTag, Quote, Char} \/ \E k \in 1 .. Len(t) : x[i] = t[k]
  BY ValText
<1> HIDE DEF x
<1>3. \A i \in 1 .. Len(x) : x[i] # KeyTag /\ x[i] # Break
  BY <1>2, RegistryAssumption
<1>4. read_content(x).ok
  BY <1>1 DEF x
<1>5. TextRead(x) = read_content(x)
  BY <1>2, <1>3, <1>4, OneLine
<1> QED
  BY <1>1, <1>5 DEF x

\* What a value line gives when it is loaded: again a value of the type, and the value
\* that was saved if its text needs no escape.
LEMMA ValRead ==
    ASSUME NEW m \in Mib, NEW v \in Value(TypeOf[m]), NEW line, line = ValLine(TypeOf[m], v),
           NEW c, c = TextRead(line.text)
    PROVE  /\ c.ok => Taken(TypeOf[m], c.text) \in Value(TypeOf[m])
           /\ Plain(Between(line)) => c.ok /\ Taken(TypeOf[m], c.text) = Original(m, Between(line))
           /\ line.text \in Seq(Printed)
<1> DEFINE t == SavedText(TypeOf[m], v)
<1>0. TypeOf[m] \in {"ip", "string"}
  BY RegistryAssumption
<1>1. line.text = <<ValTag, Quote>> \o t \o <<Quote, Char>>
  BY DEF ValLine
<1>2. /\ Quote \in Symbol /\ Char \in Symbol /\ ValTag \in Symbol
      /\ Quote \in Printed /\ Char \in Printed /\ ValTag \in Printed
      /\ Symbol \subseteq Printed /\ Byte \subseteq Printed /\ Symbol \cap Byte = {}
  BY RegistryAssumption DEF Symbol, Printed, Byte
<1>3. ASSUME NEW S, S \subseteq Printed, Quote \in S, Char \in S, ValTag \in S, t \in Seq(S), Plain(t)
      PROVE  c = [ok |-> TRUE, text |-> t]
  <2>1. Len(t) \in Nat /\ DOMAIN t = 1 .. Len(t)
    BY <1>3, LenProperties
  <2>2. \A i \in 1 .. Len(t) : t[i] # Quote /\ t[i] # KeyTag /\ t[i] # Break
    BY <1>3, <2>1 DEF Plain, ToSet
  <2>3. Len(t) > 0 => t[Len(t)] # Backslash
    BY <1>3, <2>1 DEF Plain, Last
  <2> HIDE DEF t
  <2> QED
    BY <1>1, <1>3, <2>2, <2>3, ReadAlone
<1>4. CASE TypeOf[m] = "string"
  <2>1. v \in Seq(Symbol) /\ t = v
    BY <1>4 DEF Value, SavedText
  <2> HIDE DEF t
  <2>2. line.text \in Seq(Symbol) /\ Between(line) = t
    BY <1>1, <1>2, <2>1, ValText
  <2>3. c \in Content(Symbol)
    BY <1>2, <2>2, TextReadType
  <2>4. \A x : Taken(TypeOf[m], x) = x /\ Original(m, x) = x
    BY <1>4 DEF Taken, read_type_val, Original
  <2>5. Plain(t) => c = [ok |-> TRUE, text |-> t]
    BY <1>2, <1>3, <2>1
  <2>6. line.text \in Seq(Printed)
    BY <1>2, <2>2, SeqMonotonic
  <2>7. c.text \in Value(TypeOf[m])
    BY <1>4, <2>3 DEF Value, Content
  <2> QED
    BY <2>2, <2>4, <2>5, <2>6, <2>7
<1>5. CASE TypeOf[m] = "ip"
  <2>1. v \in Ip /\ t = Reverse(v)
    BY <1>5 DEF Value, SavedText, Ip, Byte
  <2>2. t \in Ip /\ Reverse(t) = v
    BY <2>1, ReverseIp
  <2> HIDE DEF t
  <2>3. /\ t \in Seq(Byte) /\ Len(t) = 4 /\ SubSeq(t, 1, 4) = t
        /\ Reverse(t) = <<t[4], t[3], t[2], t[1]>>
    BY <2>2, ReverseIp
  <2>4. t \in Seq(Printed)
    BY <1>2, <2>3, SeqMonotonic
  <2>5. line.text \in Seq(Printed) /\ Between(line) = t
    BY <1>1, <1>2, <2>4, ValText
  <2>6. Plain(t)
    <3>1. DOMAIN t = 1 .. 4 /\ \A i \in 1 .. 4 : t[i] \in Byte
      BY <2>2 DEF Ip
    <3> QED
      BY <1>2, <2>3, <3>1 DEF Plain, ToSet, Last, Symbol
  <2>7. c = [ok |-> TRUE, text |-> t]
    BY <1>2, <1>3, <2>4, <2>6
  <2>8. Taken(TypeOf[m], t) = v /\ Original(m, t) = v
    BY <1>5, <2>2, <2>3 DEF Taken, read_type_val, ntohl, Original
  <2> QED
    BY <2>5, <2>7, <2>8
<1> QED
  BY <1>0, <1>4, <1>5

Line == [kind : {"key", "val", "end"}, key : Desc \cup {NULL}, type : {"ip", "string", NULL},
         text : Seq(Printed)]

\* The lines of one MIB: a key line, and the line of a value of its type.
IsValueOf(k, l) ==
    \E m \in Mib : /\ k.key \in DescOf[m] /\ k.type = TypeOf[m]
                   /\ \E v \in Value(TypeOf[m]) : l = ValLine(TypeOf[m], v)

\* A file, cut off anywhere: a value line follows its key line, and nothing else does.
WellFormed(f) ==
    /\ f \in Seq(Line)
    /\ \A i \in 1 .. Len(f) :
          f[i].kind = "val" => i > 1 /\ f[i - 1].kind = "key" /\ IsValueOf(f[i - 1], f[i])
    /\ \A i \in 1 .. Len(f) - 1 : f[i].kind = "key" => f[i + 1].kind = "val"

\* A file that was not cut off after a key line.
Complete(f) == WellFormed(f) /\ (Len(f) > 0 => f[Len(f)].kind # "key")

LEMMA PrefixWellFormed ==
    ASSUME NEW f, WellFormed(f), NEW n \in 0 .. Len(f)
    PROVE  WellFormed(SubSeq(f, 1, n))
<1> DEFINE g == SubSeq(f, 1, n)
<1>0. f \in Seq(Line) /\ Len(f) \in Nat /\ \A i \in 1 .. Len(f) : f[i] \in Line
  BY LenProperties, ElementOfSeq DEF WellFormed
<1>1. n \in Nat /\ n <= Len(f) /\ 1 .. n \subseteq 1 .. Len(f)
  BY <1>0
<1>2. g \in Seq(Line) /\ Len(g) = n /\ \A i \in 1 .. n : g[i] = f[i]
  <2>1. /\ g \in Seq(Line) /\ Len(g) = IF 1 <= n THEN n - 1 + 1 ELSE 0
        /\ \A i \in 1 .. n - 1 + 1 : g[i] = f[1 + i - 1]
    BY <1>0, <1>1, SubSeqProperties
  <2> HIDE DEF g
  <2>2. n - 1 + 1 = n /\ \A i \in 1 .. n : 1 + i - 1 = i
    BY <1>1
  <2>3. Len(g) = n
    BY <1>1, <2>1
  <2> QED
    BY <2>1, <2>2, <2>3
<1> HIDE DEF g
<1>3. ASSUME NEW i \in 1 .. n, g[i].kind = "val"
      PROVE  i > 1 /\ g[i - 1].kind = "key" /\ IsValueOf(g[i - 1], g[i])
  <2>1. i \in 1 .. Len(f) /\ f[i].kind = "val"
    BY <1>1, <1>2, <1>3
  <2>2. i > 1 /\ f[i - 1].kind = "key" /\ IsValueOf(f[i - 1], f[i])
    BY <2>1 DEF WellFormed
  <2>3. i - 1 \in 1 .. n
    BY <1>1, <2>2
  <2> QED
    BY <1>2, <2>2, <2>3
<1>4. ASSUME NEW i \in 1 .. n - 1, g[i].kind = "key" PROVE g[i + 1].kind = "val"
  <2>1. i \in 1 .. n /\ i + 1 \in 1 .. n /\ i \in 1 .. Len(f) - 1
    BY <1>0, <1>1
  <2> QED
    BY <1>2, <1>4, <2>1 DEF WellFormed
<1> QED
  BY <1>2, <1>3, <1>4 DEF WellFormed, g

LEMMA ConcatComplete ==
    ASSUME NEW f, NEW g, Complete(f), Complete(g)
    PROVE  Complete(f \o g)
<1> DEFINE a == Len(f)
           b == Len(g)
           h == f \o g
<1>0. f \in Seq(Line) /\ g \in Seq(Line)
  BY DEF Complete, WellFormed
<1>1. h \in Seq(Line) /\ IsConcat(h, f, g)
  BY <1>0, ConcatAt
<1> HIDE DEF h
<1>2. /\ a \in Nat /\ b \in Nat /\ Len(h) = a + b /\ \A l \in 1 .. a : h[l] = f[l]
      /\ \A l \in 1 .. b : h[a + l] = g[l]
      /\ \A l \in 1 .. a + b : l \in 1 .. a \/ \E k \in 1 .. b : l = a + k
  BY <1>1 DEF IsConcat
<1>3. /\ \A i \in 1 .. a : f[i].kind = "val" => i > 1 /\ f[i - 1].kind = "key" /\ IsValueOf(f[i - 1], f[i])
      /\ \A i \in 1 .. b : g[i].kind = "val" => i > 1 /\ g[i - 1].kind = "key" /\ IsValueOf(g[i - 1], g[i])
      /\ \A i \in 1 .. a - 1 : f[i].kind = "key" => f[i + 1].kind = "val"
      /\ \A i \in 1 .. b - 1 : g[i].kind = "key" => g[i + 1].kind = "val"
      /\ a > 0 => f[a].kind # "key"
      /\ b > 0 => g[b].kind # "key"
  BY DEF Complete, WellFormed
<1> HIDE DEF a, b
<1>4. ASSUME NEW i \in 1 .. a + b, h[i].kind = "val"
      PROVE  i > 1 /\ h[i - 1].kind = "key" /\ IsValueOf(h[i - 1], h[i])
  <2>1. CASE i \in 1 .. a
    <3>1. i > 1 /\ f[i - 1].kind = "key" /\ IsValueOf(f[i - 1], f[i])
      BY <1>2, <1>3, <1>4, <2>1
    <3>2. i - 1 \in 1 .. a
      BY <1>2, <2>1, <3>1
    <3> QED
      BY <1>2, <2>1, <3>1, <3>2
  <2>2. ASSUME NEW k \in 1 .. b, i = a + k
        PROVE  i > 1 /\ h[i - 1].kind = "key" /\ IsValueOf(h[i - 1], h[i])
    <3>1. k > 1 /\ g[k - 1].kind = "key" /\ IsValueOf(g[k - 1], g[k])
      BY <1>2, <1>3, <1>4, <2>2
    <3>2. k - 1 \in 1 .. b /\ i - 1 = a + (k - 1) /\ i > 1
      <4>1. a \in Nat /\ b \in Nat /\ k \in Nat /\ k > 1 /\ k <= b
        BY <1>2, <3>1
      <4> QED
        BY <2>2, <4>1
    <3> QED
      BY <1>2, <2>2, <3>1, <3>2
  <2> QED
    BY <1>2, <2>1, <2>2
<1>5. ASSUME NEW i \in 1 .. a + b - 1, h[i].kind = "key" PROVE h[i + 1].kind = "val"
  <2>0. i \in 1 .. a + b
    BY <1>2
  <2>1. CASE i \in 1 .. a
    <3>1. i \in 1 .. a - 1
      BY <1>2, <1>3, <1>5, <2>1
    <3>2. i + 1 \in 1 .. a
      BY <1>2, <3>1
    <3> QED
      BY <1>2, <1>3, <1>5, <2>1, <3>1, <3>2
  <2>2. ASSUME NEW k \in 1 .. b, i = a + k PROVE h[i + 1].kind = "val"
    <3>1. k \in 1 .. b - 1 /\ k + 1 \in 1 .. b /\ i + 1 = a + (k + 1)
      BY <1>2, <2>2
    <3>2. h[i] = g[k] /\ h[i + 1] = g[k + 1]
      BY <1>2, <2>2, <3>1
    <3>3. g[k].kind = "key"
      BY <1>5, <3>2
    <3>4. g[k + 1].kind = "val"
      BY <1>3, <3>1, <3>3
    <3> QED
      BY <3>2, <3>4
  <2> QED
    BY <1>2, <2>0, <2>1, <2>2
<1>6. ASSUME a + b > 0 PROVE h[a + b].kind # "key"
  <2>1. CASE b > 0
    <3>1. b \in 1 .. b
      BY <1>2, <2>1
    <3> QED
      BY <1>2, <1>3, <2>1, <3>1
  <2>2. CASE b = 0
    <3>1. a \in 1 .. a /\ a + b = a /\ a > 0
      BY <1>2, <1>6, <2>2
    <3> QED
      BY <1>2, <1>3, <3>1
  <2> QED
    BY <1>2, <2>1, <2>2
<1> QED
  BY <1>1, <1>2, <1>4, <1>5, <1>6 DEF Complete, WellFormed, h

LEMMA FlattenComplete ==
    ASSUME NEW n \in Nat, NEW seqs, seqs = [i \in 1 .. n |-> seqs[i]],
           \A i \in 1 .. n : Complete(seqs[i])
    PROVE  Complete(FlattenSeq(seqs))
<1>1. seqs \in [1 .. n -> Seq(Line)]
  <2>1. \A i \in 1 .. n : seqs[i] \in Seq(Line)
    BY DEF Complete, WellFormed
  <2> QED
    BY <2>1
<1>2. PICK fl \in [0 .. n -> Seq(Line)] : Parts(seqs, n, fl)
  BY <1>1, PartsExist
<1>3. FlattenSeq(seqs) = fl[n]
  BY <1>1, <1>2, FlattenIsParts
<1> DEFINE T == {k \in Nat : k <= n => Complete(fl[k])}
<1>4. 0 \in T
  <2>1. fl[0] = <<>>
    BY <1>2 DEF Parts
  <2>2. Complete(<<>>)
    BY EmptySeq DEF Complete, WellFormed
  <2> QED
    BY <2>1, <2>2
<1>5. ASSUME NEW k \in T PROVE k + 1 \in T
  <2> SUFFICES ASSUME k + 1 <= n PROVE Complete(fl[k + 1])
    BY <1>5
  <2>1. k + 1 \in 1 .. n /\ (k + 1) - 1 = k /\ Complete(fl[k])
    BY <1>5
  <2>2. fl[k + 1] = fl[k] \o seqs[k + 1]
    BY <1>2, <2>1 DEF Parts
  <2> QED
    BY <2>1, <2>2, ConcatComplete
<1>6. n \in T
  <2> HIDE DEF T
  <2>1. T \subseteq Nat
    BY DEF T
  <2> QED
    BY <1>4, <1>5, <2>1, SetInduction
<1> QED
  BY <1>3, <1>6

\* What is saved of a MIB.
LEMMA SavedComplete ==
    ASSUME NEW m \in Mib, NEW d \in DescOf[m], config[m] \in Value(TypeOf[m])
    PROVE  Complete(SavedLines(m, d))
<1> DEFINE k == KeyLine(d, TypeOf[m])
           v == ValLine(TypeOf[m], config[m])
           f == SavedLines(m, d)
<1>1. d \in Desc /\ TypeOf[m] \in {"ip", "string"}
  BY RegistryAssumption
<1>2. k \in Line /\ k.kind = "key" /\ k.key = d /\ k.type = TypeOf[m]
  BY <1>1, EmptySeq DEF Line, KeyLine
<1>3. EndLine \in Line /\ EndLine.kind = "end"
  BY EmptySeq DEF Line, EndLine
<1>4. v \in Line /\ v.kind = "val"
  <2>1. v.text \in Seq(Printed)
    BY ValRead
  <2>2. v = [kind |-> "val", key |-> NULL, type |-> TypeOf[m], text |-> v.text]
    BY DEF ValLine
  <2> HIDE DEF v
  <2> QED
    BY <1>1, <2>1, <2>2 DEF Line
<1>5. IsValueOf(k, v)
  BY <1>2 DEF IsValueOf
<1>6. f = <<k, v, EndLine>>
  BY DEF SavedLines
<1> HIDE DEF k, v, f
<1>7. f \in Seq(Line) /\ Len(f) = 3 /\ f[1] = k /\ f[2] = v /\ f[3] = EndLine
  BY <1>2, <1>3, <1>4, <1>6
<1>8. \A i \in 1 .. 3 : i = 1 \/ i = 2 \/ i = 3
  OBVIOUS
<1>9. \A i \in 1 .. Len(f) : f[i].kind = "val" => i > 1 /\ f[i - 1].kind = "key" /\ IsValueOf(f[i - 1], f[i])
  BY <1>2, <1>3, <1>4, <1>5, <1>7, <1>8
<1>10. \A i \in 1 .. Len(f) - 1 : f[i].kind = "key" => f[i + 1].kind = "val"
  BY <1>2, <1>3, <1>4, <1>7, <1>8
<1> QED
  BY <1>3, <1>7, <1>9, <1>10 DEF Complete, WellFormed, f

-----------------------------------------------------------------------------
(* Saving and loading. *)

ConfigOK ==
    /\ config \in [Mib -> Value("ip") \cup Value("string")]
    /\ \A m \in Mib : config[m] \in Value(TypeOf[m])

DescsOK == \A a \in Addr : reg[a] # NULL => reg[a].desc \in DescOf[reg[a].mib]

Wanted(n, i) == SavedAt(n, i) /\ Plain(Between(file[i + 1]))

LoadedUpTo(pos) ==
    \A n \in Nodes : \A i \in 1 .. pos - 1 :
        Wanted(n, i) => config[n.key] = Original(n.key, Between(file[i + 1]))

\* The load has read the first pos lines: s_line_info is what the last of them gave,
\* if that was a key line, and the values among them are loaded.
Reading(pos) ==
    /\ todo = SubSeq(file, pos + 1, Len(file))
    /\ (pos > 0 /\ file[pos].kind = "key") => info.key = file[pos].key /\ info.type = file[pos].type
    /\ LoadedUpTo(pos)

LoadOK == loading => up /\ \E pos \in 0 .. Len(file) : Reading(pos)

FieldsOK ==
    /\ loading \in BOOLEAN /\ order \in Seq(Mib) /\ failed \in 0 .. MaxFailed
    /\ info.key \in Desc \cup {NULL}

FInv == ConfigOK /\ DescsOK /\ WellFormed(file) /\ LoadOK /\ FieldsOK

\* The next line of a load.
LEMMA NextLine ==
    ASSUME WellFormed(file), NEW pos \in 0 .. Len(file), todo = SubSeq(file, pos + 1, Len(file))
    PROVE  /\ Len(file) \in Nat /\ (todo = <<>> <=> pos = Len(file))
           /\ todo # <<>> => /\ pos + 1 \in 1 .. Len(file) /\ Head(todo) = file[pos + 1]
                             /\ file[pos + 1] \in Line
                             /\ Tail(todo) = SubSeq(file, (pos + 1) + 1, Len(file))
<1> DEFINE N == Len(file)
<1>1. file \in Seq(Line) /\ N \in Nat /\ \A i \in 1 .. N : file[i] \in Line
  BY LenProperties, ElementOfSeq DEF WellFormed
<1>2. CASE pos = N
  <2>1. todo = <<>>
    BY <1>1, <1>2, SubSeqEmpty
  <2> QED
    BY <1>1, <1>2, <2>1
<1>3. CASE pos # N
  <2>1. pos + 1 \in 1 .. N /\ N \in pos + 1 .. N /\ pos + 1 \in Int /\ N \in Int /\ pos + 1 <= N
    BY <1>1, <1>3
  <2>2. Head(todo) = file[pos + 1] /\ Tail(todo) = SubSeq(file, (pos + 1) + 1, N)
    BY <1>1, <2>1, HeadTailOfSubSeq
  <2>3. Len(todo) = N - (pos + 1) + 1
    <3>1. \A i \in pos + 1 .. N : file[i] \in Line
      BY <1>1, <2>1
    <3> QED
      BY <2>1, <3>1, SubSeqProperties
  <2>4. todo # <<>>
    <3>1. N - (pos + 1) + 1 # 0
      BY <1>1, <2>1
    <3> QED
      BY <2>3, <3>1
  <2> QED
    BY <1>1, <1>3, <2>1, <2>2, <2>4
<1> QED
  BY <1>2, <1>3

\* One more line is read.
LEMMA LineRead ==
    ASSUME FInv, NEW pos \in 0 .. Len(file), Reading(pos), todo # <<>>,
           UNCHANGED <<rows, reg, file>>, todo' = Tail(todo),
           file[pos + 1].kind = "key" =>
               info'.key = file[pos + 1].key /\ info'.type = file[pos + 1].type,
           \A n \in Nodes : \A i \in 1 .. pos :
               Wanted(n, i) => config'[n.key] = Original(n.key, Between(file[i + 1]))
    PROVE  \E p \in 0 .. Len(file') : Reading(p)'
<1>1. /\ Len(file) \in Nat /\ pos + 1 \in 1 .. Len(file)
      /\ todo' = SubSeq(file, (pos + 1) + 1, Len(file))
  BY NextLine DEF FInv, Reading
<1>2. Nodes' = Nodes
  BY DEF Nodes
<1>3. ASSUME NEW n, NEW i PROVE Wanted(n, i)' <=> Wanted(n, i)
  BY <1>2 DEF Wanted, SavedAt
<1> DEFINE p == pos + 1
<1>4. p \in 0 .. Len(file) /\ p - 1 = pos
  BY <1>1
<1>5. LoadedUpTo(p)'
  <2>1. \A n \in Nodes' : \A i \in 1 .. p - 1 :
           Wanted(n, i)' => config'[n.key] = Original(n.key, Between(file'[i + 1]))
    BY <1>2, <1>3, <1>4
  <2> QED
    BY <2>1 DEF LoadedUpTo
<1> HIDE DEF p
<1>6. /\ todo' = SubSeq(file', p + 1, Len(file'))
      /\ (p > 0 /\ file'[p].kind = "key") => info'.key = file'[p].key /\ info'.type = file'[p].type
  BY <1>1 DEF p
<1>7. Reading(p)'
  BY <1>5, <1>6 DEF Reading
<1> QED
  BY <1>4, <1>7

\* A line that is not a value line: no key line stands before it.
LEMMA OtherLine ==
    ASSUME FInv, NEW pos \in 0 .. Len(file), Reading(pos), todo # <<>>, file[pos + 1].kind # "val",
           config' = config
    PROVE  \A n \in Nodes : \A i \in 1 .. pos :
               Wanted(n, i) => config'[n.key] = Original(n.key, Between(file[i + 1]))
<1> SUFFICES ASSUME NEW n \in Nodes, NEW i \in 1 .. pos, Wanted(n, i)
             PROVE  config[n.key] = Original(n.key, Between(file[i + 1]))
  OBVIOUS
<1>1. Len(file) \in Nat /\ pos + 1 \in 1 .. Len(file)
  BY NextLine DEF FInv, Reading
<1>2. CASE i = pos
  <2>1. i \in 1 .. Len(file) - 1 /\ file[i].kind = "key"
    BY <1>1, <1>2 DEF Wanted, SavedAt
  <2>2. file[i + 1].kind = "val"
    BY <2>1 DEF FInv, WellFormed
  <2> QED
    BY <1>2, <2>2
<1>3. CASE i # pos
  <2>1. i \in 1 .. pos - 1
    BY <1>1, <1>3
  <2> QED
    BY <2>1 DEF Reading, LoadedUpTo
<1> QED
  BY <1>2, <1>3

LEMMA LoadKeyLoadOK ==
    ASSUME IInv, FInv, LoadKeyLine
    PROVE  LoadOK' /\ info'.key \in Desc \cup {NULL}
<1>1. /\ loading /\ todo # <<>> /\ Head(todo).kind = "key"
      /\ info' = [key |-> Head(todo).key, type |-> Head(todo).type]
      /\ todo' = Tail(todo) /\ UNCHANGED <<up, rows, reg, config, file>>
  BY DEF LoadKeyLine, registry
<1>2. up /\ \E pos \in 0 .. Len(file) : Reading(pos)
  BY <1>1 DEF FInv, LoadOK
<1>3. PICK pos \in 0 .. Len(file) : Reading(pos)
  BY <1>2
<1>4. Head(todo) = file[pos + 1] /\ file[pos + 1] \in Line
  BY <1>1, <1>3, NextLine DEF FInv, Reading
<1>5. file[pos + 1].kind # "val"
  BY <1>1, <1>4
<1>6. \E p \in 0 .. Len(file') : Reading(p)'
  BY <1>1, <1>3, <1>4, <1>5, OtherLine, LineRead
<1>7. info'.key \in Desc \cup {NULL}
  BY <1>1, <1>4 DEF Line
<1> QED
  BY <1>1, <1>2, <1>6, <1>7 DEF LoadOK

LEMMA LoadOtherLoadOK ==
    ASSUME IInv, FInv, LoadOtherLine
    PROVE  LoadOK'
<1>1. /\ loading /\ todo # <<>> /\ Head(todo).kind = "end"
      /\ todo' = Tail(todo) /\ UNCHANGED <<up, rows, reg, config, file>>
  BY DEF LoadOtherLine, registry
<1>2. up /\ \E pos \in 0 .. Len(file) : Reading(pos)
  BY <1>1 DEF FInv, LoadOK
<1>3. PICK pos \in 0 .. Len(file) : Reading(pos)
  BY <1>2
<1>4. Head(todo) = file[pos + 1]
  BY <1>1, <1>3, NextLine DEF FInv, Reading
<1>5. file[pos + 1].kind # "val" /\ file[pos + 1].kind # "key"
  BY <1>1, <1>4
<1>6. \E p \in 0 .. Len(file') : Reading(p)'
  BY <1>1, <1>3, <1>5, OtherLine, LineRead
<1> QED
  BY <1>1, <1>2, <1>6 DEF LoadOK

\* A value line: the value goes to the MIB of the key line before it, and leaves alone
\* what was loaded before.
LEMMA LoadValLoadOK ==
    ASSUME IInv, FInv, LoadValLine
    PROVE  LoadOK' /\ ConfigOK' /\ info'.key \in Desc \cup {NULL}
<1> DEFINE content == TextRead(Head(todo).text)
           a == ecos_mib_find_by_desc(info.key)
           mib == reg[a].mib
           taken == content.ok /\ a # NULL /\ mib \in Loaded
           val == Taken(TypeOf[mib], content.text)
<1>1. /\ loading /\ todo # <<>> /\ Head(todo).kind = "val"
      /\ config' = IF taken THEN ecos_load_common(mib, read_type_val(info.type, content.text)) ELSE config
      /\ todo' = Tail(todo) /\ UNCHANGED <<up, rows, reg, file>>
  BY DEF LoadValLine, registry
<1>2. up /\ \E pos \in 0 .. Len(file) : Reading(pos)
  BY <1>1 DEF FInv, LoadOK
<1>3. PICK pos \in 0 .. Len(file) : Reading(pos)
  BY <1>2
<1> DEFINE line == file[pos + 1]
<1>4. /\ Len(file) \in Nat /\ pos + 1 \in 1 .. Len(file) /\ Head(todo) = line
  BY <1>1, <1>3, NextLine DEF FInv, Reading
<1>5. /\ pos + 1 > 1 /\ file[(pos + 1) - 1].kind = "key" /\ IsValueOf(file[(pos + 1) - 1], line)
  BY <1>1, <1>4 DEF FInv, WellFormed
<1>6. /\ pos \in 1 .. Len(file) /\ file[pos].kind = "key" /\ IsValueOf(file[pos], line) /\ pos > 0
  <2>1. (pos + 1) - 1 = pos /\ pos \in 1 .. Len(file) /\ pos > 0
    BY <1>4, <1>5
  <2> QED
    BY <1>5, <2>1
<1>7. info.key = file[pos].key /\ info.type = file[pos].type
  BY <1>3, <1>6 DEF Reading
<1>8. PICK m \in Mib : /\ file[pos].key \in DescOf[m] /\ file[pos].type = TypeOf[m]
                       /\ \E v \in Value(TypeOf[m]) : line = ValLine(TypeOf[m], v)
  BY <1>6 DEF IsValueOf
<1>9. PICK v \in Value(TypeOf[m]) : line = ValLine(TypeOf[m], v)
  BY <1>8
<1>10. content = TextRead(line.text)
  BY <1>4
<1> HIDE DEF content, line, a
<1>11. /\ content.ok => Taken(TypeOf[m], content.text) \in Value(TypeOf[m])
       /\ Plain(Between(line)) =>
             content.ok /\ Taken(TypeOf[m], content.text) = Original(m, Between(line))
  BY <1>9, <1>10, ValRead
\* The node that is found.
<1>12. ASSUME a # NULL
       PROVE  /\ \E n \in Nodes : n.arg = a /\ n.key = mib
              /\ mib \in Mib /\ reg[a].desc = file[pos].key /\ TypeOf[mib] = TypeOf[m]
  <2>1. PICK n \in Nodes : n.arg = a /\ reg[n.arg].desc = info.key
    BY <1>12, FindByDesc DEF a
  <2>2. n.arg \in Addr /\ n.key \in Mib /\ reg[n.arg] # NULL /\ reg[n.arg].mib = n.key
    BY ArgsUsed DEF IInv, NodesOK
  <2>3. reg[a].desc \in DescOf[mib] /\ mib \in Mib /\ n.key = mib
    BY <2>1, <2>2 DEF FInv, DescsOK
  <2>4. reg[a].desc = file[pos].key
    BY <1>7, <2>1
  <2>5. DescOf[mib] \cap DescOf[m] # {}
    BY <1>8, <2>3, <2>4
  <2>6. TypeOf[mib] = TypeOf[m]
    BY <2>3, <2>5, RegistryAssumption, ZenonT(60)
  <2> QED
    BY <2>1, <2>3, <2>4, <2>6
<1>13. ASSUME taken
       PROVE  /\ config' = [config EXCEPT ![mib] = val] /\ mib \in Mib
              /\ val \in Value(TypeOf[mib]) /\ val = Taken(TypeOf[m], content.text)
  <2>1. mib \in Mib /\ TypeOf[mib] = TypeOf[m] /\ info.type = TypeOf[mib]
    BY <1>7, <1>8, <1>12, <1>13
  <2>2. config' = [config EXCEPT ![mib] = val]
    BY <1>1, <1>13, <2>1 DEF ecos_load_common, Taken
  <2> QED
    BY <1>11, <1>13, <2>1, <2>2
<1>14. ConfigOK'
  <2>1. CASE ~taken
    BY <1>1, <2>1 DEF FInv, ConfigOK
  <2>2. CASE taken
    <3>0. Value(TypeOf[mib]) \subseteq Value("ip") \cup Value("string")
      <4>1. TypeOf[mib] \in {"ip", "string"}
        BY <1>13, <2>2, RegistryAssumption, ZenonT(60)
      <4> QED
        BY <4>1
    <3> HIDE DEF val, mib, taken
    <3>1. /\ config' = [config EXCEPT ![mib] = val] /\ mib \in Mib /\ val \in Value(TypeOf[mib])
          /\ val \in Value("ip") \cup Value("string")
      BY <1>13, <2>2, <3>0
    <3>2. config' \in [Mib -> Value("ip") \cup Value("string")]
      BY <3>1 DEF FInv, ConfigOK
    <3>3. \A k \in Mib : config'[k] \in Value(TypeOf[k])
      BY <3>1 DEF FInv, ConfigOK
    <3> QED
      BY <3>2, <3>3 DEF ConfigOK
  <2> QED
    BY <2>1, <2>2
<1>15. ASSUME NEW n \in Nodes, NEW i \in 1 .. pos, Wanted(n, i)
       PROVE  config'[n.key] = Original(n.key, Between(file[i + 1]))
  <2>0. n.key \in Mib /\ n.arg \in Addr /\ reg[n.arg].mib = n.key
    BY ArgsUsed DEF IInv, NodesOK
  <2>1. CASE i = pos
    <3>1. reg[n.arg].desc = info.key /\ n.key \in Loaded /\ Plain(Between(line))
      BY <1>7, <1>15, <2>1 DEF Wanted, SavedAt, line
    <3>2. a # NULL
      BY <3>1, FindByDesc DEF a
    <3>3. PICK x \in Nodes : x.arg = a /\ x.key = mib
      BY <1>12, <3>2
    <3>4. x = n
      BY <1>7, <1>12, <1>15, <3>1, <3>2, <3>3 DEF Wanted, SavedAt
    <3>5. mib = n.key /\ taken
      BY <1>11, <3>1, <3>2, <3>3, <3>4
    <3>6. config'[n.key] = val
      <4>1. config' = [config EXCEPT ![n.key] = val]
        BY <1>13, <3>5
      <4> HIDE DEF val
      <4> QED
        BY <2>0, <4>1 DEF FInv, ConfigOK
    <3>7. val = Original(m, Between(line))
      BY <1>11, <1>13, <3>1, <3>5
    <3>8. Original(m, Between(line)) = Original(n.key, Between(line))
      BY <1>12, <3>2, <3>5 DEF Original
    <3> QED
      BY <2>1, <3>6, <3>7, <3>8 DEF line
  <2>2. CASE i # pos
    <3>1. i \in 1 .. pos - 1
      BY <1>4, <2>2
    <3>2. config[n.key] = Original(n.key, Between(file[i + 1]))
      BY <1>3, <1>15, <3>1 DEF Reading, LoadedUpTo
    <3>3. CASE ~taken
      BY <1>1, <3>2, <3>3
    <3>4. CASE taken
      <4>1. mib # n.key
        <5> SUFFICES ASSUME mib = n.key PROVE FALSE
          OBVIOUS
        <5>1. PICK x \in Nodes : x.arg = a /\ x.key = mib
          BY <1>12, <3>4
        <5>2. x = n
          BY <5>1, NodesInRows DEF IInv
        <5>3. file[pos].key = file[i].key
          BY <1>12, <1>15, <3>4, <5>1, <5>2 DEF Wanted, SavedAt
        <5> QED
          BY <1>6, <1>15, <2>2, <5>3 DEF Wanted, SavedAt
      <4>2. config'[n.key] = config[n.key]
        <5>1. config' = [config EXCEPT ![mib] = val]
          BY <1>13, <3>4
        <5> HIDE DEF val, mib
        <5> QED
          BY <2>0, <4>1, <5>1 DEF FInv, ConfigOK
      <4> QED
        BY <3>2, <4>2
    <3> QED
      BY <3>3, <3>4
  <2> QED
    BY <2>1, <2>2
<1>16. file[pos + 1].kind # "key"
  BY <1>1, <1>4 DEF line
<1>17. info'.key \in Desc \cup {NULL}
  <2>1. info.key \in Desc \cup {NULL}
    BY DEF FInv, FieldsOK
  <2>2. info' = info \/ info' = [key |-> NULL, type |-> info.type]
    BY DEF LoadValLine
  <2> QED
    BY <2>1, <2>2
<1>18. \E p \in 0 .. Len(file') : Reading(p)'
  BY <1>1, <1>3, <1>15, <1>16, LineRead
<1> QED
  BY <1>1, <1>2, <1>14, <1>18, <1>17 DEF LoadOK

\* SaveFile: the lines of each MIB of the order list, or as many as were written.
LEMMA SaveWellFormed ==
    ASSUME IInv, FInv, SaveFile
    PROVE  WellFormed(file')
<1> DEFINE LinesOf(m) == IF m \in Loaded /\ ecos_shash32_node_search(m) # NULL
                         THEN SavedLines(m, reg[ecos_shash32_node_search(m)].desc) ELSE <<>>
           seqs == [i \in 1 .. Len(order) |-> LinesOf(order[i])]
           lines == FlattenSeq(seqs)
<1>1. PICK n \in 0 .. Len(lines) : file' = SubSeq(lines, 1, n)
  BY DEF SaveFile
<1>2. Len(order) \in Nat /\ \A i \in 1 .. Len(order) : order[i] \in Mib
  BY LenProperties, ElementOfSeq DEF FInv, FieldsOK
<1>3. ASSUME NEW m \in Mib PROVE Complete(LinesOf(m))
  <2>1. CASE m \in Loaded /\ ecos_shash32_node_search(m) # NULL
    <3> DEFINE x == ecos_shash32_node_search(m)
               n0 == [key |-> m, arg |-> x]
    <3>1. n0 \in Nodes /\ n0.key = m /\ n0.arg = x
      BY <2>1, SearchFinds DEF IInv
    <3>2. LinesOf(m) = SavedLines(m, reg[x].desc)
      BY <2>1
    <3> HIDE DEF x, n0, LinesOf
    <3>3. x \in Addr /\ reg[x] # NULL /\ reg[x].mib = m
      BY <3>1, ArgsUsed DEF IInv, NodesOK
    <3>4. reg[x].desc \in DescOf[m] /\ config[m] \in Value(TypeOf[m])
      BY <3>3 DEF FInv, DescsOK, ConfigOK
    <3> QED
      BY <3>2, <3>4, SavedComplete
  <2>2. CASE ~(m \in Loaded /\ ecos_shash32_node_search(m) # NULL)
    <3>1. LinesOf(m) = <<>>
      BY <2>2
    <3> HIDE DEF LinesOf
    <3> QED
      BY <3>1, EmptySeq DEF Complete, WellFormed
  <2> QED
    BY <2>1, <2>2
<1> HIDE DEF LinesOf
<1>4. seqs = [i \in 1 .. Len(order) |-> seqs[i]] /\ \A i \in 1 .. Len(order) : Complete(seqs[i])
  BY <1>2, <1>3
<1> HIDE DEF seqs
<1>5. Complete(lines)
  BY <1>2, <1>4, FlattenComplete
<1> HIDE DEF lines
<1>6. WellFormed(lines)
  BY <1>5 DEF Complete
<1> QED
  BY <1>1, <1>6, PrefixWellFormed

LEMMA OrderType ==
    ASSUME order \in Seq(Mib), NEW m \in Mib
    PROVE  add_mib_register_order(m) \in Seq(Mib)
  BY AppendProperties DEF add_mib_register_order

\* Registrations that are made are described as their MIB may be.
LEMMA DescsKept ==
    ASSUME IInv, FInv, [Next]_vars
    PROVE  DescsOK'
<1>1. ASSUME NEW m \in Mib, NEW d \in DescOf[m], Register(m, d) \/ RegisterUsed(m, d) PROVE DescsOK'
  <2>1. PICK a \in Addr : reg' = [reg EXCEPT ![a] = [mib |-> m, desc |-> d]]
    BY <1>1 DEF Register, RegisterUsed
  <2>2. DOMAIN reg = Addr
    BY DEF IInv, NodesOK
  <2> QED
    BY <2>1, <2>2 DEF DescsOK, FInv
<1>2. ASSUME NEW m \in Mib, ecos_mib_unregister(m) PROVE DescsOK'
  <2>1. reg' = [reg EXCEPT ![ecos_shash32_node_search(m)] = NULL]
    BY <1>2 DEF ecos_mib_unregister
  <2>2. DOMAIN reg = Addr
    BY DEF IInv, NodesOK
  <2> QED
    BY <2>1, <2>2 DEF DescsOK, FInv
<1>3. CASE ecos_mib_reg_free
  <2>1. \A a \in Addr : reg'[a] = NULL \/ reg'[a] = reg[a]
    BY <1>3 DEF ecos_mib_reg_free
  <2> QED
    BY <2>1 DEF DescsOK, FInv
<1>4. CASE Restart
  BY <1>4 DEF Restart, DescsOK
<1>5. CASE UNCHANGED reg
  BY <1>5 DEF DescsOK, FInv
<1>6. \/ ecos_mib_reg_init \/ SaveFile \/ Load \/ UNCHANGED vars \/ \E m \in Mib : Write(m)
      => UNCHANGED reg
  BY DEF ecos_mib_reg_init, SaveFile, Load, LoadOpen, LoadKeyLine, LoadValLine, LoadOtherLine,
         LoadEnd, Write, vars, registry
<1> QED
  BY <1>1, <1>2, <1>3, <1>4, <1>5, <1>6 DEF Next

\* A load is not under way before or after the other actions.
LEMMA LoadKept ==
    ASSUME IInv, FInv, [Next]_vars
    PROVE  LoadOK'
<1>1. CASE LoadKeyLine
  BY <1>1, LoadKeyLoadOK
<1>2. CASE LoadValLine
  BY <1>2, LoadValLoadOK
<1>3. CASE LoadOtherLine
  BY <1>3, LoadOtherLoadOK
<1>4. CASE LoadOpen
  <2>1. up' = TRUE /\ todo' = file /\ file' = file /\ rows' = rows
    BY <1>4 DEF LoadOpen, registry, FInv, FieldsOK, IInv, ClosedIsEmpty
  <2>2. file \in Seq(Line) /\ Len(file) \in Nat
    BY LenProperties DEF FInv, WellFormed
  <2>3. todo' = SubSeq(file', 0 + 1, Len(file'))
    BY <2>1, <2>2, SubSeqFull
  <2>4. LoadedUpTo(0)'
    BY DEF LoadedUpTo
  <2>5. Reading(0)'
    BY <2>3, <2>4 DEF Reading
  <2>6. 0 \in 0 .. Len(file')
    BY <2>1, <2>2
  <2> QED
    BY <2>1, <2>5, <2>6 DEF LoadOK
<1>5. CASE loading' = FALSE
  BY <1>5 DEF LoadOK
<1>6. CASE UNCHANGED vars
  <2>1. UNCHANGED <<up, rows, reg, config, file, todo, loading, info>>
    BY <1>6 DEF vars, registry, reader
  <2>2. Nodes' = Nodes
    BY <2>1 DEF Nodes
  <2> QED
    <3> SUFFICES ASSUME loading PROVE up' /\ \E pos \in 0 .. Len(file') : Reading(pos)'
      BY <2>1 DEF LoadOK
    <3>1. up /\ \E pos \in 0 .. Len(file) : Reading(pos)
      BY DEF FInv, LoadOK
    <3>2. PICK pos \in 0 .. Len(file) : Reading(pos)
      BY <3>1
    <3>3. ASSUME NEW n, NEW i PROVE Wanted(n, i)' <=> Wanted(n, i)
      BY <2>1, <2>2 DEF Wanted, SavedAt
    <3>4. LoadedUpTo(pos)'
      BY <2>1, <2>2, <3>2, <3>3 DEF Reading, LoadedUpTo
    <3>5. Reading(pos)'
      BY <2>1, <3>2, <3>4 DEF Reading
    <3> QED
      BY <2>1, <3>1, <3>5
<1>7. LoadEnd \/ Restart => loading' = FALSE
  BY DEF LoadEnd, Restart
<1>8. \/ ecos_mib_reg_free \/ SaveFile
      \/ \E m \in Mib : \/ ecos_mib_unregister(m) \/ Write(m)
                        \/ \E d \in DescOf[m] : Register(m, d) \/ RegisterUsed(m, d)
      => loading' = FALSE
  BY DEF ecos_mib_reg_free, SaveFile, ecos_mib_unregister, Write, Register, RegisterUsed, reader,
         FInv, FieldsOK
<1>9. ecos_mib_reg_init => loading' = FALSE
  BY DEF ecos_mib_reg_init, reader, FInv, FieldsOK, LoadOK
<1> QED
  BY <1>1, <1>2, <1>3, <1>4, <1>5, <1>6, <1>7, <1>8, <1>9 DEF Next, Load

LEMMA ConfigKept ==
    ASSUME IInv, FInv, [Next]_vars
    PROVE  ConfigOK'
<1>0. \A m \in Mib : \A v \in Data[m] :
         v \in Value(TypeOf[m]) /\ v \in Value("ip") \cup Value("string")
  BY RegistryAssumption
<1>1. CASE LoadValLine
  BY <1>1, LoadValLoadOK
<1>2. ASSUME NEW m \in Mib, Write(m) PROVE ConfigOK'
  <2>1. PICK v \in Data[m] : config' = [config EXCEPT ![m] = v]
    BY <1>2 DEF Write
  <2>2. v \in Value(TypeOf[m]) /\ v \in Value("ip") \cup Value("string")
    BY <1>0
  <2> QED
    BY <2>1, <2>2 DEF FInv, ConfigOK
<1>3. CASE Restart
  <2>1. config' = Default
    BY <1>3 DEF Restart
  <2>2. Default = [m \in Mib |-> Default[m]] /\ \A m \in Mib : Default[m] \in Data[m]
    BY RegistryAssumption
  <2>3. Default \in [Mib -> Value("ip") \cup Value("string")]
    BY <1>0, <2>2
  <2> QED
    BY <1>0, <2>1, <2>2, <2>3 DEF ConfigOK
<1>4. CASE UNCHANGED config
  BY <1>4 DEF FInv, ConfigOK
<1>5. \/ ecos_mib_reg_init \/ ecos_mib_reg_free \/ SaveFile
      \/ LoadOpen \/ LoadKeyLine \/ LoadOtherLine \/ LoadEnd \/ UNCHANGED vars
      \/ \E m \in Mib : ecos_mib_unregister(m) \/ \E d \in DescOf[m] : Register(m, d) \/ RegisterUsed(m, d)
      => UNCHANGED config
  BY DEF ecos_mib_reg_init, ecos_mib_reg_free, SaveFile, LoadOpen, LoadKeyLine, LoadOtherLine, LoadEnd,
         ecos_mib_unregister, Register, RegisterUsed, vars
<1> QED
  BY <1>1, <1>2, <1>3, <1>4, <1>5 DEF Next, Load

LEMMA FileKept ==
    ASSUME IInv, FInv, [Next]_vars
    PROVE  WellFormed(file')
<1>1. CASE SaveFile
  BY <1>1, SaveWellFormed
<1>2. CASE UNCHANGED file
  BY <1>2 DEF FInv
<1>3. SaveFile \/ UNCHANGED file
  BY DEF Next, Load, ecos_mib_reg_init, ecos_mib_reg_free, LoadOpen, LoadKeyLine, LoadValLine,
         LoadOtherLine, LoadEnd, Restart, ecos_mib_unregister, Write, Register, RegisterUsed, vars
<1> QED
  BY <1>1, <1>2, <1>3

LEMMA FieldsKept ==
    ASSUME IInv, FInv, [Next]_vars
    PROVE  FieldsOK'
<1>0. MaxFailed \in Nat /\ <<>> \in Seq(Mib)
  BY RegistryAssumption, EmptySeq
<1>1. CASE LoadKeyLine
  BY <1>1, LoadKeyLoadOK DEF LoadKeyLine, registry, FInv, FieldsOK
<1>2. CASE LoadValLine
  BY <1>2, LoadValLoadOK DEF LoadValLine, registry, FInv, FieldsOK
<1>3. CASE LoadOpen \/ LoadOtherLine \/ LoadEnd
  BY <1>3 DEF LoadOpen, LoadOtherLine, LoadEnd, registry, FInv, FieldsOK
<1>4. CASE ecos_mib_reg_init \/ ecos_mib_reg_free
  BY <1>0, <1>4 DEF ecos_mib_reg_init, ecos_mib_reg_free, reader, FInv, FieldsOK
<1>5. CASE SaveFile \/ \E m \in Mib : Write(m)
  BY <1>5 DEF SaveFile, Write, registry, reader, FInv, FieldsOK
<1>6. CASE Restart
  <2>1. loading' = FALSE /\ order' = <<>> /\ failed' = 0 /\ info' = NoInfo /\ NoInfo.key = NULL
    BY <1>6 DEF Restart, NoInfo
  <2>2. failed' \in 0 .. MaxFailed
    BY <1>0, <2>1
  <2> QED
    BY <1>0, <2>1, <2>2 DEF FieldsOK
<1>7. CASE UNCHANGED vars
  BY <1>7 DEF vars, registry, reader, FInv, FieldsOK
<1>8. ASSUME NEW m \in Mib, ecos_mib_unregister(m) PROVE FieldsOK'
  BY <1>8 DEF ecos_mib_unregister, reader, FInv, FieldsOK
<1>9. ASSUME NEW m \in Mib, NEW d \in DescOf[m], Register(m, d) PROVE FieldsOK'
  <2>1. order' \in Seq(Mib)
    BY <1>9, OrderType DEF Register, FInv, FieldsOK
  <2> QED
    BY <1>9, <2>1 DEF Register, reader, FInv, FieldsOK
<1>10. ASSUME NEW m \in Mib, NEW d \in DescOf[m], RegisterUsed(m, d) PROVE FieldsOK'
  <2>1. failed' \in 0 .. MaxFailed
    BY <1>0, <1>10 DEF RegisterUsed, FInv, FieldsOK
  <2> QED
    BY <1>10, <2>1 DEF RegisterUsed, reader, FInv, FieldsOK
<1> QED
  BY <1>1, <1>2, <1>3, <1>4, <1>5, <1>6, <1>7, <1>8, <1>9, <1>10 DEF Next, Load

LEMMA NextFInv ==
    ASSUME IInv, FInv, [Next]_vars
    PROVE  FInv'
<1>1. ConfigOK' /\ DescsOK' /\ LoadOK' /\ FieldsOK' /\ WellFormed(file')
  BY ConfigKept, DescsKept, LoadKept, FieldsKept, FileKept
<1> QED
  BY <1>1 DEF FInv, WellFormed, IsValueOf

LEMMA InitFInv ==
    ASSUME Init
    PROVE  FInv
<1>1. ConfigOK
  <2>1. config = Default /\ Default = [m \in Mib |-> Default[m]]
    BY RegistryAssumption DEF Init
  <2>2. \A m \in Mib : Default[m] \in Value(TypeOf[m]) /\ Default[m] \in Value("ip") \cup Value("string")
    BY RegistryAssumption
  <2> QED
    BY <2>1, <2>2 DEF ConfigOK
<1>2. WellFormed(file)
  BY EmptySeq DEF Init, WellFormed
<1>3. DescsOK /\ LoadOK
  BY DEF Init, DescsOK, LoadOK
<1>4. FieldsOK
  <2>1. MaxFailed \in Nat /\ <<>> \in Seq(Mib) /\ NoInfo.key = NULL
    BY EmptySeq, RegistryAssumption DEF NoInfo
  <2>2. loading = FALSE /\ order = <<>> /\ failed = 0 /\ info = NoInfo
    BY DEF Init
  <2>3. failed \in 0 .. MaxFailed
    BY <2>1, <2>2
  <2> QED
    BY <2>1, <2>2, <2>3 DEF FieldsOK
<1> QED
  BY <1>1, <1>2, <1>3, <1>4 DEF FInv

LEMMA FileInvariance == Spec => [](IInv /\ FInv)
<1>1. Init => IInv /\ FInv
  BY InitIInv, InitFInv
<1>2. IInv /\ FInv /\ [Next]_vars => IInv' /\ FInv'
  BY NextIInv, NextFInv
<1> QED
  BY <1>1, <1>2, PTL DEF Spec

\* Every variable keeps the type it is declared with: above all, whatever file is
\* loaded, a variable of g_ConfigSet stays a value of its MIB's type.
THEOREM TypeCorrect == Spec => []TypeOK
<1>1. IInv /\ FInv => TypeOK
  <2> SUFFICES ASSUME IInv, FInv PROVE TypeOK
    OBVIOUS
  <2>1. \A i \in 0 .. ROWS - 1 : rows[i] \in Seq([key : Mib, arg : Addr])
    BY DEF IInv, RowsOK, Node
  <2>2. \A a \in Addr : reg[a] = NULL \/ reg[a] \in [mib : Mib, desc : Desc]
    BY DEF IInv, NodesOK, Registration
  <2> QED
    BY <2>1, <2>2 DEF TypeOK, FInv, FieldsOK, ConfigOK, IInv, ClosedIsEmpty
<1> QED
  BY <1>1, FileInvariance, PTL

\* read_content undoes the escape that the head of the configuration file asks for,
\* for a text of any length that does not end with a backslash.
THEOREM EscapesUndone == Spec => []EscapedIsRead
<1>1. FInv => EscapedIsRead
  <2> SUFFICES ASSUME FInv, NEW m \in Mib, TypeOf[m] = "string",
                      config[m] = <<>> \/ Last(config[m]) # Backslash
               PROVE  read_content(<<Quote>> \o Escaped(config[m]) \o <<Quote>>)
                        = [ok |-> TRUE, text |-> config[m]]
    BY DEF EscapedIsRead
  <2>1. config[m] \in Seq(Symbol)
    BY DEF FInv, ConfigOK, Value
  <2> DEFINE t == config[m]
  <2>2. Len(t) > 0 => t[Len(t)] # Backslash
    <3>1. t = <<>> => Len(t) = 0
      OBVIOUS
    <3> QED
      BY <3>1 DEF Last
  <2> HIDE DEF t
  <2>3. read_content(<<Quote>> \o Escaped(t) \o <<Quote>>) = [ok |-> TRUE, text |-> t]
    BY <2>1, <2>2, ReadEscaped DEF t
  <2> QED
    BY <2>3 DEF t
<1> QED
  BY <1>1, FileInvariance, PTL

\* What ecos_config_file_save_key and _save_val wrote, ecos_config_file_load puts back,
\* for any MIBs, any order of registrations and any file, cut off or not.
THEOREM LoadRestores == Spec => []SavedIsLoaded
<1>1. FInv => SavedIsLoaded
  <2> SUFFICES ASSUME FInv, loading, todo = <<>>, NEW n \in Nodes, NEW i \in 1 .. Len(file) - 1,
                      Wanted(n, i)
               PROVE  config[n.key] = Original(n.key, Between(file[i + 1]))
    BY DEF SavedIsLoaded, Wanted
  <2>1. PICK pos \in 0 .. Len(file) : Reading(pos)
    BY DEF FInv, LoadOK
  <2>2. pos = Len(file)
    BY <2>1, NextLine DEF FInv, Reading
  <2> QED
    BY <2>1, <2>2 DEF Reading, LoadedUpTo
<1> QED
  BY <1>1, FileInvariance, PTL
=============================================================================
