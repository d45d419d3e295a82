------------------------- MODULE SkynetTimerProofs -------------------------
(***************************************************************************)
(* Proofs about the timing wheel of skynet_timer.c, for every width of its *)
(* lists and every set of events: an event is always in the list add_node  *)
(* would choose for it now, and the wheel implements SkynetAlarm.          *)
(*                                                                         *)
(* The invariant says of every list which events it has and in which       *)
(* order: those that belong there by the digits of their expiry and of the *)
(* time, in the order they were asked for.  That timer_shift keeps it is   *)
(* arithmetic: when the time enters a block of level l, the events whose   *)
(* digits at level l begin to agree with the time's are those of the one   *)
(* list it deals out.                                                      *)
(***************************************************************************)
EXTENDS SkynetTimer, SequenceTheorems, WellFoundedInduction, NaturalsInduction, TLAPS

-----------------------------------------------------------------------------
(* Division, for blocks of ticks *)

\* Euclidean division, for a divisor that is not a constant.
LEMMA DivMod ==
    ASSUME NEW a \in Nat, NEW d \in Nat \ {0}
    PROVE  a \div d \in Nat /\ a % d \in 0 .. d - 1 /\ a = d * (a \div d) + (a % d)
<1>1. a % d \in 0 .. d - 1
  BY SMT
<1>2. a = d * (a \div d) + (a % d)
  BY SMT
<1>3. a \div d \in Nat
  BY <1>1, <1>2, SMT
<1> QED
  BY <1>1, <1>2, <1>3

\* Quotient and remainder are the only ones.
LEMMA DivUnique ==
    ASSUME NEW a \in Nat, NEW d \in Nat \ {0}, NEW q \in Int, NEW r \in 0 .. d - 1,
           a = d * q + r
    PROVE  a \div d = q /\ a % d = r
<1> DEFINE p == a \div d
           s == a % d
<1>0. p \in Nat /\ s \in 0 .. d - 1 /\ a = d * p + s
  BY DivMod, Zenon
<1> HIDE DEF p, s
<1>1. p \in Int /\ s \in 0 .. d - 1 /\ a = d * p + s
  BY <1>0
<1>2. ASSUME NEW u \in Int, NEW v \in Int, u < v PROVE d * u + d <= d * v
  BY <1>2, SMT
<1>3. ~(q < p)
  BY <1>1, <1>2, SMT
<1>4. ~(p < q)
  BY <1>1, <1>2, SMT
<1>5. p = q
  BY <1>1, <1>3, <1>4, SMT
<1>6. s = r
  BY <1>1, <1>5, SMT
<1> QED
  BY <1>5, <1>6 DEF p, s

\* A block of L blocks of d.
LEMMA DivDiv ==
    ASSUME NEW a \in Nat, NEW d \in Nat \ {0}, NEW L \in Nat \ {0}
    PROVE  /\ a \div (d * L) = (a \div d) \div L
           /\ a % (d * L) = d * ((a \div d) % L) + (a % d)
<1> DEFINE b == a \div d
           r == a % d
           p == b \div L
           c == b % L
<1>1. b \in Nat /\ r \in 0 .. d - 1 /\ a = d * b + r
  BY DivMod
<1>2. p \in Nat /\ c \in 0 .. L - 1 /\ b = L * p + c
  BY <1>1, DivMod
<1> HIDE DEF b, r, p, c
<1>3. d * L \in Nat \ {0}
  BY SMT
<1>4. d * c <= d * (L - 1)
  BY <1>2, SMT
<1>5. d * (L - 1) = d * L - d
  BY SMT
<1>6. d * c \in Nat
  BY <1>2, SMT
<1>7. d * c + r \in 0 .. d * L - 1
  BY <1>1, <1>3, <1>4, <1>5, <1>6, SMT
<1>8. d * b = d * (L * p) + d * c
  BY <1>2, SMT
<1>9. d * (L * p) = (d * L) * p
  BY <1>2, SMT
<1>10. a = (d * L) * p + (d * c + r)
  <2>1. (d * L) * p \in Int /\ d * c \in Int /\ r \in Int
    BY <1>1, <1>2, <1>3, <1>6, SMT
  <2> QED
    BY <1>1, <1>8, <1>9, <2>1, SMT
<1>11. a \div (d * L) = p /\ a % (d * L) = d * c + r
  <2> DEFINE e == d * L
             s == d * c + r
  <2>1. e \in Nat \ {0} /\ p \in Int /\ s \in 0 .. e - 1 /\ a = e * p + s
    BY <1>2, <1>3, <1>7, <1>10
  <2> HIDE DEF e, s
  <2>2. a \div e = p /\ a % e = s
    BY <2>1, DivUnique
  <2> QED
    BY <2>2 DEF e, s
<1> QED
  BY <1>11 DEF b, r, p, c

\* One tick enters the next block when it is at a multiple of d.
LEMMA DivNext ==
    ASSUME NEW a \in Nat, NEW d \in Nat \ {0}
    PROVE  /\ (a + 1) % d # 0 => (a + 1) \div d = a \div d
           /\ (a + 1) % d = 0 => a % d = d - 1 /\ (a + 1) \div d = a \div d + 1
<1> DEFINE b == a \div d
           r == a % d
<1>1. b \in Nat /\ r \in 0 .. d - 1 /\ a = d * b + r
  BY DivMod
<1> HIDE DEF b, r
<1>2. CASE r = d - 1
  <2>1. a + 1 = d * (b + 1) + 0
    BY <1>1, <1>2, SMT
  <2>2. (a + 1) \div d = b + 1 /\ (a + 1) % d = 0
    <3>1. a + 1 \in Nat /\ b + 1 \in Int /\ 0 \in 0 .. d - 1
      BY <1>1
    <3> QED
      BY <2>1, <3>1, DivUnique
  <2> QED
    BY <1>2, <2>2 DEF b, r
<1>3. CASE r # d - 1
  <2>1. a + 1 \in Nat /\ b \in Int /\ r + 1 \in 0 .. d - 1
    BY <1>1, <1>3
  <2>2. a + 1 = d * b + (r + 1)
    BY <1>1, SMT
  <2>3. (a + 1) \div d = b /\ (a + 1) % d = r + 1
    BY <2>1, <2>2, DivUnique
  <2> QED
    BY <1>1, <2>3 DEF b, r
<1> QED
  BY <1>2, <1>3

\* Of two times in a block neither is past the block's last.
LEMMA DivLast ==
    ASSUME NEW a \in Nat, NEW x \in Nat, NEW d \in Nat \ {0},
           x \div d = a \div d, a % d = d - 1
    PROVE  x <= a
<1>1. /\ a \div d \in Nat /\ a = d * (a \div d) + (a % d)
      /\ x % d \in 0 .. d - 1 /\ x = d * (a \div d) + (x % d)
  BY DivMod
<1> DEFINE m == d * (a \div d)
<1>2. m \in Int
  BY <1>1, SMT
<1> HIDE DEF m
<1>3. a = m + (d - 1) /\ x = m + (x % d) /\ x % d \in 0 .. d - 1
  BY <1>1 DEF m
<1> QED
  BY <1>2, <1>3, SMT

\* Times of one block are less than d apart.
LEMMA DivClose ==
    ASSUME NEW a \in Nat, NEW x \in Nat, NEW d \in Nat \ {0}, x \div d = a \div d
    PROVE  a - x < d
<1>1. /\ a \div d \in Nat /\ a % d \in 0 .. d - 1 /\ a = d * (a \div d) + (a % d)
      /\ x % d \in 0 .. d - 1 /\ x = d * (a \div d) + (x % d)
  BY DivMod
<1> DEFINE m == d * (a \div d)
<1>2. m \in Int
  BY <1>1, SMT
<1> HIDE DEF m
<1>3. a = m + (a % d) /\ x = m + (x % d) /\ x % d \in 0 .. d - 1 /\ a % d \in 0 .. d - 1
  BY <1>1 DEF m
<1> QED
  BY <1>2, <1>3, SMT

-----------------------------------------------------------------------------
(* The digits of a time *)

Time == 0 .. Word - 1
Blk(x, l) == x \div Span(l)

\* Each level is TIME_LEVEL times as wide as the one below.
LEMMA SpanFacts ==
    /\ TIME_NEAR \in Nat \ {0, 1} /\ TIME_LEVEL \in Nat \ {0, 1}
    /\ \A l \in 0 .. 4 : Span(l) \in Nat \ {0}
    /\ \A l \in Level : Span(l + 1) = Span(l) * TIME_LEVEL
    /\ Span(0) = TIME_NEAR
    /\ Word \in Nat \ {0} /\ Word = Span(3) * TIME_LEVEL
<1>1. TIME_NEAR \in Nat \ {0, 1} /\ TIME_LEVEL \in Nat \ {0, 1}
  BY TimerAssumption
<1>2. /\ Span(0) = TIME_NEAR
      /\ Span(1) = TIME_NEAR * TIME_LEVEL
      /\ Span(2) = TIME_NEAR * TIME_LEVEL * TIME_LEVEL
      /\ Span(3) = TIME_NEAR * TIME_LEVEL * TIME_LEVEL * TIME_LEVEL
      /\ Span(4) = TIME_NEAR * TIME_LEVEL * TIME_LEVEL * TIME_LEVEL * TIME_LEVEL
  BY DEF Span
<1>3. ASSUME NEW a \in Nat \ {0} PROVE a * TIME_LEVEL \in Nat \ {0}
  BY <1>1, <1>3, SMT
<1>4. Span(0) \in Nat \ {0} /\ Span(1) = Span(0) * TIME_LEVEL
  BY <1>1, <1>2
<1>5. Span(1) \in Nat \ {0} /\ Span(2) = Span(1) * TIME_LEVEL
  BY <1>2, <1>3, <1>4
<1>6. Span(2) \in Nat \ {0} /\ Span(3) = Span(2) * TIME_LEVEL
  BY <1>2, <1>3, <1>5
<1>7. Span(3) \in Nat \ {0} /\ Span(4) = Span(3) * TIME_LEVEL
  BY <1>2, <1>3, <1>6
<1>8. Span(4) \in Nat \ {0}
  BY <1>3, <1>7
<1>9. ASSUME NEW l \in 0 .. 4 PROVE Span(l) \in Nat \ {0}
  <2>1. l = 0 \/ l = 1 \/ l = 2 \/ l = 3 \/ l = 4
    BY <1>9
  <2> QED
    BY <1>4, <1>5, <1>6, <1>7, <1>8, <2>1
<1>10. ASSUME NEW l \in Level PROVE Span(l + 1) = Span(l) * TIME_LEVEL
  <2>1. CASE l = 0
    BY <1>4, <2>1
  <2>2. CASE l = 1
    BY <1>5, <2>2
  <2>3. CASE l = 2
    BY <1>6, <2>3
  <2>4. CASE l = 3
    BY <1>7, <2>4
  <2> QED
    BY <1>10, <2>1, <2>2, <2>3, <2>4 DEF Level
<1> QED
  BY <1>1, <1>2, <1>7, <1>8, <1>9, <1>10 DEF Word

\* Blocks are numbers, and the block of level l + 1 is that of level l without
\* its last digit.
LEMMA BlkFacts ==
    ASSUME NEW x \in Nat
    PROVE  /\ \A l \in 0 .. 4 : Blk(x, l) \in Nat
           /\ \A l \in Level :
                /\ Idx(x, l) = Blk(x, l) % TIME_LEVEL
                /\ Idx(x, l) \in 0 .. TIME_LEVEL - 1
                /\ Blk(x, l + 1) = Blk(x, l) \div TIME_LEVEL
                /\ Blk(x, l) = TIME_LEVEL * Blk(x, l + 1) + Idx(x, l)
                /\ x % Span(l + 1) = Span(l) * Idx(x, l) + (x % Span(l))
           /\ x \in Time => Blk(x, 4) = 0
<1>1. ASSUME NEW l \in 0 .. 4 PROVE Blk(x, l) \in Nat
  BY SpanFacts, DivMod DEF Blk
<1>2. ASSUME NEW l \in Level
      PROVE  /\ Idx(x, l) = Blk(x, l) % TIME_LEVEL
             /\ Idx(x, l) \in 0 .. TIME_LEVEL - 1
             /\ Blk(x, l + 1) = Blk(x, l) \div TIME_LEVEL
             /\ Blk(x, l) = TIME_LEVEL * Blk(x, l + 1) + Idx(x, l)
             /\ x % Span(l + 1) = Span(l) * Idx(x, l) + (x % Span(l))
  <2> DEFINE d == Span(l)
             b == Blk(x, l)
             L == TIME_LEVEL
  <2>1. d \in Nat \ {0} /\ L \in Nat \ {0} /\ Span(l + 1) = d * L /\ b \in Nat
    <3>1. l \in 0 .. 4
      BY <1>2 DEF Level
    <3> QED
      BY <1>1, <1>2, <3>1, SpanFacts
  <2>2. Idx(x, l) = b % L
    BY DEF Idx, Blk
  <2>3. x \div (d * L) = (x \div d) \div L /\ x % (d * L) = d * ((x \div d) % L) + (x % d)
    <3> HIDE DEF d, L, b
    <3> QED
      BY <2>1, DivDiv
  <2>4. b % L \in 0 .. L - 1 /\ b = L * (b \div L) + (b % L)
    <3> HIDE DEF d, L, b
    <3> QED
      BY <2>1, DivMod
  <2>5. Blk(x, l + 1) = b \div L
    BY <2>1, <2>3 DEF Blk
  <2>6. x % Span(l + 1) = d * (b % L) + (x % d)
    BY <2>1, <2>3 DEF Blk
  <2> QED
    BY <2>2, <2>4, <2>5, <2>6
<1>3. ASSUME x \in Time PROVE Blk(x, 4) = 0
  <2>1. x \in 0 .. Span(4) - 1 /\ Span(4) \in Nat \ {0}
    BY <1>3, SpanFacts DEF Time, Word
  <2> DEFINE d == Span(4)
  <2> HIDE DEF d
  <2>2. x = d * 0 + x /\ x \in 0 .. d - 1 /\ d \in Nat \ {0}
    BY <2>1 DEF d
  <2>3. x \div d = 0
    BY <2>2, DivUnique
  <2> QED
    BY <2>3 DEF d, Blk
<1> QED
  BY <1>1, <1>2, <1>3

\* Times in one block are in one block of the levels above.
LEMMA SameAbove ==
    ASSUME NEW x \in Nat, NEW y \in Nat, NEW l \in 0 .. 4, NEW m \in 0 .. 4, l <= m,
           SameBlock(x, y, l)
    PROVE  SameBlock(x, y, m)
<1> USE DEF SameBlock
<1>1. ASSUME NEW k \in Level, SameBlock(x, y, k) PROVE SameBlock(x, y, k + 1)
  <2>1. Blk(x, k) = Blk(y, k)
    BY <1>1 DEF Blk
  <2>2. Blk(x, k + 1) = Blk(x, k) \div TIME_LEVEL /\ Blk(y, k + 1) = Blk(y, k) \div TIME_LEVEL
    BY <1>1, BlkFacts
  <2> QED
    BY <2>1, <2>2 DEF Blk
<1> HIDE DEF SameBlock
<1>2. \A k \in {0, 1, 2, 3} : SameBlock(x, y, k) => SameBlock(x, y, k + 1)
  BY <1>1 DEF Level
<1>3. /\ SameBlock(x, y, 0) => SameBlock(x, y, 1)
      /\ SameBlock(x, y, 1) => SameBlock(x, y, 2)
      /\ SameBlock(x, y, 2) => SameBlock(x, y, 3)
      /\ SameBlock(x, y, 3) => SameBlock(x, y, 4)
  <2>1. 0 + 1 = 1 /\ 1 + 1 = 2 /\ 2 + 1 = 3 /\ 3 + 1 = 4
    OBVIOUS
  <2> QED
    BY <1>2, <2>1
<1>4. l \in {0, 1, 2, 3, 4} /\ m \in {0, 1, 2, 3, 4}
  OBVIOUS
<1> QED
  BY <1>3, <1>4

\* The block of level l is that of level l + 1 and a digit.
LEMMA SameDigit ==
    ASSUME NEW x \in Nat, NEW y \in Nat, NEW l \in Level
    PROVE  SameBlock(x, y, l) <=> SameBlock(x, y, l + 1) /\ Idx(x, l) = Idx(y, l)
<1>1. /\ Blk(x, l) = TIME_LEVEL * Blk(x, l + 1) + Idx(x, l)
      /\ Blk(y, l) = TIME_LEVEL * Blk(y, l + 1) + Idx(y, l)
      /\ Blk(x, l + 1) = Blk(x, l) \div TIME_LEVEL /\ Blk(y, l + 1) = Blk(y, l) \div TIME_LEVEL
      /\ Idx(x, l) = Blk(x, l) % TIME_LEVEL /\ Idx(y, l) = Blk(y, l) % TIME_LEVEL
  BY BlkFacts
<1>2. \A k : SameBlock(x, y, k) <=> Blk(x, k) = Blk(y, k)
  BY DEF SameBlock, Blk
<1>3. (Blk(x, l) = Blk(y, l)) => Blk(x, l + 1) = Blk(y, l + 1) /\ Idx(x, l) = Idx(y, l)
  BY <1>1
<1>4. (Blk(x, l + 1) = Blk(y, l + 1) /\ Idx(x, l) = Idx(y, l)) => Blk(x, l) = Blk(y, l)
  BY <1>1
<1> QED
  BY <1>2, <1>3, <1>4

\* All times are in the one block of level 4.
LEMMA SameTop ==
    ASSUME NEW x \in Time, NEW y \in Time
    PROVE  SameBlock(x, y, 4)
<1>1. x \in Nat /\ y \in Nat
  BY SpanFacts DEF Time
<1>2. Blk(x, 4) = 0 /\ Blk(y, 4) = 0
  BY <1>1, BlkFacts
<1> QED
  BY <1>2 DEF Blk, SameBlock

\* The level of a node is that of the highest digit in which its time differs.
LEMMA InLevelIs ==
    ASSUME NEW x \in Time, NEW now \in Time, NEW l \in Level, NEW j
    PROVE  InLevel(x, now, l, j) <=>
             SameBlock(x, now, l + 1) /\ ~SameBlock(x, now, l) /\ Idx(x, l) = j
<1> DEFINE S(m) == SameBlock(x, now, m)
           Is(m) == (m = 3 \/ S(m + 1)) /\ \A k \in 0 .. m - 1 : ~S(k + 1)
<1>1. x \in Nat /\ now \in Nat
  BY SpanFacts DEF Time
<1>2. (S(0) => S(1)) /\ (S(1) => S(2)) /\ (S(2) => S(3)) /\ S(4)
  BY <1>1, SameAbove, SameTop
<1>3. LevelOf(x, now) = CHOOSE m \in Level : Is(m)
  BY DEF LevelOf
<1>4. /\ 0 .. 0 - 1 = {} /\ 0 .. 1 - 1 = {0} /\ 0 .. 2 - 1 = {0, 1} /\ 0 .. 3 - 1 = {0, 1, 2}
      /\ 0 + 1 = 1 /\ 1 + 1 = 2 /\ 2 + 1 = 3 /\ 3 + 1 = 4 /\ Level = {0, 1, 2, 3}
  BY DEF Level
<1> HIDE DEF S
<1>5. /\ Is(0) <=> S(1)
      /\ Is(1) <=> S(2) /\ ~S(1)
      /\ Is(2) <=> S(3) /\ ~S(2) /\ ~S(1)
      /\ Is(3) <=> ~S(3) /\ ~S(2) /\ ~S(1)
  BY <1>4
<1> HIDE DEF Is
<1>6. \E m \in Level : Is(m)
  BY <1>4, <1>5
<1>7. LevelOf(x, now) \in Level /\ Is(LevelOf(x, now))
  BY <1>3, <1>6
<1>8. ASSUME ~S(0), NEW m \in Level PROVE Is(m) <=> S(m + 1) /\ ~S(m)
  BY <1>2, <1>4, <1>5, <1>8
<1>9. ASSUME NEW m \in Level, NEW k \in Level, Is(m), Is(k) PROVE m = k
  BY <1>4, <1>5, <1>9
<1>10. ~S(l) => ~S(0)
  BY <1>2, <1>4
<1>11. InLevel(x, now, l, j) <=> ~S(0) /\ LevelOf(x, now) = l /\ Idx(x, l) = j
  BY DEF InLevel, S
<1>12. CASE S(0)
  BY <1>10, <1>11, <1>12 DEF S
<1>13. CASE ~S(0)
  <2>1. LevelOf(x, now) = l <=> Is(l)
    BY <1>7, <1>9
  <2> QED
    BY <1>8, <1>11, <1>13, <2>1 DEF S
<1> QED
  BY <1>12, <1>13

\* An event is due in less than half of the time that wraps around.
Ahead(x, now) == (x - now) % Word < Word \div 2

\* The wrap of the time, and its width.
LEMMA WordFacts ==
    /\ Word \in Nat \ {0} /\ Word \div 2 \in Nat
    /\ 2 * (Word \div 2) <= Word /\ Span(3) \in Nat \ {0} /\ 2 * Span(3) <= Word
    /\ \A a \in Time, b \in Time :
          (a - b) % Word = IF a < b THEN a - b + Word ELSE a - b
<1>1. Word \in Nat \ {0} /\ Word = Span(3) * TIME_LEVEL /\ Span(3) \in Nat \ {0} /\ TIME_LEVEL \in Nat \ {0, 1}
  BY SpanFacts
<1>2. 2 * Span(3) <= Span(3) * TIME_LEVEL
  BY <1>1, SMT
<1>3. Word \div 2 \in Nat /\ 2 * (Word \div 2) <= Word
  BY <1>1
<1>4. ASSUME NEW a \in Time, NEW b \in Time
      PROVE  (a - b) % Word = IF a < b THEN a - b + Word ELSE a - b
  <2>1. a \in 0 .. Word - 1 /\ b \in 0 .. Word - 1
    BY DEF Time
  <2> DEFINE d == Word
  <2>2. d \in Nat \ {0} /\ a \in 0 .. d - 1 /\ b \in 0 .. d - 1
    BY <1>1, <2>1
  <2> HIDE DEF d
  <2>3. CASE a < b
    <3>1. (a - b) % d \in 0 .. d - 1 /\ a - b = d * ((a - b) \div d) + ((a - b) % d)
      BY <2>2, SMT
    <3>2. (a - b) \div d \in Int
      BY <2>2, SMT
    <3> DEFINE q == (a - b) \div d
               r == (a - b) % d
    <3> HIDE DEF q, r
    <3>3. q \in Int /\ r \in 0 .. d - 1 /\ a - b = d * q + r
      BY <3>1, <3>2 DEF q, r
    <3>4. q < 0
      <4>1. q >= 0 => d * q >= 0
        BY <2>2, <3>3, SMT
      <4> QED
        BY <2>2, <2>3, <3>3, <4>1, SMT
    <3>5. ~(q < -1)
      <4>1. q < -1 => d * q <= d * (-2)
        BY <2>2, <3>3, SMT
      <4> QED
        BY <2>2, <2>3, <3>3, <4>1, SMT
    <3>6. q = -1
      BY <3>3, <3>4, <3>5
    <3>7. d * q = -d
      BY <2>2, <3>6
    <3> QED
      BY <2>2, <2>3, <3>3, <3>7 DEF d, r
  <2>4. CASE ~(a < b)
    <3>1. a - b \in Nat /\ a - b \in 0 .. d - 1 /\ a - b = d * 0 + (a - b)
      BY <2>2, <2>4
    <3>2. (a - b) % d = a - b
      BY <2>2, <3>1, DivUnique
    <3> QED
      BY <2>4, <3>2 DEF d
  <2> QED
    BY <2>3, <2>4
<1> QED
  BY <1>1, <1>2, <1>3, <1>4

\* What is due after the wrap is in another block of the last level.
LEMMA BehindIsFar ==
    ASSUME NEW x \in Time, NEW now \in Time, x < now, Ahead(x, now), NEW l \in Level
    PROVE  ~SameBlock(x, now, l)
<1>1. x \in Nat /\ now \in Nat /\ l \in 0 .. 4 /\ 3 \in 0 .. 4 /\ l <= 3
  BY SpanFacts DEF Time, Level
<1>2. x - now + Word < Word \div 2
  BY WordFacts DEF Ahead
<1>3. ~SameBlock(x, now, 3)
  <2> SUFFICES ASSUME SameBlock(x, now, 3) PROVE FALSE
    OBVIOUS
  <2>1. x \div Span(3) = now \div Span(3)
    BY DEF SameBlock
  <2>2. now - x < Span(3)
    <3> DEFINE d == Span(3)
    <3>1. d \in Nat \ {0} /\ x \div d = now \div d
      BY <2>1, WordFacts
    <3> HIDE DEF d
    <3>2. now - x < d
      BY <1>1, <3>1, DivClose
    <3> QED
      BY <3>2 DEF d
  <2> QED
    BY <1>1, <1>2, <2>2, WordFacts
<1> QED
  BY <1>1, <1>3, SameAbove

\* The digits below level l are 0 when and only when the time starts a block of it.
LEMMA StartsBlock ==
    ASSUME NEW x \in Nat, NEW l \in Level
    PROVE  x % Span(l + 1) = 0 <=> x % Span(l) = 0 /\ Idx(x, l) = 0
<1>1. x % Span(l + 1) = Span(l) * Idx(x, l) + (x % Span(l)) /\ Idx(x, l) \in 0 .. TIME_LEVEL - 1
  BY BlkFacts
<1>2. Span(l) \in Nat \ {0} /\ TIME_LEVEL \in Nat
  BY SpanFacts DEF Level
<1> DEFINE d == Span(l)
           c == Idx(x, l)
           r == x % d
<1>3. r \in 0 .. d - 1
  <2> HIDE DEF d
  <2> QED
    BY <1>2, DivMod DEF d
<1>4. x % Span(l + 1) = d * c + r
  BY <1>1
<1>5. c \in Nat /\ d \in Nat \ {0}
  BY <1>1, <1>2
<1> HIDE DEF c, d, r
<1>6. d * c \in Nat
  BY <1>5, SMT
<1>7. c # 0 => d * c # 0
  BY <1>5, SMT
<1>8. c = 0 => d * c = 0
  BY <1>5, SMT
<1>9. d * c + r = 0 <=> r = 0 /\ c = 0
  BY <1>3, <1>5, <1>6, <1>7, <1>8
<1> QED
  BY <1>4, <1>9 DEF c, d, r

\* The list that timer_shift deals out.
ShiftLevel(ct) == CHOOSE k \in Level : Idx(ct, k) # 0 /\ \A j \in 0 .. k - 1 : Idx(ct, j) = 0

\* It is that of the lowest level with a digit other than 0.
LEMMA ShiftLevelFacts ==
    ASSUME NEW ct \in Time, ct # 0, ct % TIME_NEAR = 0
    PROVE  /\ ShiftLevel(ct) \in Level
           /\ \A m \in 0 .. 4 : m <= ShiftLevel(ct) => ct % Span(m) = 0
           /\ \A m \in 0 .. 4 : m > ShiftLevel(ct) => ct % Span(m) # 0
<1> DEFINE Z(m) == ct % Span(m) = 0
           O(m) == Idx(ct, m) = 0
           Is(m) == ~O(m) /\ \A j \in 0 .. m - 1 : O(j)
<1>0. ct \in Nat
  BY SpanFacts DEF Time
<1>1. Z(0)
  BY SpanFacts
<1>2. ~Z(4)
  <2>1. Blk(ct, 4) = 0 /\ Span(4) \in Nat \ {0}
    BY <1>0, BlkFacts, SpanFacts
  <2> DEFINE d == Span(4)
  <2>2. d \in Nat \ {0} /\ ct \div d = 0
    BY <2>1 DEF Blk
  <2> HIDE DEF d
  <2>3. ct = d * 0 + (ct % d)
    BY <1>0, <2>2, DivMod
  <2>4. d * 0 = 0 /\ ct % d \in 0 .. d - 1
    BY <1>0, <2>2, DivMod
  <2> QED
    BY <2>2, <2>3, <2>4 DEF d
<1>3. \A m \in Level : Z(m + 1) <=> Z(m) /\ O(m)
  BY <1>0, StartsBlock
<1>4. /\ 0 .. 0 - 1 = {} /\ 0 .. 1 - 1 = {0} /\ 0 .. 2 - 1 = {0, 1} /\ 0 .. 3 - 1 = {0, 1, 2}
      /\ 0 + 1 = 1 /\ 1 + 1 = 2 /\ 2 + 1 = 3 /\ 3 + 1 = 4 /\ Level = {0, 1, 2, 3}
      /\ 0 .. 4 = {0, 1, 2, 3, 4}
  BY DEF Level
<1>5. ShiftLevel(ct) = CHOOSE m \in Level : Is(m)
  BY DEF ShiftLevel
<1> HIDE DEF Z, O
<1>6. /\ Is(0) <=> ~O(0)
      /\ Is(1) <=> ~O(1) /\ O(0)
      /\ Is(2) <=> ~O(2) /\ O(0) /\ O(1)
      /\ Is(3) <=> ~O(3) /\ O(0) /\ O(1) /\ O(2)
  BY <1>4
<1> HIDE DEF Is
<1>7. /\ Z(1) <=> Z(0) /\ O(0)
      /\ Z(2) <=> Z(1) /\ O(1)
      /\ Z(3) <=> Z(2) /\ O(2)
      /\ Z(4) <=> Z(3) /\ O(3)
  BY <1>3, <1>4
<1>8. \E m \in Level : Is(m)
  BY <1>1, <1>2, <1>4, <1>6, <1>7
<1>9. ShiftLevel(ct) \in Level /\ Is(ShiftLevel(ct))
  BY <1>5, <1>8
<1>10. ASSUME NEW l \in {0, 1, 2, 3}, Is(l), NEW m \in {0, 1, 2, 3, 4}
       PROVE  (m <= l => Z(m)) /\ (m > l => ~Z(m))
  <2>1. CASE l = 0
    BY <1>1, <1>6, <1>7, <1>10, <2>1
  <2>2. CASE l = 1
    BY <1>1, <1>6, <1>7, <1>10, <2>2
  <2>3. CASE l = 2
    BY <1>1, <1>6, <1>7, <1>10, <2>3
  <2>4. CASE l = 3
    BY <1>1, <1>6, <1>7, <1>10, <2>4
  <2> QED
    BY <1>10, <2>1, <2>2, <2>3, <2>4
<1> QED
  BY <1>4, <1>9, <1>10 DEF Z

\* The time goes to ct, from the end of a block of level l but not of level l + 1.
Turn(now, ct, l) ==
    \A x \in Time : (Ahead(x, now) /\ x # now) =>
        /\ \A m \in 0 .. 4 : m <= l => ~SameBlock(x, now, m)
        /\ \A m \in 0 .. 4 : m > l => (SameBlock(x, ct, m) <=> SameBlock(x, now, m))

\* The blocks above level l stay what they were.
LEMMA TurnWithin ==
    ASSUME NEW now \in Time, NEW ct \in Time, ct = now + 1, NEW m \in 0 .. 4,
           ct % Span(m) # 0, NEW x
    PROVE  SameBlock(x, ct, m) <=> SameBlock(x, now, m)
<1>1. now \in Nat /\ Span(m) \in Nat \ {0}
  BY SpanFacts DEF Time
<1> DEFINE d == Span(m)
<1>2. d \in Nat \ {0} /\ (now + 1) % d # 0
  BY <1>1
<1> HIDE DEF d
<1>3. (now + 1) \div d = now \div d
  BY <1>1, <1>2, DivNext
<1> QED
  BY <1>3 DEF d, SameBlock

\* Nothing ahead is in a block that ends now.
LEMMA TurnEnds ==
    ASSUME NEW now \in Time, NEW m \in Level, (now + 1) % Span(m) = 0,
           NEW x \in Time, Ahead(x, now), x # now
    PROVE  ~SameBlock(x, now, m)
<1> SUFFICES ASSUME SameBlock(x, now, m) PROVE FALSE
  OBVIOUS
<1>1. now \in Nat /\ x \in Nat /\ Span(m) \in Nat \ {0}
  BY SpanFacts DEF Time, Level
<1> DEFINE d == Span(m)
<1>2. d \in Nat \ {0} /\ (now + 1) % d = 0 /\ x \div d = now \div d
  BY <1>1 DEF SameBlock
<1> HIDE DEF d
<1>3. now % d = d - 1
  BY <1>1, <1>2, DivNext
<1>4. x <= now
  BY <1>1, <1>2, <1>3, DivLast
<1>5. x < now
  BY <1>1, <1>4
<1> QED
  BY <1>5, BehindIsFar

\* Every tick is one of three: the wrap, a turn of one level, or inside a block.
LEMMA TurnFacts ==
    ASSUME NEW now \in Time, NEW ct, ct = (now + 1) % Word
    PROVE  /\ ct \in Time
           /\ ct # 0 => ct = now + 1
           /\ ct = 0 => now = Word - 1
           /\ ct = 0 => Turn(now, ct, 3)
           /\ (ct # 0 /\ ct % TIME_NEAR = 0) =>
                 ShiftLevel(ct) \in Level /\ Turn(now, ct, ShiftLevel(ct))
           /\ ct % TIME_NEAR # 0 =>
                 \A x : \A m \in 0 .. 4 : SameBlock(x, ct, m) <=> SameBlock(x, now, m)
<1>1. now \in 0 .. Word - 1 /\ Word \in Nat \ {0}
  BY SpanFacts DEF Time
<1>2. /\ now = Word - 1 => ct = 0
      /\ now # Word - 1 => ct = now + 1 /\ ct \in 0 .. Word - 1
  <2> DEFINE d == Word
  <2>1. d \in Nat \ {0} /\ now \in 0 .. d - 1
    BY <1>1
  <2> HIDE DEF d
  <2>2. CASE now = d - 1
    <3>1. now + 1 = d * 1 + 0 /\ now + 1 \in Nat /\ 1 \in Int /\ 0 \in 0 .. d - 1
      BY <2>1, <2>2
    <3>2. (now + 1) % d = 0
      BY <2>1, <3>1, DivUnique
    <3> QED
      BY <2>1, <2>2, <3>2 DEF d
  <2>3. CASE now # d - 1
    <3>1. now + 1 = d * 0 + (now + 1) /\ now + 1 \in Nat /\ 0 \in Int /\ now + 1 \in 0 .. d - 1
      BY <2>1, <2>3
    <3>2. (now + 1) % d = now + 1
      BY <2>1, <3>1, DivUnique
    <3> QED
      BY <2>1, <2>3, <3>1, <3>2 DEF d
  <2> QED
    BY <2>2, <2>3
<1>3. /\ ct \in Time
      /\ ct # 0 => ct = now + 1
      /\ ct = 0 => now = Word - 1
  BY <1>1, <1>2 DEF Time
<1>4. ASSUME ct = 0 PROVE Turn(now, ct, 3)
  <2> SUFFICES ASSUME NEW x \in Time, Ahead(x, now), x # now, NEW m \in 0 .. 4
               PROVE  /\ m <= 3 => ~SameBlock(x, now, m)
                      /\ m > 3 => (SameBlock(x, ct, m) <=> SameBlock(x, now, m))
    BY DEF Turn
  <2>1. CASE m <= 3
    <3>1. m \in Level /\ x < now /\ ~(m > 3)
      BY <1>1, <1>3, <1>4, <2>1 DEF Level, Time
    <3> QED
      BY <3>1, BehindIsFar
  <2>2. CASE m > 3
    <3>1. m = 4 /\ ~(m <= 3)
      BY <2>2
    <3> QED
      BY <1>3, <3>1, SameTop
  <2> QED
    BY <2>1, <2>2
<1>5. ASSUME ct # 0, ct % TIME_NEAR = 0
      PROVE  ShiftLevel(ct) \in Level /\ Turn(now, ct, ShiftLevel(ct))
  <2> DEFINE l == ShiftLevel(ct)
  <2>1. /\ l \in Level
        /\ \A m \in 0 .. 4 : m <= l => ct % Span(m) = 0
        /\ \A m \in 0 .. 4 : m > l => ct % Span(m) # 0
    BY <1>3, <1>5, ShiftLevelFacts
  <2> HIDE DEF l
  <2> SUFFICES ASSUME NEW x \in Time, Ahead(x, now), x # now, NEW m \in 0 .. 4
               PROVE  /\ m <= l => ~SameBlock(x, now, m)
                      /\ m > l => (SameBlock(x, ct, m) <=> SameBlock(x, now, m))
    BY <2>1 DEF Turn, l
  <2>2. ASSUME m <= l PROVE ~SameBlock(x, now, m)
    <3>1. m \in Level /\ (now + 1) % Span(m) = 0
      BY <1>3, <1>5, <2>1, <2>2 DEF Level
    <3> QED
      BY <3>1, TurnEnds
  <2>3. ASSUME m > l PROVE SameBlock(x, ct, m) <=> SameBlock(x, now, m)
    BY <1>3, <1>5, <2>1, <2>3, TurnWithin
  <2> QED
    BY <2>2, <2>3
<1>6. ASSUME ct % TIME_NEAR # 0, NEW x, NEW m \in 0 .. 4
      PROVE  SameBlock(x, ct, m) <=> SameBlock(x, now, m)
  <2>1. ct # 0
    <3>1. 0 % TIME_NEAR = 0
      BY SpanFacts
    <3> QED
      BY <1>6, <3>1
  <2>2. \A k \in Level : ct % Span(k) # 0 => ct % Span(k + 1) # 0
    <3>1. ct \in Nat
      BY <1>1, <1>3 DEF Time
    <3> QED
      BY <3>1, StartsBlock
  <2>3. ct % Span(0) # 0
    BY <1>6, SpanFacts
  <2>4. /\ ct % Span(1) # 0 /\ ct % Span(2) # 0
        /\ ct % Span(3) # 0 /\ ct % Span(4) # 0
    <3>1. Level = {0, 1, 2, 3} /\ 0 + 1 = 1 /\ 1 + 1 = 2 /\ 2 + 1 = 3 /\ 3 + 1 = 4
      BY DEF Level
    <3> QED
      BY <2>2, <2>3, <3>1
  <2>5. ct % Span(m) # 0
    <3>1. m \in {0, 1, 2, 3, 4}
      BY <1>6
    <3> QED
      BY <2>3, <2>4, <3>1
  <2> QED
    BY <1>3, <2>1, <2>5, TurnWithin
<1> QED
  BY <1>3, <1>4, <1>5, <1>6

\* Where a node belongs after the turn: those of the list dealt out are the ones
\* whose block of level l begins, and only lists below are given nodes.
LEMMA TurnPlaces ==
    ASSUME NEW now \in Time, NEW ct \in Time, NEW l \in Level, Turn(now, ct, l),
           NEW x \in Time, Ahead(x, now), x # now
    PROVE  /\ \A j : ~InNear(x, now, j)
           /\ \A k \in Level : \A j : k < l => ~InLevel(x, now, k, j)
           /\ \A j : InNear(x, ct, j) => InLevel(x, now, l, Idx(ct, l))
           /\ \A k \in Level : \A j : InLevel(x, ct, k, j) /\ k < l => InLevel(x, now, l, Idx(ct, l))
           /\ \A j : InLevel(x, ct, l, j) <=> InLevel(x, now, l, j) /\ j # Idx(ct, l)
           /\ \A k \in Level : \A j : k > l =>
                 /\ InLevel(x, ct, k, j) <=> InLevel(x, now, k, j)
                 /\ ~(InLevel(x, ct, k, j) /\ InLevel(x, now, l, Idx(ct, l)))
<1> DEFINE S(m) == SameBlock(x, now, m)
           R(m) == SameBlock(x, ct, m)
<1>0. x \in Nat /\ ct \in Nat /\ now \in Nat
  BY SpanFacts DEF Time
<1>1. /\ \A m \in 0 .. 4 : m <= l => ~S(m)
      /\ \A m \in 0 .. 4 : m > l => (R(m) <=> S(m))
  BY DEF Turn
<1>2. \A k \in Level : \A j :
         /\ InLevel(x, now, k, j) <=> S(k + 1) /\ ~S(k) /\ Idx(x, k) = j
         /\ InLevel(x, ct, k, j) <=> R(k + 1) /\ ~R(k) /\ Idx(x, k) = j
  BY InLevelIs
<1>3. \A j : (InNear(x, now, j) => S(0)) /\ (InNear(x, ct, j) => R(0))
  BY DEF InNear
<1>4. \A k, m \in 0 .. 4 : k <= m => (R(k) => R(m)) /\ (S(k) => S(m))
  BY <1>0, SameAbove
<1>5. R(l) <=> R(l + 1) /\ Idx(x, l) = Idx(ct, l)
  BY <1>0, SameDigit
<1> HIDE DEF S, R
<1>6. /\ l \in 0 .. 4 /\ l + 1 \in 0 .. 4 /\ l + 1 > l /\ 0 <= l /\ 0 \in 0 .. 4
      /\ \A k \in Level : k \in 0 .. 4 /\ k + 1 \in 0 .. 4
  BY DEF Level
<1>7. ~S(l) /\ ~S(0) /\ (R(l + 1) <=> S(l + 1))
  BY <1>1, <1>6
<1>8. InLevel(x, now, l, Idx(ct, l)) <=> R(l)
  BY <1>2, <1>5, <1>7
<1>9. \A j : ~InNear(x, now, j) /\ (InNear(x, ct, j) => R(l))
  BY <1>3, <1>4, <1>6, <1>7
<1>10. ASSUME NEW k \in Level, NEW j, k < l
       PROVE  ~InLevel(x, now, k, j) /\ (InLevel(x, ct, k, j) => R(l))
  <2>1. k + 1 \in 0 .. 4 /\ k + 1 <= l
    BY <1>10 DEF Level
  <2> QED
    BY <1>1, <1>2, <1>4, <1>6, <2>1
<1>11. ASSUME NEW j PROVE InLevel(x, ct, l, j) <=> InLevel(x, now, l, j) /\ j # Idx(ct, l)
  BY <1>2, <1>5, <1>7
<1>12. ASSUME NEW k \in Level, NEW j, k > l
       PROVE  /\ InLevel(x, ct, k, j) <=> InLevel(x, now, k, j)
              /\ ~(InLevel(x, ct, k, j) /\ R(l))
  <2>1. k + 1 \in 0 .. 4 /\ k + 1 > l /\ k \in 0 .. 4 /\ l <= k
    BY <1>12 DEF Level
  <2> QED
    BY <1>1, <1>2, <1>4, <1>6, <1>12, <2>1
<1> QED
  BY <1>8, <1>9, <1>10, <1>11, <1>12

-----------------------------------------------------------------------------
(* What Among keeps *)

\* Induction over the naturals, for a set.
LEMMA SetInduction ==
    ASSUME NEW T, T \subseteq Nat, 0 \in T, \A n \in T : n + 1 \in T
    PROVE  T = Nat
<1> SUFFICES ASSUME Nat \ T # {} PROVE FALSE
  OBVIOUS
<1>1. PICK x \in Nat \ T : \A y \in Nat \ T : ~(<<y, x>> \in OpToRel(<, Nat))
  BY NatLessThanWellFounded, WFMin
<1>2. x # 0 /\ x - 1 \in Nat
  OBVIOUS
<1>3. x - 1 \in T
  <2>1. <<x - 1, x>> \in {ss \in Nat \X Nat : ss[1] < ss[2]}
    BY <1>2
  <2>2. <<x - 1, x>> \in OpToRel(<, Nat)
    BY <2>1, Zenon DEF OpToRel
  <2> QED
    BY <1>1, <1>2, <2>2
<1> QED
  BY <1>2, <1>3

\* f has the part of s in S, up to each place.
Picks(s, S, n, f) ==
    /\ f[0] = <<>>
    /\ \A i \in 1 .. n : f[i] = IF s[i] \in S THEN Append(f[i - 1], s[i]) ELSE f[i - 1]

\* There is such a function.
LEMMA PicksExist ==
    ASSUME NEW E, NEW s \in Seq(E), NEW S
    PROVE  \E f \in [0 .. Len(s) -> Seq(E)] : Picks(s, S, Len(s), f)
<1> DEFINE T == {n \in Nat : n <= Len(s) => \E f \in [0 .. n -> Seq(E)] : Picks(s, S, n, f)}
<1>0. Len(s) \in Nat
  OBVIOUS
<1>1. 0 \in T
  <2> DEFINE f == [i \in 0 .. 0 |-> <<>>]
  <2>1. f \in [0 .. 0 -> Seq(E)] /\ Picks(s, S, 0, f)
    BY DEF Picks
  <2> QED
    BY <2>1
<1>2. ASSUME NEW n \in T PROVE n + 1 \in T
  <2> SUFFICES ASSUME n + 1 <= Len(s) PROVE \E g \in [0 .. n + 1 -> Seq(E)] : Picks(s, S, n + 1, g)
    BY <1>2
  <2>0. n \in Nat /\ n <= Len(s) /\ n + 1 \in 1 .. Len(s) /\ s[n + 1] \in E
    BY <1>0, <1>2
  <2>1. PICK f \in [0 .. n -> Seq(E)] : Picks(s, S, n, f)
    BY <1>2, <2>0
  <2> DEFINE x == IF s[n + 1] \in S THEN Append(f[n], s[n + 1]) ELSE f[n]
             g == [i \in 0 .. n + 1 |-> IF i = n + 1 THEN x ELSE f[i]]
  <2>2. f[n] \in Seq(E)
    BY <2>0, <2>1
  <2>3. x \in Seq(E)
    BY <2>0, <2>2
  <2> HIDE DEF x
  <2>4. g \in [0 .. n + 1 -> Seq(E)]
    BY <2>0, <2>1, <2>3
  <2>5. g[0] = <<>>
    BY <2>0, <2>1 DEF Picks
  <2>6. ASSUME NEW i \in 1 .. n + 1
        PROVE  g[i] = IF s[i] \in S THEN Append(g[i - 1], s[i]) ELSE g[i - 1]
    <3>1. CASE i = n + 1
      <4>1. g[i] = x /\ i - 1 = n /\ g[n] = f[n]
        BY <2>0, <3>1
      <4> QED
        BY <3>1, <4>1 DEF x
    <3>2. CASE i # n + 1
      <4>1. i \in 1 .. n /\ i - 1 \in 0 .. n /\ i - 1 # n + 1
        BY <2>0, <3>2
      <4>2. g[i] = f[i] /\ g[i - 1] = f[i - 1]
        BY <2>0, <3>2, <4>1
      <4> QED
        BY <2>1, <4>1, <4>2 DEF Picks
    <3> QED
      BY <3>1, <3>2
  <2> HIDE DEF g
  <2>7. Picks(s, S, n + 1, g)
    BY <2>5, <2>6 DEF Picks
  <2> QED
    BY <2>4, <2>7
<1>3. T = Nat
  <2>1. T \subseteq Nat
    OBVIOUS
  <2> HIDE DEF T
  <2> QED
    BY <1>1, <1>2, <2>1, SetInduction
<1> QED
  BY <1>0, <1>3

\* The sequences are the same up to n.
Agree(s, r, n) == \A i \in 1 .. n : s[i] = r[i]

\* Two such functions, for sequences that agree up to n, agree up to n.
LEMMA PicksUnique ==
    ASSUME NEW s, NEW r, NEW S, NEW n \in Nat, NEW f, NEW g,
           Picks(s, S, n, f), Picks(r, S, n, g), Agree(s, r, n)
    PROVE  \A i \in 0 .. n : f[i] = g[i]
<1> DEFINE T == {k \in Nat : k <= n => f[k] = g[k]}
<1>1. 0 \in T
  BY DEF Picks
<1>2. ASSUME NEW k \in T PROVE k + 1 \in T
  <2> SUFFICES ASSUME k + 1 <= n PROVE f[k + 1] = g[k + 1]
    BY <1>2
  <2>1. k + 1 \in 1 .. n /\ (k + 1) - 1 = k /\ f[k] = g[k] /\ s[k + 1] = r[k + 1]
    BY <1>2 DEF Agree
  <2>2. /\ f[k + 1] = IF s[k + 1] \in S THEN Append(f[k], s[k + 1]) ELSE f[k]
        /\ g[k + 1] = IF r[k + 1] \in S THEN Append(g[k], r[k + 1]) ELSE g[k]
    BY <2>1 DEF Picks
  <2> QED
    BY <2>1, <2>2
<1>3. T = Nat
  <2>1. T \subseteq Nat
    OBVIOUS
  <2> HIDE DEF T
  <2> QED
    BY <1>1, <1>2, <2>1, SetInduction
<1> QED
  BY <1>3

\* Among is its last value.
LEMMA AmongIsPicks ==
    ASSUME NEW E, NEW s \in Seq(E), NEW S
    PROVE  \E f \in [0 .. Len(s) -> Seq(E)] : Picks(s, S, Len(s), f) /\ Among(s, S) = f[Len(s)]
<1> DEFINE n == Len(s)
           Step(h, i) == IF i = 0 THEN <<>>
                         ELSE IF s[i] \in S THEN Append(h[i - 1], s[i]) ELSE h[i - 1]
           f == CHOOSE h : h = [i \in 0 .. n |-> Step(h, i)]
<1>0. n \in Nat
  OBVIOUS
<1>1. Among(s, S) = f[n]
  BY DEF Among
<1>2. PICK g \in [0 .. n -> Seq(E)] : Picks(s, S, n, g)
  BY PicksExist
<1>3. \E h : h = [i \in 0 .. n |-> Step(h, i)]
  <2>1. ASSUME NEW i \in 0 .. n PROVE g[i] = Step(g, i)
    <3>1. CASE i = 0
      BY <1>2, <3>1 DEF Picks
    <3>2. CASE i # 0
      <4>1. i \in 1 .. n
        BY <1>0, <3>2
      <4> QED
        BY <1>2, <3>2, <4>1 DEF Picks
    <3> QED
      BY <3>1, <3>2
  <2>2. g = [i \in 0 .. n |-> g[i]]
    BY <1>2
  <2> HIDE DEF Step, n
  <2>3. g = [i \in 0 .. n |-> Step(g, i)]
    BY <2>1, <2>2
  <2> QED
    BY <2>3
<1>4. f = [i \in 0 .. n |-> Step(f, i)]
  <2> HIDE DEF Step, n
  <2> QED
    BY <1>3
<1> HIDE DEF f
<1>5. Picks(s, S, n, f)
  <2>1. \A i \in 0 .. n : f[i] = Step(f, i)
    <3> HIDE DEF Step
    <3> QED
      BY <1>4
  <2>2. f[0] = <<>>
    BY <1>0, <2>1
  <2>3. \A i \in 1 .. n : i \in 0 .. n /\ i # 0
    BY <1>0
  <2> QED
    BY <2>1, <2>2, <2>3 DEF Picks
<1>6. \A i \in 0 .. n : f[i] = g[i]
  <2> HIDE DEF n
  <2>1. Agree(s, s, n)
    BY DEF Agree
  <2> QED
    BY <1>0, <1>2, <1>5, <2>1, PicksUnique
<1>7. Among(s, S) = g[n]
  BY <1>0, <1>1, <1>6
<1> QED
  BY <1>2, <1>7

\* Nothing of the empty sequence,
LEMMA AmongEmpty ==
    ASSUME NEW S
    PROVE  Among(<<>>, S) = <<>>
<1> DEFINE s == <<>>
<1>1. s \in Seq({}) /\ Len(s) = 0
  OBVIOUS
<1> HIDE DEF s
<1>2. PICK f \in [0 .. Len(s) -> Seq({})] : Picks(s, S, Len(s), f) /\ Among(s, S) = f[Len(s)]
  BY <1>1, AmongIsPicks
<1>3. Among(s, S) = <<>>
  BY <1>1, <1>2 DEF Picks
<1> QED
  BY <1>3 DEF s

\* and of a longer one, the part so far and the last element if it is in S.
LEMMA AmongAppend ==
    ASSUME NEW E, NEW s \in Seq(E), NEW e \in E, NEW S
    PROVE  Among(Append(s, e), S) = IF e \in S THEN Append(Among(s, S), e) ELSE Among(s, S)
<1> DEFINE n == Len(s)
           r == Append(s, e)
<1>1. n \in Nat /\ r \in Seq(E) /\ Len(r) = n + 1 /\ r[n + 1] = e /\ \A i \in 1 .. n : r[i] = s[i]
  OBVIOUS
<1> HIDE DEF n, r
<1>2. PICK f : Picks(s, S, n, f) /\ Among(s, S) = f[n]
  BY AmongIsPicks DEF n
<1>3. PICK g : Picks(r, S, n + 1, g) /\ Among(r, S) = g[n + 1]
  <2>1. \E g \in [0 .. Len(r) -> Seq(E)] : Picks(r, S, Len(r), g) /\ Among(r, S) = g[Len(r)]
    BY <1>1, AmongIsPicks
  <2> QED
    BY <1>1, <2>1
<1>4. Picks(r, S, n, g)
  <2>1. \A i \in 1 .. n : i \in 1 .. n + 1
    BY <1>1
  <2> QED
    BY <1>3, <2>1 DEF Picks
<1>5. g[n] = f[n]
  <2>1. \A i \in 0 .. n : g[i] = f[i]
    <3>1. n \in Nat /\ Picks(r, S, n, g) /\ Picks(s, S, n, f) /\ Agree(r, s, n)
      BY <1>1, <1>2, <1>4 DEF Agree
    <3> QED
      BY <3>1, PicksUnique
  <2> QED
    BY <1>1, <2>1
<1>6. g[n + 1] = IF r[n + 1] \in S THEN Append(g[n], r[n + 1]) ELSE g[n]
  <2>1. n + 1 \in 1 .. n + 1 /\ (n + 1) - 1 = n
    BY <1>1
  <2> QED
    BY <1>3, <2>1 DEF Picks
<1> QED
  BY <1>1, <1>2, <1>3, <1>5, <1>6 DEF r

\* A sequence that is not empty has a last element.
LEMMA LastSplit ==
    ASSUME NEW E, NEW s \in Seq(E), NEW n \in Nat, Len(s) = n + 1
    PROVE  \E r \in Seq(E), e \in E : s = Append(r, e) /\ Len(r) = n
<1> DEFINE r == [i \in 1 .. n |-> s[i]]
           e == s[n + 1]
<1>1. r \in Seq(E) /\ Len(r) = n /\ e \in E
  BY LenProperties
<1>2. s = Append(r, e)
  <2>1. Append(r, e) \in Seq(E) /\ Len(Append(r, e)) = n + 1
    BY <1>1
  <2>2. ASSUME NEW i \in 1 .. n + 1 PROVE s[i] = Append(r, e)[i]
    BY <1>1, <2>2
  <2> HIDE DEF r, e
  <2> QED
    BY <2>1, <2>2, SeqEqual
<1> HIDE DEF r, e
<1> QED
  BY <1>1, <1>2

\* The elements of a sequence.
LEMMA ToSetAppend ==
    ASSUME NEW E, NEW s \in Seq(E), NEW e \in E
    PROVE  ToSet(Append(s, e)) = ToSet(s) \cup {e}
<1> DEFINE r == Append(s, e)
           n == Len(s)
<1>1. n \in Nat /\ DOMAIN s = 1 .. n /\ DOMAIN r = 1 .. n + 1 /\ r[n + 1] = e
      /\ \A i \in 1 .. n : r[i] = s[i]
  OBVIOUS
<1> HIDE DEF r, n
<1>2. \A i : i \in 1 .. n + 1 <=> i \in 1 .. n \/ i = n + 1
  BY <1>1
<1>3. ToSet(r) = {r[i] : i \in 1 .. n + 1} /\ ToSet(s) = {s[i] : i \in 1 .. n}
  BY <1>1 DEF ToSet
<1>4. ToSet(r) = ToSet(s) \cup {e}
  BY <1>1, <1>2, <1>3
<1> QED
  BY <1>4 DEF r

\* The empty sequence has none.
LEMMA ToSetEmpty == ToSet(<<>>) = {}
  BY DEF ToSet

\* Its elements are of the set it is over, and its head is one.
LEMMA ToSetOf ==
    ASSUME NEW E, NEW s \in Seq(E)
    PROVE  /\ ToSet(s) \subseteq E
           /\ s # <<>> => Head(s) \in ToSet(s)
           /\ s = <<>> <=> ToSet(s) = {}
<1>1. Len(s) \in Nat /\ DOMAIN s = 1 .. Len(s) /\ \A i \in 1 .. Len(s) : s[i] \in E
  BY LenProperties
<1>2. ToSet(s) = {s[i] : i \in 1 .. Len(s)}
  BY <1>1 DEF ToSet
<1>3. s # <<>> => 1 \in 1 .. Len(s) /\ Head(s) = s[1]
  BY <1>1
<1>4. s = <<>> => ToSet(s) = {}
  BY ToSetEmpty
<1> QED
  BY <1>1, <1>2, <1>3, <1>4

\* The part has the elements it should have.
LEMMA AmongSet ==
    ASSUME NEW E, NEW S
    PROVE  \A s \in Seq(E) : Among(s, S) \in Seq(E) /\ ToSet(Among(s, S)) = ToSet(s) \cap S
<1> DEFINE P(s) == Among(s, S) \in Seq(E) /\ ToSet(Among(s, S)) = ToSet(s) \cap S
           T == {n \in Nat : \A s \in Seq(E) : Len(s) = n => P(s)}
<1>1. 0 \in T
  <2> SUFFICES ASSUME NEW s \in Seq(E), Len(s) = 0 PROVE P(s)
    OBVIOUS
  <2>1. s = <<>>
    BY EmptySeq
  <2>2. Among(s, S) = <<>> /\ ToSet(s) = {}
    BY <2>1, AmongEmpty, ToSetEmpty
  <2> QED
    BY <2>1, <2>2
<1>2. ASSUME NEW n \in T PROVE n + 1 \in T
  <2> SUFFICES ASSUME NEW s \in Seq(E), Len(s) = n + 1 PROVE P(s)
    BY <1>2
  <2>1. PICK r \in Seq(E), e \in E : s = Append(r, e) /\ Len(r) = n
    BY <1>2, LastSplit
  <2>2. P(r)
    BY <1>2, <2>1
  <2>3. Among(s, S) = IF e \in S THEN Append(Among(r, S), e) ELSE Among(r, S)
    BY <2>1, AmongAppend
  <2>4. ToSet(s) = ToSet(r) \cup {e}
    BY <2>1, ToSetAppend
  <2>5. CASE e \in S
    <3>1. Among(s, S) \in Seq(E) /\ ToSet(Among(s, S)) = ToSet(Among(r, S)) \cup {e}
      BY <2>2, <2>3, <2>5, ToSetAppend
    <3> QED
      BY <2>2, <2>4, <2>5, <3>1
  <2>6. CASE e \notin S
    BY <2>2, <2>3, <2>4, <2>6
  <2> QED
    BY <2>5, <2>6
<1>3. T = Nat
  <2>1. T \subseteq Nat
    OBVIOUS
  <2> HIDE DEF T
  <2> QED
    BY <1>1, <1>2, <2>1, SetInduction
<1>4. ASSUME NEW s \in Seq(E) PROVE P(s)
  <2>1. Len(s) \in T
    BY <1>3
  <2> QED
    BY <2>1
<1> QED
  BY <1>4

\* Only what is in the sequence counts.
LEMMA AmongAgree ==
    ASSUME NEW E, NEW S, NEW R
    PROVE  \A s \in Seq(E) : ToSet(s) \cap S = ToSet(s) \cap R => Among(s, S) = Among(s, R)
<1> DEFINE P(s) == ToSet(s) \cap S = ToSet(s) \cap R => Among(s, S) = Among(s, R)
           T == {n \in Nat : \A s \in Seq(E) : Len(s) = n => P(s)}
<1>1. 0 \in T
  <2> SUFFICES ASSUME NEW s \in Seq(E), Len(s) = 0 PROVE P(s)
    OBVIOUS
  <2>1. s = <<>>
    BY EmptySeq
  <2> QED
    BY <2>1, AmongEmpty
<1>2. ASSUME NEW n \in T PROVE n + 1 \in T
  <2> SUFFICES ASSUME NEW s \in Seq(E), Len(s) = n + 1, ToSet(s) \cap S = ToSet(s) \cap R
               PROVE  Among(s, S) = Among(s, R)
    BY <1>2
  <2>1. PICK r \in Seq(E), e \in E : s = Append(r, e) /\ Len(r) = n
    BY <1>2, LastSplit
  <2>2. P(r)
    BY <1>2, <2>1
  <2>3. /\ Among(s, S) = IF e \in S THEN Append(Among(r, S), e) ELSE Among(r, S)
        /\ Among(s, R) = IF e \in R THEN Append(Among(r, R), e) ELSE Among(r, R)
    BY <2>1, AmongAppend
  <2>4. ToSet(s) = ToSet(r) \cup {e}
    BY <2>1, ToSetAppend
  <2>5. (e \in S <=> e \in R) /\ ToSet(r) \cap S = ToSet(r) \cap R
    BY <2>4
  <2> QED
    BY <2>2, <2>3, <2>5
<1>3. T = Nat
  <2>1. T \subseteq Nat
    OBVIOUS
  <2> HIDE DEF T
  <2> QED
    BY <1>1, <1>2, <2>1, SetInduction
<1>4. ASSUME NEW s \in Seq(E) PROVE P(s)
  <2>1. Len(s) \in T
    BY <1>3
  <2> QED
    BY <2>1
<1> QED
  BY <1>4

\* A part of a part is the part in both sets.
LEMMA AmongTwice ==
    ASSUME NEW E, NEW S, NEW R
    PROVE  \A s \in Seq(E) : Among(Among(s, S), R) = Among(s, S \cap R)
<1> DEFINE U == S \cap R
           P(s) == Among(Among(s, S), R) = Among(s, U)
           T == {n \in Nat : \A s \in Seq(E) : Len(s) = n => P(s)}
<1>0. \A e : e \in U <=> e \in S /\ e \in R
  OBVIOUS
<1> HIDE DEF U
<1>1. 0 \in T
  <2> SUFFICES ASSUME NEW s \in Seq(E), Len(s) = 0 PROVE P(s)
    OBVIOUS
  <2>1. s = <<>>
    BY EmptySeq
  <2> QED
    BY <2>1, AmongEmpty
<1>2. ASSUME NEW n \in T PROVE n + 1 \in T
  <2> SUFFICES ASSUME NEW s \in Seq(E), Len(s) = n + 1 PROVE P(s)
    BY <1>2
  <2>1. PICK r \in Seq(E), e \in E : s = Append(r, e) /\ Len(r) = n
    BY <1>2, LastSplit
  <2>2. P(r) /\ Among(r, S) \in Seq(E)
    BY <1>2, <2>1, AmongSet
  <2>3. /\ Among(s, S) = IF e \in S THEN Append(Among(r, S), e) ELSE Among(r, S)
        /\ Among(s, U) = IF e \in U THEN Append(Among(r, U), e) ELSE Among(r, U)
    BY <2>1, AmongAppend
  <2>4. CASE e \in S
    <3>1. Among(Among(s, S), R) = IF e \in R THEN Append(Among(Among(r, S), R), e)
                                  ELSE Among(Among(r, S), R)
      <4> DEFINE a == Among(r, S)
      <4>1. a \in Seq(E) /\ Among(s, S) = Append(a, e)
        BY <2>2, <2>3, <2>4
      <4> HIDE DEF a
      <4>2. Among(Append(a, e), R) = IF e \in R THEN Append(Among(a, R), e) ELSE Among(a, R)
        BY <4>1, AmongAppend
      <4> QED
        BY <4>1, <4>2 DEF a
    <3> QED
      BY <1>0, <2>2, <2>3, <2>4, <3>1
  <2>5. CASE e \notin S
    BY <1>0, <2>2, <2>3, <2>5
  <2> QED
    BY <2>4, <2>5
<1>3. T = Nat
  <2>1. T \subseteq Nat
    OBVIOUS
  <2> HIDE DEF T
  <2> QED
    BY <1>1, <1>2, <2>1, SetInduction
<1>4. ASSUME NEW s \in Seq(E) PROVE P(s)
  <2>1. Len(s) \in T
    <3> HIDE DEF T
    <3> QED
      BY <1>3
  <2> QED
    BY <2>1
<1> QED
  BY <1>4 DEF U

\* No element is in the sequence twice.
Distinct(s) == \A i, j \in 1 .. Len(s) : s[i] = s[j] => i = j

\* An element that is new keeps a sequence distinct.
LEMMA DistinctAppend ==
    ASSUME NEW E, NEW s \in Seq(E), NEW e \in E
    PROVE  Distinct(Append(s, e)) <=> Distinct(s) /\ e \notin ToSet(s)
<1> DEFINE r == Append(s, e)
           n == Len(s)
<1>1. /\ n \in Nat /\ DOMAIN s = 1 .. n /\ Len(r) = n + 1 /\ r[n + 1] = e
      /\ \A i \in 1 .. n : r[i] = s[i]
  OBVIOUS
<1>2. ToSet(s) = {s[i] : i \in 1 .. n}
  BY <1>1 DEF ToSet
<1>3. Distinct(s) <=> \A i, j \in 1 .. n : s[i] = s[j] => i = j
  BY DEF Distinct
<1>4. Distinct(r) <=> \A i, j \in 1 .. n + 1 : r[i] = r[j] => i = j
  BY <1>1 DEF Distinct
<1> HIDE DEF r, n
<1>5. \A i : i \in 1 .. n + 1 <=> i \in 1 .. n \/ i = n + 1
  BY <1>1
<1>6. n + 1 \notin 1 .. n
  BY <1>1
<1>7. Distinct(r) <=> Distinct(s) /\ e \notin ToSet(s)
  BY <1>1, <1>2, <1>3, <1>4, <1>5, <1>6
<1> QED
  BY <1>7 DEF r

\* A part of distinct elements is distinct.
LEMMA AmongDistinct ==
    ASSUME NEW E, NEW S
    PROVE  \A s \in Seq(E) : Distinct(s) => Distinct(Among(s, S))
<1> DEFINE P(s) == Distinct(s) => Distinct(Among(s, S))
           T == {n \in Nat : \A s \in Seq(E) : Len(s) = n => P(s)}
<1>1. 0 \in T
  <2> SUFFICES ASSUME NEW s \in Seq(E), Len(s) = 0 PROVE P(s)
    OBVIOUS
  <2>1. s = <<>>
    BY EmptySeq
  <2> QED
    BY <2>1, AmongEmpty DEF Distinct
<1>2. ASSUME NEW n \in T PROVE n + 1 \in T
  <2> SUFFICES ASSUME NEW s \in Seq(E), Len(s) = n + 1, Distinct(s) PROVE Distinct(Among(s, S))
    BY <1>2
  <2>1. PICK r \in Seq(E), e \in E : s = Append(r, e) /\ Len(r) = n
    BY <1>2, LastSplit
  <2>2. P(r) /\ Among(r, S) \in Seq(E) /\ ToSet(Among(r, S)) = ToSet(r) \cap S
    BY <1>2, <2>1, AmongSet
  <2>3. Among(s, S) = IF e \in S THEN Append(Among(r, S), e) ELSE Among(r, S)
    BY <2>1, AmongAppend
  <2>4. Distinct(r) /\ e \notin ToSet(r)
    BY <2>1, DistinctAppend
  <2>5. CASE e \in S
    BY <2>2, <2>3, <2>4, <2>5, DistinctAppend
  <2>6. CASE e \notin S
    BY <2>2, <2>3, <2>4, <2>6
  <2> QED
    BY <2>5, <2>6
<1>3. T = Nat
  <2>1. T \subseteq Nat
    OBVIOUS
  <2> HIDE DEF T
  <2> QED
    BY <1>1, <1>2, <2>1, SetInduction
<1>4. ASSUME NEW s \in Seq(E) PROVE P(s)
  <2>1. Len(s) \in T
    BY <1>3
  <2> QED
    BY <2>1
<1> QED
  BY <1>4

\* The first of the part is the first of the sequence that is in the set.
LEMMA AmongFirst ==
    ASSUME NEW E, NEW S
    PROVE  \A s \in Seq(E) : Among(s, S) # <<>> =>
              \E i \in 1 .. Len(s) : /\ s[i] = Head(Among(s, S))
                                     /\ \A j \in 1 .. i - 1 : s[j] \notin S
<1> DEFINE Q(s, i) == s[i] = Head(Among(s, S)) /\ \A j \in 1 .. i - 1 : s[j] \notin S
           P(s) == Among(s, S) # <<>> => \E i \in 1 .. Len(s) : Q(s, i)
           T == {n \in Nat : \A s \in Seq(E) : Len(s) = n => P(s)}
<1>1. 0 \in T
  <2> SUFFICES ASSUME NEW s \in Seq(E), Len(s) = 0 PROVE P(s)
    OBVIOUS
  <2>1. s = <<>>
    BY EmptySeq
  <2> QED
    BY <2>1, AmongEmpty
<1>2. ASSUME NEW n \in T PROVE n + 1 \in T
  <2> SUFFICES ASSUME NEW s \in Seq(E), Len(s) = n + 1, Among(s, S) # <<>>
               PROVE  \E i \in 1 .. n + 1 : Q(s, i)
    BY <1>2
  <2>1. PICK r \in Seq(E), e \in E : s = Append(r, e) /\ Len(r) = n
    BY <1>2, LastSplit
  <2>2. P(r) /\ Among(r, S) \in Seq(E) /\ ToSet(Among(r, S)) = ToSet(r) \cap S
    BY <1>2, <2>1, AmongSet
  <2>3. Among(s, S) = IF e \in S THEN Append(Among(r, S), e) ELSE Among(r, S)
    BY <2>1, AmongAppend
  <2>4. n \in Nat /\ s[n + 1] = e /\ \A i \in 1 .. n : s[i] = r[i]
    BY <1>2, <2>1
  <2>5. CASE Among(r, S) # <<>>
    <3>1. Head(Among(s, S)) = Head(Among(r, S))
      <4>1. Head(Append(Among(r, S), e)) = Head(Among(r, S))
        BY <2>2, <2>5
      <4> QED
        BY <2>3, <4>1
    <3>2. PICK i \in 1 .. n : Q(r, i)
      BY <2>1, <2>2, <2>5
    <3>3. i \in 1 .. n + 1 /\ \A j \in 1 .. i - 1 : j \in 1 .. n
      BY <2>4
    <3>4. Q(s, i)
      BY <2>4, <3>1, <3>2, <3>3
    <3> QED
      BY <3>3, <3>4
  <2>6. CASE Among(r, S) = <<>>
    <3>1. e \in S /\ Head(Among(s, S)) = e
      BY <2>3, <2>6
    <3>2. ToSet(r) \cap S = {}
      BY <2>2, <2>6, ToSetEmpty
    <3>3. \A i \in 1 .. n : r[i] \notin S
      <4>1. \A i \in 1 .. n : r[i] \in ToSet(r)
        BY <2>1 DEF ToSet
      <4> QED
        BY <3>2, <4>1
    <3>4. n + 1 \in 1 .. n + 1 /\ (n + 1) - 1 = n
      BY <2>4
    <3>5. Q(s, n + 1)
      BY <2>4, <3>1, <3>3, <3>4
    <3> QED
      BY <3>4, <3>5
  <2> QED
    BY <2>5, <2>6
<1>3. T = Nat
  <2>1. T \subseteq Nat
    OBVIOUS
  <2> HIDE DEF T
  <2> QED
    BY <1>1, <1>2, <2>1, SetInduction
<1>4. ASSUME NEW s \in Seq(E) PROVE P(s)
  <2>1. Len(s) \in T
    BY <1>3
  <2> QED
    BY <2>1
<1> QED
  BY <1>4

\* Head and tail of a longer sequence.
LEMMA TailAppend ==
    ASSUME NEW E, NEW r \in Seq(E), r # <<>>, NEW e \in E
    PROVE  Tail(Append(r, e)) = Append(Tail(r), e) /\ Head(Append(r, e)) = Head(r)
<1> DEFINE n == Len(r)
           u == Tail(Append(r, e))
           v == Append(Tail(r), e)
<1>1. n \in Nat \ {0} /\ Append(r, e) \in Seq(E) /\ Len(Append(r, e)) = n + 1 /\ Append(r, e) # <<>>
  OBVIOUS
<1>2. u \in Seq(E) /\ Len(u) = n /\ \A i \in 1 .. n : u[i] = Append(r, e)[i + 1]
  BY <1>1
<1>3. Tail(r) \in Seq(E) /\ Len(Tail(r)) = n - 1 /\ \A i \in 1 .. n - 1 : Tail(r)[i] = r[i + 1]
  BY <1>1
<1>4. v \in Seq(E) /\ Len(v) = n /\ \A i \in 1 .. n - 1 : v[i] = r[i + 1]
  BY <1>1, <1>3
<1>5. v[n] = e
  BY <1>1, <1>3
<1>6. \A i \in 1 .. n : u[i] = v[i]
  <2> TAKE i \in 1 .. n
  <2>1. CASE i = n
    BY <1>1, <1>2, <1>5, <2>1
  <2>2. CASE i # n
    <3>1. i \in 1 .. n - 1 /\ i + 1 \in 1 .. n
      BY <1>1, <2>2
    <3>2. Append(r, e)[i + 1] = r[i + 1]
      BY <3>1
    <3> QED
      BY <1>2, <1>4, <3>1, <3>2
  <2> QED
    BY <2>1, <2>2
<1>7. u = v
  <2> HIDE DEF u, v, n
  <2> QED
    BY <1>2, <1>4, <1>6, SeqEqual
<1> QED
  BY <1>1, <1>7

\* Without its head a sequence of distinct elements is the part that is left.
LEMMA AmongTail ==
    ASSUME NEW E
    PROVE  \A s \in Seq(E) : s # <<>> /\ Distinct(s) =>
              /\ ToSet(Tail(s)) = ToSet(s) \ {Head(s)}
              /\ Among(s, ToSet(Tail(s))) = Tail(s)
<1> DEFINE P(s) == s # <<>> /\ Distinct(s) =>
                     /\ ToSet(Tail(s)) = ToSet(s) \ {Head(s)}
                     /\ Among(s, ToSet(Tail(s))) = Tail(s)
           T == {n \in Nat : \A s \in Seq(E) : Len(s) = n => P(s)}
<1>1. 0 \in T
  <2> SUFFICES ASSUME NEW s \in Seq(E), Len(s) = 0 PROVE P(s)
    OBVIOUS
  <2>1. s = <<>>
    BY EmptySeq
  <2> QED
    BY <2>1
<1>2. ASSUME NEW n \in T PROVE n + 1 \in T
  <2> SUFFICES ASSUME NEW s \in Seq(E), Len(s) = n + 1, Distinct(s)
               PROVE  /\ ToSet(Tail(s)) = ToSet(s) \ {Head(s)}
                      /\ Among(s, ToSet(Tail(s))) = Tail(s)
    BY <1>2
  <2>1. PICK r \in Seq(E), e \in E : s = Append(r, e) /\ Len(r) = n
    BY <1>2, LastSplit
  <2>2. P(r) /\ Distinct(r) /\ e \notin ToSet(r) /\ ToSet(s) = ToSet(r) \cup {e}
    BY <1>2, <2>1, DistinctAppend, ToSetAppend
  <2>3. CASE r = <<>>
    <3>1. Tail(s) = <<>> /\ Head(s) = e /\ ToSet(Tail(s)) = {}
      BY <2>1, <2>3, ToSetEmpty
    <3>2. ToSet(Among(s, {})) = {} /\ Among(s, {}) \in Seq(E)
      BY AmongSet
    <3>3. Among(s, {}) = <<>>
      BY <3>2, ToSetOf
    <3> QED
      BY <2>2, <2>3, <3>1, <3>3, ToSetEmpty
  <2>4. CASE r # <<>>
    <3>1. Tail(r) \in Seq(E) /\ Head(r) \in ToSet(r)
      BY <2>4, ToSetOf
    <3>2. Tail(s) = Append(Tail(r), e) /\ Head(s) = Head(r)
      BY <2>1, <2>4, TailAppend
    <3>3. ToSet(Tail(s)) = ToSet(Tail(r)) \cup {e}
      <4> DEFINE a == Tail(r)
      <4>1. a \in Seq(E) /\ Tail(s) = Append(a, e)
        BY <3>1, <3>2
      <4> HIDE DEF a
      <4>2. ToSet(Append(a, e)) = ToSet(a) \cup {e}
        BY <4>1, ToSetAppend
      <4> QED
        BY <4>1, <4>2 DEF a
    <3>4. ToSet(Tail(r)) = ToSet(r) \ {Head(r)} /\ Among(r, ToSet(Tail(r))) = Tail(r)
      BY <2>2, <2>4
    <3>5. ToSet(Tail(s)) = ToSet(s) \ {Head(s)}
      BY <2>2, <3>1, <3>2, <3>3, <3>4
    <3>6. Among(s, ToSet(Tail(s))) = Append(Among(r, ToSet(Tail(s))), e)
      <4>1. e \in ToSet(Tail(s))
        BY <3>3
      <4> QED
        BY <2>1, <4>1, AmongAppend
    <3>7. Among(r, ToSet(Tail(s))) = Among(r, ToSet(Tail(r)))
      <4>1. ToSet(r) \cap ToSet(Tail(s)) = ToSet(r) \cap ToSet(Tail(r))
        BY <2>2, <3>3
      <4> QED
        BY <4>1, AmongAgree
    <3> QED
      BY <3>2, <3>4, <3>5, <3>6, <3>7
  <2> QED
    BY <2>3, <2>4
<1>3. T = Nat
  <2>1. T \subseteq Nat
    OBVIOUS
  <2> HIDE DEF T
  <2> QED
    BY <1>1, <1>2, <2>1, SetInduction
<1>4. ASSUME NEW s \in Seq(E) PROVE P(s)
  <2>1. Len(s) \in T
    BY <1>3
  <2> QED
    BY <2>1
<1> QED
  BY <1>4

-----------------------------------------------------------------------------
(* The inductive invariant *)

\* The waiting events that belong in near[j] and in t[l][j] now.
OfNear(j) == {e \in Event \ ToSet(list) : InNear(expire[e], time, j)}
OfLevel(l, j) == {e \in Event \ ToSet(list) : InLevel(expire[e], time, l, j)}

\* Every list has the events that belong there, in the order they were asked for.
NearInOrder == \A j \in 0 .. TIME_NEAR - 1 : near[j] = Among(asked, OfNear(j))
LevelsInOrder ==
    \A l \in Level, j \in 0 .. TIME_LEVEL - 1 : t[l][j] = Among(asked, OfLevel(l, j))

\* So has the list being delivered.
ListInOrder == Distinct(asked) /\ list = Among(asked, ToSet(list))

\* It is delivered without the lock, and nothing else falls due meanwhile.
Delivery ==
    /\ lock \/ pc = "idle" => list = <<>>
    /\ list # <<>> => Due = <<>>
    /\ pc # "idle" => diff > 0

\* Nothing on the wheel is late: timer_shift never passes an event.
AllAhead == \A e \in Event : e \in ToSet(asked) \ ToSet(list) => Ahead(expire[e], time)

IInv ==
    TypeOK /\ ListInOrder /\ Delivery /\ AllAhead /\ NearInOrder /\ LevelsInOrder

\* What add_node and timer_shift say about the time of a node, and what is left of it.
LEMMA AskLeft ==
    ASSUME NEW now \in Time, NEW d \in Delay, NEW x, x = (now + d) % Word
    PROVE  x \in Time /\ (x - now) % Word = d /\ Ahead(x, now) /\ x # now
<1>1. /\ Word \in Nat \ {0} /\ Word \div 2 \in Nat /\ 2 * (Word \div 2) <= Word
      /\ now \in 0 .. Word - 1 /\ d \in 1 .. Word \div 2 - 1
  BY WordFacts DEF Time, Delay
<1> DEFINE w == Word
           h == Word \div 2
<1>2. w \in Nat \ {0} /\ h \in Nat /\ 2 * h <= w /\ now \in 0 .. w - 1 /\ d \in 1 .. h - 1
  BY <1>1
<1>3. x = (now + d) % w
  OBVIOUS
<1> HIDE DEF w, h
<1>4. x = IF now + d < w THEN now + d ELSE now + d - w
  <2>1. CASE now + d < w
    <3>1. now + d = w * 0 + (now + d) /\ now + d \in Nat /\ 0 \in Int /\ now + d \in 0 .. w - 1
      BY <1>2, <2>1
    <3>2. (now + d) % w = now + d
      BY <1>2, <3>1, DivUnique
    <3> QED
      BY <1>3, <2>1, <3>2
  <2>2. CASE ~(now + d < w)
    <3>1. /\ now + d = w * 1 + (now + d - w) /\ now + d \in Nat /\ 1 \in Int
          /\ now + d - w \in 0 .. w - 1
      BY <1>2, <2>2
    <3>2. (now + d) % w = now + d - w
      BY <1>2, <3>1, DivUnique
    <3> QED
      BY <1>3, <2>2, <3>2
  <2> QED
    BY <2>1, <2>2
<1>5. x \in 0 .. w - 1 /\ x # now
  BY <1>2, <1>4
<1>6. x \in Time
  BY <1>5 DEF Time, w
<1>7. (x - now) % Word = IF x < now THEN x - now + Word ELSE x - now
  BY <1>6, WordFacts
<1>8. (x - now) % Word = d
  BY <1>2, <1>4, <1>5, <1>7 DEF w
<1>9. Ahead(x, now)
  BY <1>2, <1>8 DEF Ahead, h
<1> QED
  BY <1>5, <1>6, <1>8, <1>9

\* A tick takes one from what is left.
LEMMA TickLeft ==
    ASSUME NEW now \in Time, NEW ct, ct = (now + 1) % Word, NEW x \in Time, x # now
    PROVE  /\ (x - now) % Word \in Nat \ {0}
           /\ (x - ct) % Word = ((x - now) % Word) - 1
           /\ Ahead(x, now) => Ahead(x, ct)
<1>1. /\ Word \in Nat \ {0} /\ Word \div 2 \in Nat
      /\ now \in 0 .. Word - 1 /\ x \in 0 .. Word - 1
  BY WordFacts DEF Time
<1>2. ct \in Time /\ (ct # 0 => ct = now + 1) /\ (ct = 0 => now = Word - 1)
  BY TurnFacts
<1>3. /\ (x - now) % Word = IF x < now THEN x - now + Word ELSE x - now
      /\ (x - ct) % Word = IF x < ct THEN x - ct + Word ELSE x - ct
  BY <1>2, WordFacts
<1> DEFINE w == Word
           a == (x - now) % Word
           b == (x - ct) % Word
<1>4. /\ w \in Nat \ {0} /\ now \in 0 .. w - 1 /\ x \in 0 .. w - 1
      /\ (ct # 0 => ct = now + 1) /\ (ct = 0 => now = w - 1)
      /\ a = IF x < now THEN x - now + w ELSE x - now
      /\ b = IF x < ct THEN x - ct + w ELSE x - ct
  BY <1>1, <1>2, <1>3
<1> HIDE DEF w, a, b
<1>5. a \in Nat \ {0} /\ b = a - 1
  <2>1. CASE ct = 0
    BY <1>4, <2>1
  <2>2. CASE ct # 0
    BY <1>4, <2>2
  <2> QED
    BY <2>1, <2>2
<1>6. a < Word \div 2 => b < Word \div 2
  BY <1>1, <1>5
<1> QED
  BY <1>5, <1>6 DEF a, b, Ahead

\* The list the time is at has what expires now.
LEMMA NearIsNow ==
    ASSUME NEW x \in Time, NEW now \in Time
    PROVE  InNear(x, now, now % TIME_NEAR) <=> x = now
<1>1. x \in Nat /\ now \in Nat /\ TIME_NEAR \in Nat \ {0} /\ Span(0) = TIME_NEAR
  BY SpanFacts DEF Time
<1>2. InNear(x, now, now % TIME_NEAR) <=>
        x \div TIME_NEAR = now \div TIME_NEAR /\ x % TIME_NEAR = now % TIME_NEAR
  BY <1>1 DEF InNear, SameBlock
<1> DEFINE d == TIME_NEAR
<1> HIDE DEF d
<1>3. /\ x = d * (x \div d) + (x % d)
      /\ now = d * (now \div d) + (now % d)
  BY <1>1, DivMod DEF d
<1>4. (x \div d = now \div d /\ x % d = now % d) <=> x = now
  BY <1>3
<1> QED
  BY <1>2, <1>4 DEF d

\* The lists add_node and timer_execute look at exist.
LEMMA NearIdx ==
    ASSUME NEW x \in Time
    PROVE  x % TIME_NEAR \in 0 .. TIME_NEAR - 1
<1>1. x \in Nat /\ TIME_NEAR \in Nat \ {0}
  BY SpanFacts DEF Time
<1> DEFINE d == TIME_NEAR
<1> HIDE DEF d
<1> QED
  BY <1>1, DivMod DEF d

\* So do those of the levels.
LEMMA LevelType ==
    ASSUME NEW x \in Time, NEW now \in Time
    PROVE  LevelOf(x, now) \in Level /\ Idx(x, LevelOf(x, now)) \in 0 .. TIME_LEVEL - 1
<1> DEFINE S(m) == SameBlock(x, now, m)
           Is(m) == (m = 3 \/ S(m + 1)) /\ \A k \in 0 .. m - 1 : ~S(k + 1)
<1>1. /\ 0 .. 0 - 1 = {} /\ 0 .. 1 - 1 = {0} /\ 0 .. 2 - 1 = {0, 1} /\ 0 .. 3 - 1 = {0, 1, 2}
      /\ 0 + 1 = 1 /\ 1 + 1 = 2 /\ 2 + 1 = 3 /\ Level = {0, 1, 2, 3}
  BY DEF Level
<1>2. LevelOf(x, now) = CHOOSE m \in Level : Is(m)
  BY DEF LevelOf
<1> HIDE DEF S
<1>3. \E m \in Level : Is(m)
  <2>1. CASE S(1)
    BY <1>1, <2>1
  <2>2. CASE ~S(1) /\ S(2)
    BY <1>1, <2>2
  <2>3. CASE ~S(1) /\ ~S(2) /\ S(3)
    BY <1>1, <2>3
  <2>4. CASE ~S(1) /\ ~S(2) /\ ~S(3)
    BY <1>1, <2>4
  <2> QED
    BY <2>1, <2>2, <2>3, <2>4
<1> HIDE DEF Is
<1>4. LevelOf(x, now) \in Level
  BY <1>2, <1>3
<1>5. x \in Nat
  BY SpanFacts DEF Time
<1> QED
  BY <1>4, <1>5, BlkFacts

\* A list the dealt nodes are added to, when it has none or is given none.
LEMMA DealtInOrder ==
    ASSUME NEW E, NEW s \in Seq(E), NEW A, NEW M, NEW D,
           ToSet(s) \cap A = {}, ToSet(s) \cap (M \cap D) = ToSet(s) \cap D
    PROVE  Among(s, A) \o Among(Among(s, M), D) = Among(s, D)
<1>1. Among(Among(s, M), D) = Among(s, M \cap D)
  BY AmongTwice
<1>2. Among(s, M \cap D) = Among(s, D) /\ Among(s, D) \in Seq(E)
  BY AmongAgree, AmongSet
<1>3. Among(s, A) \in Seq(E) /\ ToSet(Among(s, A)) = {}
  BY AmongSet
<1>4. Among(s, A) = <<>>
  BY <1>3, ToSetOf
<1>5. <<>> \o Among(s, D) = Among(s, D)
  BY <1>2, ConcatEmptySeq
<1> QED
  BY <1>1, <1>2, <1>4, <1>5

LEMMA KeptInOrder ==
    ASSUME NEW E, NEW s \in Seq(E), NEW A, NEW M, NEW D,
           \A e \in ToSet(s) : (e \in A <=> e \in D) /\ ~(e \in M /\ e \in D)
    PROVE  Among(s, A) \o Among(Among(s, M), D) = Among(s, D)
<1> DEFINE MD == M \cap D
<1>1. Among(Among(s, M), D) = Among(s, MD)
  BY AmongTwice
<1>2. ToSet(s) \cap MD = {}
  OBVIOUS
<1> HIDE DEF MD
<1>3. Among(s, A) = Among(s, D) /\ Among(s, A) \in Seq(E)
  <2>1. ToSet(s) \cap A = ToSet(s) \cap D
    OBVIOUS
  <2> QED
    BY <2>1, AmongAgree, AmongSet
<1>4. Among(s, MD) \in Seq(E) /\ ToSet(Among(s, MD)) = {}
  BY <1>2, AmongSet
<1>5. Among(s, MD) = <<>>
  BY <1>4, ToSetOf
<1>6. Among(s, A) \o <<>> = Among(s, A)
  BY <1>3, ConcatEmptySeq
<1> QED
  BY <1>1, <1>3, <1>5, <1>6

-----------------------------------------------------------------------------
(* Every step keeps the invariant *)

\* timer_create_timer.
LEMMA InitIInv == Init => IInv
<1> SUFFICES ASSUME Init PROVE IInv
  OBVIOUS
<1> USE DEF Init
<1>1. TIME_NEAR \in Nat \ {0} /\ TIME_LEVEL \in Nat \ {0} /\ Word \in Nat \ {0} /\ MaxDiff \in Nat
  BY SpanFacts, TimerAssumption
<1>2. TypeOK
  <2>1. <<>> \in Seq(Event)
    OBVIOUS
  <2>2. near \in [0 .. TIME_NEAR - 1 -> Seq(Event)]
    BY <2>1
  <2>3. t \in [Level -> [0 .. TIME_LEVEL - 1 -> Seq(Event)]]
    BY <2>1
  <2>4. expire \in [Event -> 0 .. Word - 1] /\ time \in 0 .. Word - 1 /\ diff \in 0 .. MaxDiff
    BY <1>1
  <2> QED
    BY <2>1, <2>2, <2>3, <2>4 DEF TypeOK
<1>3. ToSet(asked) = {} /\ ToSet(list) = {}
  BY ToSetEmpty
<1>4. ListInOrder /\ Delivery /\ AllAhead
  BY <1>3, AmongEmpty DEF ListInOrder, Distinct, Delivery, AllAhead
<1>5. NearInOrder /\ LevelsInOrder
  BY AmongEmpty DEF NearInOrder, LevelsInOrder, Level
<1> QED
  BY <1>2, <1>4, <1>5 DEF IInv

\* The types as they are used below.
LEMMA Types ==
    ASSUME TypeOK
    PROVE  /\ time \in Time /\ \A e \in Event : expire[e] \in Time
           /\ asked \in Seq(Event) /\ list \in Seq(Event)
           /\ ToSet(asked) \subseteq Event /\ ToSet(list) \subseteq Event
           /\ time % TIME_NEAR \in 0 .. TIME_NEAR - 1
<1>1. time \in Time /\ asked \in Seq(Event) /\ list \in Seq(Event) /\ \A e \in Event : expire[e] \in Time
  BY DEF TypeOK, Time
<1> QED
  BY <1>1, ToSetOf, NearIdx

\* What is delivered was asked for.
LEMMA ListAsked ==
    ASSUME TypeOK, ListInOrder
    PROVE  ToSet(list) \subseteq ToSet(asked) /\ Distinct(list)
<1>1. asked \in Seq(Event) /\ Distinct(asked) /\ list = Among(asked, ToSet(list))
  BY DEF TypeOK, ListInOrder
<1> DEFINE S == ToSet(list)
<1> HIDE DEF S
<1>2. ToSet(Among(asked, S)) = ToSet(asked) \cap S /\ Distinct(Among(asked, S))
  BY <1>1, AmongSet, AmongDistinct
<1> QED
  BY <1>1, <1>2 DEF S

\* Steps that leave the wheel, the events and the time alone.
LEMMA QuietStep ==
    ASSUME IInv, UNCHANGED <<near, t, time, expire, list, asked>>,
           lock' \in BOOLEAN, diff' \in 0 .. MaxDiff, pc' \in {"idle", "before", "after"},
           lock' \/ pc' = "idle" => list = <<>>, pc' # "idle" => diff' > 0
    PROVE  IInv'
<1>1. TypeOK' /\ Delivery'
  BY DEF IInv, TypeOK, Delivery, Due
<1>2. ListInOrder' /\ AllAhead'
  BY DEF IInv, ListInOrder, AllAhead
<1>3. \A j : OfNear(j)' = OfNear(j)
  BY DEF OfNear
<1>4. \A l, j : OfLevel(l, j)' = OfLevel(l, j)
  BY DEF OfLevel
<1>5. NearInOrder' /\ LevelsInOrder'
  BY <1>3, <1>4 DEF IInv, NearInOrder, LevelsInOrder
<1> QED
  BY <1>1, <1>2, <1>5 DEF IInv

\* skynet_timeout puts the event at the end of the list it belongs in.
LEMMA AskIInv ==
    ASSUME IInv, NEW e \in Event, NEW d \in Delay, skynet_timeout(e, d)
    PROVE  IInv'
<1> DEFINE x == (time + d) % Word
<1>0. TypeOK /\ ListInOrder /\ Delivery /\ AllAhead /\ NearInOrder /\ LevelsInOrder
  BY DEF IInv
<1>1. /\ time \in Time /\ asked \in Seq(Event) /\ list \in Seq(Event)
      /\ ToSet(asked) \subseteq Event /\ ToSet(list) \subseteq ToSet(asked)
      /\ time % TIME_NEAR \in 0 .. TIME_NEAR - 1
  BY <1>0, Types, ListAsked
<1>2. x \in Time /\ Ahead(x, time) /\ x # time
  BY <1>1, AskLeft
<1>3. /\ ~lock /\ e \notin ToSet(asked) /\ e \notin ToSet(list)
      /\ expire' = [expire EXCEPT ![e] = x] /\ asked' = Append(asked, e)
      /\ UNCHANGED <<time, lock, diff, pc, list>>
  BY <1>1 DEF skynet_timeout, Pending
<1>4. expire'[e] = x /\ \A f \in Event : f # e => expire'[f] = expire[f]
  BY <1>0, <1>3 DEF TypeOK
<1>5. /\ near' = [j \in DOMAIN near |-> IF InNear(x, time, j) THEN Append(near[j], e) ELSE near[j]]
      /\ t' = [l \in Level |-> [j \in DOMAIN t[l] |->
                 IF InLevel(x, time, l, j) THEN Append(t[l][j], e) ELSE t[l][j]]]
  BY <1>4 DEF skynet_timeout, SetWheel, add_node, Wheel
<1> HIDE DEF x
<1>6. /\ near \in [0 .. TIME_NEAR - 1 -> Seq(Event)]
      /\ t \in [Level -> [0 .. TIME_LEVEL - 1 -> Seq(Event)]]
  BY <1>0 DEF TypeOK
<1>7. ASSUME NEW j \in 0 .. TIME_NEAR - 1
      PROVE  near'[j] = (IF InNear(x, time, j) THEN Append(near[j], e) ELSE near[j])
             /\ near'[j] \in Seq(Event)
  BY <1>5, <1>6, <1>7
<1>8. ASSUME NEW l \in Level, NEW j \in 0 .. TIME_LEVEL - 1
      PROVE  t'[l][j] = (IF InLevel(x, time, l, j) THEN Append(t[l][j], e) ELSE t[l][j])
             /\ t'[l][j] \in Seq(Event)
  <2>1. t'[l] = [i \in DOMAIN t[l] |->
                   IF InLevel(x, time, l, i) THEN Append(t[l][i], e) ELSE t[l][i]]
    BY <1>5
  <2>2. t[l] \in [0 .. TIME_LEVEL - 1 -> Seq(Event)]
    BY <1>6
  <2>3. t[l][j] \in Seq(Event) /\ j \in DOMAIN t[l]
    BY <2>2
  <2>4. t'[l][j] = IF InLevel(x, time, l, j) THEN Append(t[l][j], e) ELSE t[l][j]
    BY <2>1, <2>3
  <2> QED
    BY <2>3, <2>4
<1>9. TypeOK'
  <2>1. near' \in [0 .. TIME_NEAR - 1 -> Seq(Event)]
    BY <1>5, <1>6, <1>7
  <2>2. t' \in [Level -> [0 .. TIME_LEVEL - 1 -> Seq(Event)]]
    BY <1>5, <1>6, <1>8
  <2>3. expire' \in [Event -> 0 .. Word - 1]
    BY <1>0, <1>2, <1>3 DEF TypeOK, Time
  <2>4. asked' \in Seq(Event)
    BY <1>1, <1>3
  <2> QED
    BY <1>0, <1>3, <2>1, <2>2, <2>3, <2>4 DEF TypeOK
<1>10. ToSet(asked') = ToSet(asked) \cup {e}
  BY <1>1, <1>3, ToSetAppend
<1>11. ListInOrder'
  <2>1. Distinct(asked')
    BY <1>0, <1>1, <1>3, DistinctAppend DEF ListInOrder
  <2>2. Among(asked', ToSet(list)) = Among(asked, ToSet(list))
    BY <1>1, <1>3, AmongAppend
  <2> QED
    BY <1>0, <1>3, <2>1, <2>2 DEF ListInOrder
<1>12. Delivery'
  <2>1. Due' = Due
    <3>1. ~InNear(x, time, time % TIME_NEAR)
      BY <1>1, <1>2, NearIsNow
    <3>2. near'[time % TIME_NEAR] = near[time % TIME_NEAR]
      BY <1>1, <1>7, <3>1
    <3> QED
      BY <1>3, <3>2 DEF Due
  <2> QED
    BY <1>0, <1>3, <2>1 DEF Delivery
<1>13. AllAhead'
  BY <1>0, <1>2, <1>3, <1>4, <1>10 DEF AllAhead
<1>14. NearInOrder'
  <2> SUFFICES ASSUME NEW j \in 0 .. TIME_NEAR - 1 PROVE near'[j] = Among(asked', OfNear(j)')
    BY DEF NearInOrder
  <2> DEFINE A == OfNear(j)
             B == OfNear(j)'
  <2>1. /\ e \in B <=> InNear(x, time, j)
        /\ \A f \in Event : f # e => (f \in B <=> f \in A)
    BY <1>3, <1>4 DEF OfNear
  <2>2. near[j] = Among(asked, A)
    BY <1>0 DEF NearInOrder
  <2> HIDE DEF A, B
  <2>3. ToSet(asked) \cap A = ToSet(asked) \cap B
    BY <1>1, <1>3, <2>1
  <2>4. Among(asked, A) = Among(asked, B)
    BY <1>1, <2>3, AmongAgree
  <2>5. Among(asked', B) = IF e \in B THEN Append(Among(asked, B), e) ELSE Among(asked, B)
    BY <1>1, <1>3, AmongAppend
  <2>6. near'[j] = Among(asked', B)
    BY <1>7, <2>1, <2>2, <2>4, <2>5
  <2> QED
    BY <2>6 DEF B
<1>15. LevelsInOrder'
  <2> SUFFICES ASSUME NEW l \in Level, NEW j \in 0 .. TIME_LEVEL - 1
               PROVE  t'[l][j] = Among(asked', OfLevel(l, j)')
    BY DEF LevelsInOrder
  <2> DEFINE A == OfLevel(l, j)
             B == OfLevel(l, j)'
  <2>1. /\ e \in B <=> InLevel(x, time, l, j)
        /\ \A f \in Event : f # e => (f \in B <=> f \in A)
    BY <1>3, <1>4 DEF OfLevel
  <2>2. t[l][j] = Among(asked, A)
    BY <1>0 DEF LevelsInOrder
  <2> HIDE DEF A, B
  <2>3. ToSet(asked) \cap A = ToSet(asked) \cap B
    BY <1>1, <1>3, <2>1
  <2>4. Among(asked, A) = Among(asked, B)
    BY <1>1, <2>3, AmongAgree
  <2>5. Among(asked', B) = IF e \in B THEN Append(Among(asked, B), e) ELSE Among(asked, B)
    BY <1>1, <1>3, AmongAppend
  <2>6. t'[l][j] = Among(asked', B)
    BY <1>8, <2>1, <2>2, <2>4, <2>5
  <2> QED
    BY <2>6 DEF B
<1> QED
  BY <1>9, <1>11, <1>12, <1>13, <1>14, <1>15 DEF IInv

\* timer_execute takes the list the time is at.
LEMMA ExecuteIInv ==
    ASSUME IInv, timer_execute
    PROVE  IInv'
<1> DEFINE k == time % TIME_NEAR
<1>0. TypeOK /\ ListInOrder /\ Delivery /\ AllAhead /\ NearInOrder /\ LevelsInOrder
  BY DEF IInv
<1>1. /\ time \in Time /\ asked \in Seq(Event)
      /\ ToSet(asked) \subseteq Event /\ k \in 0 .. TIME_NEAR - 1
  BY <1>0, Types
<1>2. /\ pc # "idle" /\ list = <<>> /\ ToSet(list) = {}
      /\ list' = near[k] /\ near' = [near EXCEPT ![k] = <<>>] /\ lock' = FALSE
      /\ UNCHANGED <<t, time, expire, diff, pc, asked>>
  BY <1>0, ToSetEmpty DEF timer_execute, Due, Delivery
<1>3. near \in [0 .. TIME_NEAR - 1 -> Seq(Event)]
  BY <1>0 DEF TypeOK
<1> HIDE DEF k
<1>4. near'[k] = <<>> /\ \A j \in 0 .. TIME_NEAR - 1 : j # k => near'[j] = near[j]
  BY <1>1, <1>2, <1>3
<1>5. near' \in [0 .. TIME_NEAR - 1 -> Seq(Event)] /\ list' \in Seq(Event)
  BY <1>1, <1>2, <1>3
<1>6. list' = Among(asked, OfNear(k))
  BY <1>0, <1>1, <1>2 DEF NearInOrder
<1>7. ToSet(list') = ToSet(asked) \cap OfNear(k)
  BY <1>1, <1>6, AmongSet
<1>8. \A e \in Event : e \in OfNear(k) <=> InNear(expire[e], time, k)
  BY <1>2 DEF OfNear
<1>9. TypeOK'
  BY <1>0, <1>2, <1>5 DEF TypeOK
<1>10. ListInOrder'
  <2> DEFINE A == OfNear(k)
             B == ToSet(list')
  <2>1. ToSet(asked) \cap A = ToSet(asked) \cap B
    BY <1>7
  <2> HIDE DEF A, B
  <2>2. Among(asked, A) = Among(asked, B)
    BY <1>1, <2>1, AmongAgree
  <2> QED
    BY <1>0, <1>2, <1>6, <2>2 DEF ListInOrder, A, B
<1>11. Delivery'
  <2>1. Due' = <<>>
    BY <1>2, <1>4 DEF Due, k
  <2> QED
    BY <1>0, <1>2, <2>1 DEF Delivery
<1>12. AllAhead'
  BY <1>0, <1>2 DEF AllAhead
<1>13. NearInOrder'
  <2> SUFFICES ASSUME NEW j \in 0 .. TIME_NEAR - 1 PROVE near'[j] = Among(asked, OfNear(j)')
    BY <1>2 DEF NearInOrder
  <2> DEFINE A == OfNear(j)
             B == OfNear(j)'
  <2>0. /\ A = {e \in Event : InNear(expire[e], time, j)}
        /\ B = {e \in Event \ ToSet(list') : InNear(expire[e], time, j)}
    BY <1>2 DEF OfNear
  <2>1. CASE j # k
    <3>1. \A e \in Event : InNear(expire[e], time, j) => ~InNear(expire[e], time, k)
      BY <2>1 DEF InNear
    <3>2. ToSet(asked) \cap A = ToSet(asked) \cap B
      <4> HIDE DEF A, B
      <4> QED
        BY <1>1, <1>7, <1>8, <2>0, <3>1
    <3>3. near[j] = Among(asked, A)
      BY <1>0 DEF NearInOrder
    <3> HIDE DEF A, B
    <3>4. Among(asked, A) = Among(asked, B)
      BY <1>1, <3>2, AmongAgree
    <3>5. near'[j] = Among(asked, B)
      BY <1>4, <2>1, <3>3, <3>4
    <3> QED
      BY <3>5 DEF B
  <2>2. CASE j = k
    <3>1. ToSet(asked) \cap B = {}
      <4> HIDE DEF A, B
      <4> QED
        BY <1>1, <1>7, <1>8, <2>0, <2>2
    <3> HIDE DEF A, B
    <3>2. Among(asked, B) \in Seq(Event) /\ ToSet(Among(asked, B)) = {}
      BY <1>1, <3>1, AmongSet
    <3>3. Among(asked, B) = <<>>
      BY <3>2, ToSetOf
    <3> QED
      BY <1>4, <2>2, <3>3 DEF B
  <2> QED
    BY <2>1, <2>2
<1>14. LevelsInOrder'
  <2> SUFFICES ASSUME NEW l \in Level, NEW j \in 0 .. TIME_LEVEL - 1
               PROVE  t[l][j] = Among(asked, OfLevel(l, j)')
    BY <1>2 DEF LevelsInOrder
  <2> DEFINE A == OfLevel(l, j)
             B == OfLevel(l, j)'
  <2>0. /\ A = {e \in Event : InLevel(expire[e], time, l, j)}
        /\ B = {e \in Event \ ToSet(list') : InLevel(expire[e], time, l, j)}
    BY <1>2 DEF OfLevel
  <2>1. \A e \in Event : InLevel(expire[e], time, l, j) => ~InNear(expire[e], time, k)
    BY DEF InNear, InLevel
  <2>2. t[l][j] = Among(asked, A)
    BY <1>0 DEF LevelsInOrder
  <2> HIDE DEF A, B
  <2>3. ToSet(asked) \cap A = ToSet(asked) \cap B
    BY <1>1, <1>7, <1>8, <2>0, <2>1
  <2>4. Among(asked, A) = Among(asked, B)
    BY <1>1, <2>3, AmongAgree
  <2> QED
    BY <2>2, <2>4 DEF B
<1> QED
  BY <1>9, <1>10, <1>11, <1>12, <1>13, <1>14 DEF IInv

\* dispatch_list takes the first event of its list.
LEMMA DispatchIInv ==
    ASSUME IInv, dispatch_list
    PROVE  IInv'
<1> DEFINE h == Head(list)
           R == Event \ {h}
<1>0. TypeOK /\ ListInOrder /\ Delivery /\ AllAhead /\ NearInOrder /\ LevelsInOrder
  BY DEF IInv
<1>1. /\ time \in Time /\ asked \in Seq(Event) /\ list \in Seq(Event)
      /\ ToSet(asked) \subseteq Event /\ ToSet(list) \subseteq ToSet(asked) /\ Distinct(list)
  BY <1>0, Types, ListAsked
<1>2. /\ list # <<>> /\ list' = Tail(list) /\ asked' = Among(asked, R)
      /\ expire' = [expire EXCEPT ![h] = 0]
      /\ UNCHANGED <<near, t, time, lock, diff, pc>>
  BY DEF dispatch_list
<1>3. h \in ToSet(list) /\ list' \in Seq(Event)
  BY <1>1, <1>2, ToSetOf
<1>4. ToSet(list') = ToSet(list) \ {h} /\ Among(list, ToSet(list')) = list'
  BY <1>1, <1>2, AmongTail
<1>5. \A e : e \in R <=> e \in Event /\ e # h
  OBVIOUS
<1> HIDE DEF h, R
<1>6. asked' \in Seq(Event) /\ ToSet(asked') = ToSet(asked) \cap R
  BY <1>1, <1>2, AmongSet
<1>7. \A e \in Event : e # h => expire'[e] = expire[e]
  BY <1>0, <1>2 DEF TypeOK
<1>8. TypeOK'
  <2>1. expire' \in [Event -> 0 .. Word - 1]
    <3>1. 0 \in 0 .. Word - 1
      BY SpanFacts
    <3> QED
      BY <1>0, <1>2, <3>1 DEF TypeOK
  <2> QED
    BY <1>0, <1>2, <1>3, <1>6, <2>1 DEF TypeOK
<1>9. ListInOrder'
  <2> DEFINE L == ToSet(list)
             M == ToSet(list')
  <2>1. list = Among(asked, L) /\ Distinct(asked)
    BY <1>0 DEF ListInOrder
  <2>2. Distinct(asked')
    BY <1>1, <1>2, <2>1, AmongDistinct
  <2>3. L \cap M = R \cap M
    BY <1>1, <1>4, <1>5
  <2> HIDE DEF L, M
  <2>4. Among(Among(asked, L), M) = Among(asked, L \cap M)
    BY <1>1, AmongTwice
  <2>5. Among(Among(asked, R), M) = Among(asked, R \cap M)
    BY <1>1, AmongTwice
  <2>6. Among(asked', M) = Among(list, M)
    BY <1>2, <2>1, <2>3, <2>4, <2>5
  <2> QED
    BY <1>4, <2>2, <2>6 DEF ListInOrder, M
<1>10. Delivery'
  <2>1. ~lock /\ pc # "idle" /\ Due = <<>> /\ Due' = Due
    BY <1>0, <1>2 DEF Delivery, Due
  <2> QED
    BY <1>0, <1>2, <2>1 DEF Delivery
<1>11. AllAhead'
  BY <1>0, <1>2, <1>4, <1>5, <1>6, <1>7 DEF AllAhead
<1>12. NearInOrder'
  <2> SUFFICES ASSUME NEW j \in 0 .. TIME_NEAR - 1 PROVE near[j] = Among(asked', OfNear(j)')
    BY <1>2 DEF NearInOrder
  <2> DEFINE A == OfNear(j)
             B == OfNear(j)'
  <2>1. /\ A = {e \in Event \ ToSet(list) : InNear(expire[e], time, j)}
        /\ B = {e \in Event \ ToSet(list') : InNear(expire'[e], time, j)}
    BY <1>2 DEF OfNear
  <2>2. near[j] = Among(asked, A)
    BY <1>0 DEF NearInOrder
  <2> HIDE DEF A, B
  <2>3. R \cap B = A
    BY <1>3, <1>4, <1>5, <1>7, <2>1
  <2>4. Among(Among(asked, R), B) = Among(asked, R \cap B)
    BY <1>1, AmongTwice
  <2> QED
    BY <1>2, <2>2, <2>3, <2>4 DEF B
<1>13. LevelsInOrder'
  <2> SUFFICES ASSUME NEW l \in Level, NEW j \in 0 .. TIME_LEVEL - 1
               PROVE  t[l][j] = Among(asked', OfLevel(l, j)')
    BY <1>2 DEF LevelsInOrder
  <2> DEFINE A == OfLevel(l, j)
             B == OfLevel(l, j)'
  <2>1. /\ A = {e \in Event \ ToSet(list) : InLevel(expire[e], time, l, j)}
        /\ B = {e \in Event \ ToSet(list') : InLevel(expire'[e], time, l, j)}
    BY <1>2 DEF OfLevel
  <2>2. t[l][j] = Among(asked, A)
    BY <1>0 DEF LevelsInOrder
  <2> HIDE DEF A, B
  <2>3. R \cap B = A
    BY <1>3, <1>4, <1>5, <1>7, <2>1
  <2>4. Among(Among(asked, R), B) = Among(asked, R \cap B)
    BY <1>1, AmongTwice
  <2> QED
    BY <1>2, <2>2, <2>3, <2>4 DEF B
<1> QED
  BY <1>8, <1>9, <1>10, <1>11, <1>12, <1>13 DEF IInv

\* When the time moves on, nothing is due any more.
LEMMA NothingDue ==
    ASSUME IInv, UpdateShift
    PROVE  /\ list = <<>> /\ ToSet(list) = {}
           /\ \A e \in ToSet(asked) : expire[e] # time /\ Ahead(expire[e], time)
<1> DEFINE k == time % TIME_NEAR
<1>0. TypeOK /\ ListInOrder /\ Delivery /\ AllAhead /\ NearInOrder /\ LevelsInOrder
  BY DEF IInv
<1>1. /\ time \in Time /\ asked \in Seq(Event) /\ \A e \in Event : expire[e] \in Time
      /\ ToSet(asked) \subseteq Event /\ k \in 0 .. TIME_NEAR - 1
  BY <1>0, Types
<1>2. list = <<>> /\ ToSet(list) = {} /\ near[k] = <<>>
  BY <1>0, ToSetEmpty DEF UpdateShift, Delivery, Due
<1>3. near[k] = Among(asked, OfNear(k))
  BY <1>0, <1>1 DEF NearInOrder
<1>4. ToSet(asked) \cap OfNear(k) = {}
  BY <1>1, <1>2, <1>3, AmongSet, ToSetEmpty
<1>5. ASSUME NEW e \in ToSet(asked) PROVE expire[e] # time
  <2>1. e \in Event /\ e \notin OfNear(k)
    BY <1>1, <1>4, <1>5
  <2>2. ~InNear(expire[e], time, k)
    BY <1>2, <2>1 DEF OfNear
  <2> QED
    BY <1>1, <2>1, <2>2, NearIsNow
<1>6. \A e \in ToSet(asked) : Ahead(expire[e], time)
  BY <1>0, <1>1, <1>2 DEF AllAhead
<1> QED
  BY <1>2, <1>5, <1>6

\* The events that belong in near[j] and in t[l][j] at ct.
DealtNear(ct, j) == {e \in Event : InNear(expire[e], ct, j)}
DealtLevel(ct, l, j) == {e \in Event : InLevel(expire[e], ct, l, j)}

\* The wheel after a list of level l has been dealt out.
IsDealt(l, i, ct) ==
    /\ near' = [j \in 0 .. TIME_NEAR - 1 |-> near[j] \o Among(t[l][i], DealtNear(ct, j))]
    /\ t' = [k \in Level |-> [j \in 0 .. TIME_LEVEL - 1 |->
                (IF k = l /\ j = i THEN <<>> ELSE t[k][j]) \o Among(t[l][i], DealtLevel(ct, k, j))]]

\* move_list does that.
LEMMA ShiftDeals ==
    ASSUME TypeOK, NEW l \in Level, NEW i \in 0 .. TIME_LEVEL - 1, NEW ct,
           near' = move_list(Wheel, l, i, ct).near, t' = move_list(Wheel, l, i, ct).t
    PROVE  IsDealt(l, i, ct)
<1> DEFINE c == [t EXCEPT ![l][i] = <<>>]
           N(j) == Among(t[l][i], DealtNear(ct, j))
           V(k, j) == Among(t[l][i], DealtLevel(ct, k, j))
<1>1. /\ near \in [0 .. TIME_NEAR - 1 -> Seq(Event)]
      /\ t \in [Level -> [0 .. TIME_LEVEL - 1 -> Seq(Event)]]
  BY DEF TypeOK
<1>2. /\ near' = [j \in DOMAIN near |-> near[j] \o N(j)]
      /\ t' = [k \in Level |-> [j \in DOMAIN c[k] |-> c[k][j] \o V(k, j)]]
  BY DEF move_list, Deal, Wheel, DealtNear, DealtLevel
<1> HIDE DEF N, V
<1>3. /\ \A k \in Level : DOMAIN c[k] = 0 .. TIME_LEVEL - 1
      /\ \A k \in Level, j \in 0 .. TIME_LEVEL - 1 :
            c[k][j] = IF k = l /\ j = i THEN <<>> ELSE t[k][j]
  BY <1>1
<1> HIDE DEF c
<1>4. DOMAIN near = 0 .. TIME_NEAR - 1
  BY <1>1
<1>5. near' = [j \in 0 .. TIME_NEAR - 1 |-> near[j] \o N(j)]
  BY <1>2, <1>4
<1>6. t' = [k \in Level |-> [j \in 0 .. TIME_LEVEL - 1 |-> c[k][j] \o V(k, j)]]
  BY <1>2, <1>3
<1>7. t' = [k \in Level |-> [j \in 0 .. TIME_LEVEL - 1 |->
                (IF k = l /\ j = i THEN <<>> ELSE t[k][j]) \o V(k, j)]]
  BY <1>3, <1>6, ZenonT(60)
<1> QED
  BY <1>5, <1>7 DEF N, V, IsDealt

\* timer_shift: the time moves on, and what is no longer in place is dealt out.
LEMMA ShiftIInv ==
    ASSUME IInv, UpdateShift
    PROVE  IInv'
<1> DEFINE ct == (time + 1) % Word
           X(e) == expire[e]
<1>0. TypeOK /\ ListInOrder /\ Delivery /\ AllAhead /\ NearInOrder /\ LevelsInOrder
  BY DEF IInv
<1>1. /\ time \in Time /\ asked \in Seq(Event) /\ \A e \in Event : X(e) \in Time
      /\ ToSet(asked) \subseteq Event
  BY <1>0, Types
<1>2. /\ list = <<>> /\ ToSet(list) = {}
      /\ \A e \in ToSet(asked) : X(e) # time /\ Ahead(X(e), time)
  BY NothingDue
<1>3. /\ time' = ct /\ SetWheel(timer_shift(Wheel, ct)) /\ pc = "before" /\ pc' = "after"
      /\ UNCHANGED <<lock, expire, diff, list, asked>>
  BY DEF UpdateShift
<1>4. /\ ct \in Time
      /\ ct = 0 => Turn(time, ct, 3)
      /\ (ct # 0 /\ ct % TIME_NEAR = 0) => ShiftLevel(ct) \in Level /\ Turn(time, ct, ShiftLevel(ct))
      /\ ct % TIME_NEAR # 0 => \A x : \A m \in 0 .. 4 : SameBlock(x, ct, m) <=> SameBlock(x, time, m)
  BY <1>1, TurnFacts
<1>5. \A e \in ToSet(asked) : Ahead(X(e), ct)
  BY <1>1, <1>2, TickLeft
<1> HIDE DEF ct
<1>6. ListInOrder' /\ Delivery' /\ AllAhead'
  BY <1>0, <1>2, <1>3, <1>5 DEF ListInOrder, Delivery, AllAhead
<1>7. /\ \A j : OfNear(j) = {e \in Event : InNear(X(e), time, j)}
      /\ \A j : OfNear(j)' = {e \in Event : InNear(X(e), ct, j)}
  BY <1>2, <1>3 DEF OfNear
<1>8. /\ \A l, j : OfLevel(l, j) = {e \in Event : InLevel(X(e), time, l, j)}
      /\ \A l, j : OfLevel(l, j)' = {e \in Event : InLevel(X(e), ct, l, j)}
  BY <1>2, <1>3 DEF OfLevel
<1>9. /\ \A j \in 0 .. TIME_NEAR - 1 : near[j] = Among(asked, OfNear(j))
      /\ \A l \in Level, j \in 0 .. TIME_LEVEL - 1 : t[l][j] = Among(asked, OfLevel(l, j))
  BY <1>0 DEF NearInOrder, LevelsInOrder
<1>10. CASE ct # 0 /\ ct % TIME_NEAR # 0
  <2>1. near' = near /\ t' = t
    BY <1>3, <1>10 DEF SetWheel, timer_shift, Wheel
  <2>2. \A x : \A m \in 0 .. 4 : SameBlock(x, ct, m) <=> SameBlock(x, time, m)
    BY <1>4, <1>10
  <2>3. \A j : OfNear(j)' = OfNear(j)
    <3>1. \A x, j : InNear(x, ct, j) <=> InNear(x, time, j)
      <4>1. 0 \in 0 .. 4
        OBVIOUS
      <4> QED
        BY <2>2, <4>1 DEF InNear
    <3> QED
      BY <1>7, <3>1
  <2>4. \A l \in Level : \A j : OfLevel(l, j)' = OfLevel(l, j)
    <3>1. ASSUME NEW x \in Time, NEW l \in Level, NEW j
          PROVE  InLevel(x, ct, l, j) <=> InLevel(x, time, l, j)
      <4>1. l \in 0 .. 4 /\ l + 1 \in 0 .. 4
        BY DEF Level
      <4> QED
        BY <1>1, <1>4, <2>2, <3>1, <4>1, InLevelIs
    <3> QED
      BY <1>1, <1>8, <3>1
  <2>5. TypeOK'
    BY <1>0, <1>3, <1>4, <2>1 DEF TypeOK, Time
  <2>6. NearInOrder' /\ LevelsInOrder'
    BY <1>3, <1>9, <2>1, <2>3, <2>4 DEF NearInOrder, LevelsInOrder
  <2> QED
    BY <1>6, <2>5, <2>6 DEF IInv
<1>11. CASE ct = 0 \/ ct % TIME_NEAR = 0
  <2>1. PICK l \in Level : l = (IF ct = 0 THEN 3 ELSE ShiftLevel(ct)) /\ Turn(time, ct, l)
    BY <1>4, <1>11 DEF Level
  <2>2. PICK i \in 0 .. TIME_LEVEL - 1 : i = Idx(ct, l)
    <3>1. ct \in Nat
      BY <1>4, SpanFacts DEF Time
    <3> QED
      BY <3>1, BlkFacts
  <2>3. SetWheel(move_list(Wheel, l, i, ct))
    <3>1. CASE ct = 0
      <4>1. Idx(0, 3) = 0
        <5>1. Span(3) \in Nat \ {0} /\ TIME_LEVEL \in Nat \ {0}
          BY SpanFacts
        <5> DEFINE d == Span(3)
                   L == TIME_LEVEL
        <5> HIDE DEF d, L
        <5>2. 0 = d * 0 + 0 /\ 0 = L * 0 + 0 /\ 0 \in 0 .. d - 1 /\ 0 \in 0 .. L - 1
              /\ d \in Nat \ {0} /\ L \in Nat \ {0}
          BY <5>1 DEF d, L
        <5>3. 0 \div d = 0 /\ 0 % L = 0
          BY <5>2, DivUnique
        <5> QED
          BY <5>3 DEF Idx, d, L
      <4> QED
        BY <1>3, <2>1, <2>2, <3>1, <4>1 DEF timer_shift
    <3>2. CASE ct # 0
      BY <1>3, <1>11, <2>1, <2>2, <3>2 DEF timer_shift, ShiftLevel
    <3> QED
      BY <3>1, <3>2
  <2>4. /\ \A j \in 0 .. TIME_NEAR - 1 :
              near'[j] = near[j] \o Among(t[l][i], OfNear(j)')
        /\ \A k \in Level, j \in 0 .. TIME_LEVEL - 1 :
              t'[k][j] = (IF k = l /\ j = i THEN <<>> ELSE t[k][j]) \o Among(t[l][i], OfLevel(k, j)')
        /\ near' = [j \in 0 .. TIME_NEAR - 1 |-> near'[j]]
        /\ t' = [k \in Level |-> [j \in 0 .. TIME_LEVEL - 1 |-> t'[k][j]]]
    <3>1. /\ near' = move_list(Wheel, l, i, ct).near
          /\ t' = move_list(Wheel, l, i, ct).t
      BY <2>3 DEF SetWheel
    <3>2. IsDealt(l, i, ct)
      BY <1>0, <3>1, ShiftDeals
    <3>3. (\A j : OfNear(j)' = DealtNear(ct, j)) /\ (\A k, j : OfLevel(k, j)' = DealtLevel(ct, k, j))
      BY <1>7, <1>8 DEF DealtNear, DealtLevel
    <3>4. \A j \in 0 .. TIME_NEAR - 1 : near'[j] = near[j] \o Among(t[l][i], DealtNear(ct, j))
      BY <3>2 DEF IsDealt
    <3>5. ASSUME NEW k \in Level, NEW j \in 0 .. TIME_LEVEL - 1
          PROVE  t'[k][j] = (IF k = l /\ j = i THEN <<>> ELSE t[k][j])
                            \o Among(t[l][i], DealtLevel(ct, k, j))
      BY <3>2, <3>5 DEF IsDealt
    <3>6. /\ near' = [j \in 0 .. TIME_NEAR - 1 |-> near'[j]]
          /\ t' = [k \in Level |-> [j \in 0 .. TIME_LEVEL - 1 |-> t'[k][j]]]
      BY <3>2 DEF IsDealt
    <3> QED
      BY <3>3, <3>4, <3>5, <3>6
  <2> DEFINE M == OfLevel(l, i)
             A == ToSet(asked)
  <2>5. t[l][i] = Among(asked, M)
    BY <1>9, <2>1, <2>2
  <2>6. ASSUME NEW e \in A
        PROVE  /\ \A j : e \notin OfNear(j)
               /\ \A k \in Level : \A j : k < l => e \notin OfLevel(k, j)
               /\ \A j : e \in OfNear(j)' => e \in M
               /\ \A k \in Level : \A j : e \in OfLevel(k, j)' /\ k < l => e \in M
               /\ \A j : e \in OfLevel(l, j)' <=> e \in OfLevel(l, j) /\ j # i
               /\ \A k \in Level : \A j : k > l =>
                     /\ e \in OfLevel(k, j)' <=> e \in OfLevel(k, j)
                     /\ ~(e \in OfLevel(k, j)' /\ e \in M)
               /\ \A j : e \in OfLevel(l, j) /\ e \in M => j = i
    <3>1. e \in Event /\ X(e) \in Time /\ Ahead(X(e), time) /\ X(e) # time
      BY <1>1, <1>2, <2>6
    <3>2. /\ \A j : e \in OfNear(j) <=> InNear(X(e), time, j)
          /\ \A j : e \in OfNear(j)' <=> InNear(X(e), ct, j)
          /\ \A k, j : e \in OfLevel(k, j) <=> InLevel(X(e), time, k, j)
          /\ \A k, j : e \in OfLevel(k, j)' <=> InLevel(X(e), ct, k, j)
      BY <1>7, <1>8, <3>1
    <3> DEFINE x == X(e)
    <3> HIDE DEF x
    <3>3. x \in Time /\ Ahead(x, time) /\ x # time
      BY <3>1 DEF x
    <3>4. /\ \A j : ~InNear(x, time, j)
          /\ \A k \in Level : \A j : k < l => ~InLevel(x, time, k, j)
          /\ \A j : InNear(x, ct, j) => InLevel(x, time, l, i)
          /\ \A k \in Level : \A j : InLevel(x, ct, k, j) /\ k < l => InLevel(x, time, l, i)
          /\ \A j : InLevel(x, ct, l, j) <=> InLevel(x, time, l, j) /\ j # i
          /\ \A k \in Level : \A j : k > l =>
                /\ InLevel(x, ct, k, j) <=> InLevel(x, time, k, j)
                /\ ~(InLevel(x, ct, k, j) /\ InLevel(x, time, l, i))
      BY <1>1, <1>4, <2>1, <2>2, <3>3, TurnPlaces
    <3>5. \A j : InLevel(x, time, l, j) /\ InLevel(x, time, l, i) => j = i
      BY DEF InLevel
    <3> QED
      <4>1. /\ \A j : e \in OfNear(j) <=> InNear(x, time, j)
            /\ \A j : e \in OfNear(j)' <=> InNear(x, ct, j)
            /\ \A k, j : e \in OfLevel(k, j) <=> InLevel(x, time, k, j)
            /\ \A k, j : e \in OfLevel(k, j)' <=> InLevel(x, ct, k, j)
        BY <3>2 DEF x
      <4>2. e \in M <=> InLevel(x, time, l, i)
        BY <4>1
      <4>3. /\ \A j : e \notin OfNear(j)
            /\ \A j : e \in OfNear(j)' => e \in M
            /\ \A j : e \in OfLevel(l, j)' <=> e \in OfLevel(l, j) /\ j # i
            /\ \A j : e \in OfLevel(l, j) /\ e \in M => j = i
        BY <3>4, <3>5, <4>1, <4>2
      <4>4. /\ \A k \in Level : \A j : k < l => e \notin OfLevel(k, j)
            /\ \A k \in Level : \A j : e \in OfLevel(k, j)' /\ k < l => e \in M
        BY <3>4, <4>1, <4>2
      <4>5. \A k \in Level : \A j : k > l =>
               /\ e \in OfLevel(k, j)' <=> e \in OfLevel(k, j)
               /\ ~(e \in OfLevel(k, j)' /\ e \in M)
        BY <3>4, <4>1, <4>2
      <4> QED
        BY <4>3, <4>4, <4>5
  <2>7. \A B : Among(asked, B) \in Seq(Event)
    BY <1>1, AmongSet
  <2>8. A \subseteq Event
    BY <1>1
  <2> HIDE DEF M, A
  <2>9. ASSUME NEW j \in 0 .. TIME_NEAR - 1 PROVE near'[j] = Among(asked, OfNear(j)')
    <3> DEFINE O == OfNear(j)
               D == OfNear(j)'
    <3>1. near'[j] = Among(asked, O) \o Among(Among(asked, M), D)
      BY <1>9, <2>4, <2>5
    <3>2. \A e \in A : e \notin O /\ (e \in D => e \in M)
      BY <2>6
    <3> HIDE DEF O, D
    <3>3. A \cap O = {} /\ A \cap (M \cap D) = A \cap D
      BY <3>2
    <3>4. Among(asked, O) \o Among(Among(asked, M), D) = Among(asked, D)
      BY <1>1, <3>3, DealtInOrder DEF A
    <3> QED
      BY <3>1, <3>4 DEF D
  <2>10. ASSUME NEW k \in Level, NEW j \in 0 .. TIME_LEVEL - 1
         PROVE  t'[k][j] = Among(asked, OfLevel(k, j)')
    <3> DEFINE O == IF k = l /\ j = i THEN {} ELSE OfLevel(k, j)
               D == OfLevel(k, j)'
    <3>1. (IF k = l /\ j = i THEN <<>> ELSE t[k][j]) = Among(asked, O)
      <4>1. CASE k = l /\ j = i
        <5>1. Among(asked, {}) \in Seq(Event) /\ ToSet(Among(asked, {})) = {}
          BY <1>1, AmongSet
        <5>2. Among(asked, {}) = <<>>
          BY <5>1, ToSetOf
        <5> QED
          BY <4>1, <5>2
      <4>2. CASE ~(k = l /\ j = i)
        <5>1. t[k][j] = Among(asked, OfLevel(k, j))
          BY <1>9, <2>10
        <5>2. O = OfLevel(k, j)
          BY <4>2
        <5> HIDE DEF O
        <5> QED
          BY <4>2, <5>1, <5>2
      <4> QED
        BY <4>1, <4>2
    <3>2. t'[k][j] = Among(asked, O) \o Among(Among(asked, M), D)
      <4>1. t'[k][j] = (IF k = l /\ j = i THEN <<>> ELSE t[k][j]) \o Among(t[l][i], D)
        BY <2>4, <2>10
      <4> HIDE DEF O, D
      <4> QED
        BY <2>5, <3>1, <4>1
    <3>3. \/ A \cap O = {} /\ A \cap (M \cap D) = A \cap D
          \/ A \cap (M \cap D) = {} /\ A \cap O = A \cap D
      <4>1. CASE k < l
        <5>1. k # l
          BY <2>1, <2>10, <4>1 DEF Level
        <5>2. \A e \in A : e \notin O /\ (e \in D => e \in M)
          BY <2>6, <2>10, <4>1, <5>1
        <5> HIDE DEF O, D
        <5> QED
          BY <5>2
      <4>2. CASE k > l
        <5>1. k # l
          BY <2>1, <2>10, <4>2 DEF Level
        <5>2. \A e \in A : (e \in O <=> e \in D) /\ ~(e \in D /\ e \in M)
          BY <2>6, <2>10, <4>2, <5>1
        <5> HIDE DEF O, D
        <5> QED
          BY <5>2
      <4>3. CASE k = l
        <5>1. \A e \in A : (e \in O <=> e \in D) /\ ~(e \in D /\ e \in M)
          <6>1. \A e \in A : e \in D <=> e \in OfLevel(l, j) /\ j # i
            BY <2>6, <4>3
          <6>2. \A e : e \in O <=> e \in OfLevel(l, j) /\ j # i
            BY <4>3
          <6>3. \A e \in A : e \in OfLevel(l, j) /\ e \in M => j = i
            BY <2>6
          <6> HIDE DEF O, D
          <6> QED
            BY <6>1, <6>2, <6>3
        <5> HIDE DEF O, D
        <5> QED
          BY <5>1
      <4> QED
        BY <2>1, <2>10, <4>1, <4>2, <4>3 DEF Level
    <3> HIDE DEF O, D
    <3>4. Among(asked, O) \o Among(Among(asked, M), D) = Among(asked, D)
      <4>1. CASE A \cap O = {} /\ A \cap (M \cap D) = A \cap D
        <5>1. ToSet(asked) \cap O = {} /\ ToSet(asked) \cap (M \cap D) = ToSet(asked) \cap D
          BY <4>1 DEF A
        <5> QED
          BY <1>1, <5>1, DealtInOrder
      <4>2. CASE A \cap (M \cap D) = {} /\ A \cap O = A \cap D
        <5>1. ToSet(asked) \cap (M \cap D) = {} /\ ToSet(asked) \cap O = ToSet(asked) \cap D
          BY <4>2 DEF A
        <5>2. \A e \in ToSet(asked) : (e \in O <=> e \in D) /\ ~(e \in M /\ e \in D)
          BY <5>1
        <5> QED
          BY <1>1, <5>2, KeptInOrder
      <4> QED
        BY <3>3, <4>1, <4>2
    <3> QED
      BY <3>2, <3>4 DEF D
  <2>11. TypeOK'
    <3>1. near' \in [0 .. TIME_NEAR - 1 -> Seq(Event)]
      BY <2>4, <2>7, <2>9
    <3>2. t' \in [Level -> [0 .. TIME_LEVEL - 1 -> Seq(Event)]]
      <4>1. \A k \in Level, j \in 0 .. TIME_LEVEL - 1 : t'[k][j] \in Seq(Event)
        BY <2>7, <2>10
      <4> QED
        BY <2>4, <4>1
    <3> QED
      BY <1>0, <1>3, <1>4, <3>1, <3>2 DEF TypeOK, Time
  <2>12. NearInOrder' /\ LevelsInOrder'
    BY <1>3, <2>9, <2>10 DEF NearInOrder, LevelsInOrder
  <2> QED
    BY <1>6, <2>11, <2>12 DEF IInv
<1> QED
  BY <1>10, <1>11

\* Every step.
LEMMA NextIInv == IInv /\ [Next]_vars => IInv'
<1> SUFFICES ASSUME IInv, [Next]_vars PROVE IInv'
  OBVIOUS
<1>0. /\ lock \in BOOLEAN /\ diff \in 0 .. MaxDiff /\ pc \in {"idle", "before", "after"}
      /\ lock \/ pc = "idle" => list = <<>>
      /\ pc # "idle" => diff > 0
      /\ MaxDiff \in Nat
  BY TimerAssumption DEF IInv, TypeOK, Delivery
<1>1. CASE skynet_updatetime
  <2>1. diff' \in 0 .. MaxDiff
    BY <1>0, <1>1 DEF skynet_updatetime
  <2> QED
    BY <1>0, <1>1, <2>1, QuietStep DEF skynet_updatetime
<1>2. CASE UpdateBegin
  BY <1>0, <1>2, QuietStep DEF UpdateBegin
<1>3. CASE timer_execute
  BY <1>3, ExecuteIInv
<1>4. CASE dispatch_list
  BY <1>4, DispatchIInv
<1>5. CASE Relock
  BY <1>0, <1>5, QuietStep DEF Relock
<1>6. CASE UpdateShift
  BY <1>6, ShiftIInv
<1>7. CASE UpdateEnd
  <2>1. diff' \in 0 .. MaxDiff
    <3>1. diff > 0
      BY <1>0, <1>7 DEF UpdateEnd
    <3> QED
      BY <1>0, <1>7, <3>1 DEF UpdateEnd
  <2> QED
    BY <1>0, <1>7, <2>1, QuietStep DEF UpdateEnd
<1>8. CASE \E e \in Event, d \in Delay : skynet_timeout(e, d)
  BY <1>8, AskIInv
<1>9. CASE UNCHANGED vars
  BY <1>0, <1>9, QuietStep DEF vars
<1> QED
  BY <1>1, <1>2, <1>3, <1>4, <1>5, <1>6, <1>7, <1>8, <1>9 DEF Next, TimerThread

-----------------------------------------------------------------------------
(* The theorems *)

\* The invariant holds in every state.
THEOREM Invariance == Spec => []IInv
<1>1. IInv /\ [Next]_vars => IInv'
  BY NextIInv
<1> QED
  BY <1>1, InitIInv, PTL DEF Spec

\* Every variable keeps its type, the time inside the width that wraps around.
THEOREM TypeCorrect == Spec => []TypeOK
<1>1. IInv => TypeOK
  BY DEF IInv
<1> QED
  BY <1>1, Invariance, PTL

\* The events of a list are those that belong there.
LEMMA PlacesFollow == IInv => NodesInPlace
<1> SUFFICES ASSUME IInv, NEW e \in Event
             PROVE  InWheel(e) = IF e \in Pending \ ToSet(list) THEN Place(e)
                                 ELSE [near |-> {}, t |-> {}]
  BY DEF NodesInPlace
<1>0. TypeOK /\ ListInOrder /\ NearInOrder /\ LevelsInOrder
  BY DEF IInv
<1>1. /\ asked \in Seq(Event) /\ time \in Time /\ expire[e] \in Time
  BY <1>0, Types
<1>2. \A i \in 0 .. TIME_NEAR - 1 :
         e \in ToSet(near[i]) <=>
           e \in ToSet(asked) /\ e \notin ToSet(list) /\ InNear(expire[e], time, i)
  <2> SUFFICES ASSUME NEW i \in 0 .. TIME_NEAR - 1
               PROVE  e \in ToSet(near[i]) <=>
                        e \in ToSet(asked) /\ e \notin ToSet(list) /\ InNear(expire[e], time, i)
    OBVIOUS
  <2>1. near[i] = Among(asked, OfNear(i))
    BY <1>0 DEF NearInOrder
  <2>2. ToSet(near[i]) = ToSet(asked) \cap OfNear(i)
    BY <1>1, <2>1, AmongSet
  <2>3. e \in OfNear(i) <=> e \notin ToSet(list) /\ InNear(expire[e], time, i)
    BY DEF OfNear
  <2> QED
    BY <2>2, <2>3
<1>3. \A l \in Level, i \in 0 .. TIME_LEVEL - 1 :
         e \in ToSet(t[l][i]) <=>
           e \in ToSet(asked) /\ e \notin ToSet(list) /\ InLevel(expire[e], time, l, i)
  <2> SUFFICES ASSUME NEW l \in Level, NEW i \in 0 .. TIME_LEVEL - 1
               PROVE  e \in ToSet(t[l][i]) <=>
                        e \in ToSet(asked) /\ e \notin ToSet(list) /\ InLevel(expire[e], time, l, i)
    OBVIOUS
  <2>1. t[l][i] = Among(asked, OfLevel(l, i))
    BY <1>0 DEF LevelsInOrder
  <2>2. ToSet(t[l][i]) = ToSet(asked) \cap OfLevel(l, i)
    BY <1>1, <2>1, AmongSet
  <2>3. e \in OfLevel(l, i) <=> e \notin ToSet(list) /\ InLevel(expire[e], time, l, i)
    BY DEF OfLevel
  <2> QED
    BY <2>2, <2>3
<1>4. InWheel(e) = [near |-> {i \in 0 .. TIME_NEAR - 1 : e \in ToSet(near[i])},
                    t |-> {p \in Level \X (0 .. TIME_LEVEL - 1) : e \in ToSet(t[p[1]][p[2]])}]
  BY <1>0 DEF InWheel, TypeOK
<1>5. CASE ~(e \in ToSet(asked) /\ e \notin ToSet(list))
  <2>1. {i \in 0 .. TIME_NEAR - 1 : e \in ToSet(near[i])} = {}
    BY <1>2, <1>5
  <2>2. {p \in Level \X (0 .. TIME_LEVEL - 1) : e \in ToSet(t[p[1]][p[2]])} = {}
    BY <1>3, <1>5
  <2> QED
    BY <1>4, <1>5, <2>1, <2>2 DEF Pending
<1>6. CASE e \in ToSet(asked) /\ e \notin ToSet(list) /\ SameBlock(expire[e], time, 0)
  <2>1. expire[e] % TIME_NEAR \in 0 .. TIME_NEAR - 1
    BY <1>1, NearIdx
  <2>2. {i \in 0 .. TIME_NEAR - 1 : e \in ToSet(near[i])} = {expire[e] % TIME_NEAR}
    BY <1>2, <1>6, <2>1 DEF InNear
  <2>3. {p \in Level \X (0 .. TIME_LEVEL - 1) : e \in ToSet(t[p[1]][p[2]])} = {}
    BY <1>3, <1>6 DEF InLevel
  <2> QED
    BY <1>4, <1>6, <2>2, <2>3 DEF Pending, Place
<1>7. CASE e \in ToSet(asked) /\ e \notin ToSet(list) /\ ~SameBlock(expire[e], time, 0)
  <2> DEFINE l == LevelOf(expire[e], time)
             j == Idx(expire[e], l)
  <2>1. l \in Level /\ j \in 0 .. TIME_LEVEL - 1
    BY <1>1, LevelType
  <2>2. {i \in 0 .. TIME_NEAR - 1 : e \in ToSet(near[i])} = {}
    BY <1>2, <1>7 DEF InNear
  <2>3. \A m \in Level, i \in 0 .. TIME_LEVEL - 1 :
            e \in ToSet(t[m][i]) <=> m = l /\ i = j
    BY <1>3, <1>7 DEF InLevel
  <2>4. Place(e) = [near |-> {}, t |-> {<<l, j>>}]
    BY <1>7 DEF Place
  <2> HIDE DEF l, j
  <2>5. {p \in Level \X (0 .. TIME_LEVEL - 1) : e \in ToSet(t[p[1]][p[2]])} = {<<l, j>>}
    BY <2>1, <2>3
  <2> QED
    BY <1>4, <1>7, <2>2, <2>4, <2>5 DEF Pending
<1> QED
  BY <1>5, <1>6, <1>7

\* Whenever an event was asked for, and whatever levels it went through, it is in
\* the one list add_node would choose for it now, until timer_execute takes it.
THEOREM NodesStayInPlace == Spec => []NodesInPlace
<1> QED
  BY Invariance, PlacesFollow, PTL

(* The wheel implements SkynetAlarm. *)

\* The ticks an event has left, as the refinement maps the wheel.
Left(e) == IF e \notin Pending \/ e \in ToSet(list) THEN 0 ELSE (expire[e] - time) % Word
Lefts == [e \in Event |-> Left(e)]

\* SkynetAlarm, under the mapping.
LEMMA AlarmIs ==
    /\ Alarm!Init <=> asked = <<>> /\ Lefts = [e \in Event |-> 0]
    /\ Alarm!vars = <<asked, Lefts>>
    /\ Alarm!Tick <=> /\ \A e \in ToSet(asked) : Lefts[e] > 0
                      /\ Lefts' = [e \in Event |-> IF e \in ToSet(asked) THEN Lefts[e] - 1 ELSE 0]
                      /\ UNCHANGED asked
<1>1. Alarm!Init <=> asked = <<>> /\ Lefts = [e \in Event |-> 0]
  BY DEF Alarm!Init, Lefts, Left
<1>2. Alarm!vars = <<asked, Lefts>>
  BY DEF Alarm!vars, Lefts, Left
<1>3. Alarm!Tick <=> /\ \A e \in ToSet(asked) : Lefts[e] > 0
                     /\ Lefts' = [e \in Event |-> IF e \in ToSet(asked) THEN Lefts[e] - 1 ELSE 0]
                     /\ UNCHANGED asked
  BY DEF Alarm!Tick, Alarm!ToSet, ToSet, Lefts, Left
<1> QED
  BY <1>1, <1>2, <1>3

\* Its Ask.
LEMMA AlarmAskIs ==
    ASSUME NEW e \in Event, NEW d \in Delay
    PROVE  Alarm!Ask(e, d) <=> /\ e \notin ToSet(asked)
                               /\ asked' = Append(asked, e)
                               /\ Lefts' = [Lefts EXCEPT ![e] = d]
BY DEF Alarm!Ask, Alarm!ToSet, ToSet, Lefts, Left

\* Its Deliver.
LEMMA AlarmDeliverIs ==
    ASSUME NEW e \in Event
    PROVE  Alarm!Deliver(e) <=>
             /\ \E i \in 1 .. Len(asked) : /\ asked[i] = e
                                           /\ Lefts[e] = 0
                                           /\ \A j \in 1 .. i - 1 : Lefts[asked[j]] > 0
             /\ asked' = Among(asked, Event \ {e})
             /\ Lefts' = Lefts
BY DEF Alarm!Deliver, Alarm!IsFirstDue, Alarm!Among, Among, Lefts, Left

\* A waiting event whose ticks are over is in the list the time is at.
LEMMA LeftFacts ==
    ASSUME IInv, NEW e \in Event
    PROVE  /\ Left(e) \in Nat
           /\ e \in ToSet(asked) \ ToSet(list) => (Left(e) = 0 <=> expire[e] = time)
           /\ e \in ToSet(asked) \ ToSet(list) /\ expire[e] = time => e \in ToSet(Due)
<1>0. TypeOK /\ NearInOrder
  BY DEF IInv
<1>1. time \in Time /\ expire[e] \in Time /\ asked \in Seq(Event)
      /\ time % TIME_NEAR \in 0 .. TIME_NEAR - 1
  BY <1>0, Types
<1>2. Word \in Nat \ {0} /\ time \in 0 .. Word - 1 /\ expire[e] \in 0 .. Word - 1
  BY <1>1, WordFacts DEF Time
<1>3. (expire[e] - time) % Word
        = IF expire[e] < time THEN expire[e] - time + Word ELSE expire[e] - time
  BY <1>1, WordFacts
<1>4. /\ (expire[e] - time) % Word \in Nat
      /\ (expire[e] - time) % Word = 0 <=> expire[e] = time
  <2> DEFINE w == Word
             x == expire[e]
             r == (expire[e] - time) % Word
  <2>1. /\ w \in Nat \ {0} /\ time \in 0 .. w - 1 /\ x \in 0 .. w - 1
        /\ r = IF x < time THEN x - time + w ELSE x - time
    BY <1>2, <1>3
  <2> HIDE DEF w, x, r
  <2>2. r \in Nat /\ (r = 0 <=> x = time)
    BY <2>1
  <2> QED
    BY <2>2 DEF r, x
<1>5. ASSUME e \in ToSet(asked) \ ToSet(list), expire[e] = time
      PROVE  e \in ToSet(Due)
  <2>1. InNear(expire[e], time, time % TIME_NEAR)
    BY <1>1, <1>5, NearIsNow
  <2>2. e \in OfNear(time % TIME_NEAR)
    BY <1>5, <2>1 DEF OfNear
  <2>3. Due = Among(asked, OfNear(time % TIME_NEAR))
    BY <1>0, <1>1 DEF NearInOrder, Due
  <2>4. ToSet(Due) = ToSet(asked) \cap OfNear(time % TIME_NEAR)
    BY <1>1, <2>3, AmongSet
  <2> QED
    BY <1>5, <2>2, <2>4
<1> QED
  BY <1>4, <1>5 DEF Left, Pending

\* skynet_timeout asks.
LEMMA AskRefines ==
    ASSUME IInv, NEW e \in Event, NEW d \in Delay, skynet_timeout(e, d)
    PROVE  Alarm!Ask(e, d)
<1>0. TypeOK /\ ListInOrder
  BY DEF IInv
<1>1. /\ time \in Time /\ asked \in Seq(Event) /\ ToSet(list) \subseteq ToSet(asked)
  BY <1>0, Types, ListAsked
<1>2. /\ e \notin ToSet(asked) /\ e \notin ToSet(list)
      /\ expire' = [expire EXCEPT ![e] = (time + d) % Word] /\ asked' = Append(asked, e)
      /\ UNCHANGED <<time, list>>
  BY <1>1 DEF skynet_timeout, Pending
<1>3. expire'[e] = (time + d) % Word /\ \A f \in Event : f # e => expire'[f] = expire[f]
  BY <1>0, <1>2 DEF TypeOK
<1>4. (((time + d) % Word) - time) % Word = d
  BY <1>1, AskLeft
<1>5. ToSet(asked') = ToSet(asked) \cup {e}
  BY <1>1, <1>2, ToSetAppend
<1>6. Left(e)' = d
  BY <1>2, <1>3, <1>4, <1>5 DEF Left, Pending
<1>7. \A f \in Event : f # e => Left(f)' = Left(f)
  BY <1>2, <1>3, <1>5 DEF Left, Pending
<1>8. Lefts' = [Lefts EXCEPT ![e] = d]
  BY <1>6, <1>7 DEF Lefts
<1> QED
  BY <1>2, <1>8, AlarmAskIs

\* timer_shift is a tick.
LEMMA TickRefines ==
    ASSUME IInv, UpdateShift
    PROVE  Alarm!Tick
<1>0. TypeOK
  BY DEF IInv
<1>1. /\ time \in Time /\ \A e \in Event : expire[e] \in Time
      /\ ToSet(asked) \subseteq Event
  BY <1>0, Types
<1>2. /\ list = <<>> /\ ToSet(list) = {} /\ \A e \in ToSet(asked) : expire[e] # time
  BY NothingDue
<1>3. time' = (time + 1) % Word /\ UNCHANGED <<expire, list, asked>>
  BY DEF UpdateShift
<1>4. ASSUME NEW e \in ToSet(asked) PROVE Left(e) > 0 /\ Left(e)' = Left(e) - 1
  <2>1. (expire[e] - time) % Word \in Nat \ {0}
        /\ (expire[e] - ((time + 1) % Word)) % Word = ((expire[e] - time) % Word) - 1
    BY <1>1, <1>2, TickLeft
  <2>2. Left(e) = (expire[e] - time) % Word
    BY <1>2 DEF Left, Pending
  <2>3. Left(e)' = (expire[e] - ((time + 1) % Word)) % Word
    BY <1>2, <1>3 DEF Left, Pending
  <2> QED
    BY <2>1, <2>2, <2>3
<1>5. \A e : e \notin ToSet(asked) => Left(e)' = 0
  BY <1>3 DEF Left, Pending
<1>6. \A e \in ToSet(asked) : Lefts[e] > 0
  BY <1>1, <1>4 DEF Lefts
<1>7. Lefts' = [e \in Event |-> IF e \in ToSet(asked) THEN Lefts[e] - 1 ELSE 0]
  BY <1>4, <1>5 DEF Lefts
<1> QED
  BY <1>3, <1>6, <1>7, AlarmIs

\* dispatch_list delivers the first event that is due.
LEMMA DeliverRefines ==
    ASSUME IInv, dispatch_list
    PROVE  Alarm!Deliver(Head(list)) /\ Head(list) \in Event
<1> DEFINE h == Head(list)
<1>0. TypeOK /\ ListInOrder /\ Delivery
  BY DEF IInv
<1>1. /\ asked \in Seq(Event) /\ list \in Seq(Event) /\ ToSet(list) \subseteq ToSet(asked)
      /\ ToSet(asked) \subseteq Event /\ Distinct(list)
  BY <1>0, Types, ListAsked
<1>2. /\ list # <<>> /\ list' = Tail(list) /\ asked' = Among(asked, Event \ {h})
      /\ expire' = [expire EXCEPT ![h] = 0] /\ time' = time
  BY DEF dispatch_list
<1>3. h \in ToSet(list) /\ h \in Event
  BY <1>1, <1>2, ToSetOf
<1>4. ToSet(list') = ToSet(list) \ {h}
  BY <1>1, <1>2, AmongTail
<1>5. ToSet(asked') = ToSet(asked) \ {h}
  <2>1. ToSet(asked') = ToSet(asked) \cap (Event \ {h})
    BY <1>1, <1>2, AmongSet
  <2> QED
    BY <1>1, <2>1
<1>6. \A f \in Event : f # h => expire'[f] = expire[f]
  BY <1>0, <1>2 DEF TypeOK
<1> HIDE DEF h
<1>7. ASSUME NEW f \in Event PROVE Left(f)' = Left(f)
  <2>1. CASE f = h
    BY <1>3, <1>5, <2>1 DEF Left, Pending
  <2>2. CASE f # h
    <3>1. /\ f \in ToSet(asked') <=> f \in ToSet(asked)
          /\ f \in ToSet(list') <=> f \in ToSet(list)
          /\ expire'[f] = expire[f] /\ time' = time
      BY <1>2, <1>4, <1>5, <1>6, <2>2
    <3> QED
      BY <3>1 DEF Left, Pending
  <2> QED
    BY <2>1, <2>2
<1>8. Lefts' = Lefts
  BY <1>7 DEF Lefts
<1>9. Lefts[h] = 0
  BY <1>3 DEF Lefts, Left
<1>10. \A f \in ToSet(asked) \ ToSet(list) : Lefts[f] > 0
  <2> SUFFICES ASSUME NEW f \in ToSet(asked) \ ToSet(list) PROVE Lefts[f] > 0
    OBVIOUS
  <2>1. f \in Event /\ ToSet(Due) = {}
    BY <1>0, <1>1, <1>2, ToSetEmpty DEF Delivery
  <2>2. Left(f) \in Nat /\ Left(f) # 0
    BY <2>1, LeftFacts
  <2> QED
    BY <2>1, <2>2 DEF Lefts
<1>11. \E i \in 1 .. Len(asked) :
          asked[i] = h /\ \A j \in 1 .. i - 1 : asked[j] \notin ToSet(list)
  <2> DEFINE S == ToSet(list)
  <2>1. list = Among(asked, S)
    BY <1>0 DEF ListInOrder
  <2> HIDE DEF S
  <2>2. \E i \in 1 .. Len(asked) : /\ asked[i] = Head(Among(asked, S))
                                   /\ \A j \in 1 .. i - 1 : asked[j] \notin S
    BY <1>1, <1>2, <2>1, AmongFirst
  <2> QED
    BY <2>1, <2>2 DEF S, h
<1>12. \E i \in 1 .. Len(asked) : /\ asked[i] = h /\ Lefts[h] = 0
                                  /\ \A j \in 1 .. i - 1 : Lefts[asked[j]] > 0
  <2>1. PICK i \in 1 .. Len(asked) :
          asked[i] = h /\ \A j \in 1 .. i - 1 : asked[j] \notin ToSet(list)
    BY <1>11
  <2>2. \A j \in 1 .. i - 1 : j \in 1 .. Len(asked)
    BY <1>1, LenProperties
  <2>3. \A j \in 1 .. Len(asked) : asked[j] \in ToSet(asked)
    BY <1>1 DEF ToSet
  <2>4. \A j \in 1 .. i - 1 : Lefts[asked[j]] > 0
    BY <1>10, <2>1, <2>2, <2>3
  <2> QED
    BY <1>9, <2>1, <2>4
<1>13. Alarm!Deliver(h)
  BY <1>2, <1>3, <1>8, <1>12, AlarmDeliverIs DEF h
<1> QED
  BY <1>3, <1>13 DEF h

\* timer_execute only takes events that are due.
LEMMA ExecuteStutters ==
    ASSUME IInv, timer_execute
    PROVE  asked' = asked /\ Lefts' = Lefts
<1>0. TypeOK /\ Delivery /\ NearInOrder
  BY DEF IInv
<1>1. /\ time \in Time /\ asked \in Seq(Event) /\ time % TIME_NEAR \in 0 .. TIME_NEAR - 1
  BY <1>0, Types
<1>2. /\ ToSet(list) = {} /\ list' = Due /\ UNCHANGED <<time, expire, asked>>
  BY <1>0, ToSetEmpty DEF timer_execute, Delivery
<1>3. Due = Among(asked, OfNear(time % TIME_NEAR))
  BY <1>0, <1>1 DEF NearInOrder, Due
<1>4. ToSet(Due) = ToSet(asked) \cap OfNear(time % TIME_NEAR)
  BY <1>1, <1>3, AmongSet
<1>5. ASSUME NEW e \in Event PROVE Left(e)' = Left(e)
  <2>1. CASE e \in ToSet(Due)
    <3>1. InNear(expire[e], time, time % TIME_NEAR) /\ e \in ToSet(asked) /\ expire[e] \in Time
      BY <1>0, <1>4, <2>1, Types DEF OfNear
    <3>2. expire[e] = time
      BY <1>1, <3>1, NearIsNow
    <3>3. Left(e) = 0
      BY <1>2, <3>1, <3>2, LeftFacts
    <3> QED
      BY <1>2, <2>1, <3>3 DEF Left
  <2>2. CASE e \notin ToSet(Due)
    BY <1>2, <2>2 DEF Left, Pending
  <2> QED
    BY <2>1, <2>2
<1> QED
  BY <1>2, <1>5 DEF Lefts

\* Steps that leave the events and the time alone.
LEMMA QuietStutters ==
    ASSUME UNCHANGED <<time, expire, list, asked>>
    PROVE  asked' = asked /\ Lefts' = Lefts
<1>1. \A e \in Event : Left(e)' = Left(e)
  BY DEF Left, Pending
<1> QED
  BY <1>1 DEF Lefts

\* At first nothing is asked for.
LEMMA InitRefines == Init => Alarm!Init
<1> SUFFICES ASSUME Init PROVE Alarm!Init
  OBVIOUS
<1>1. asked = <<>> /\ ToSet(asked) = {}
  BY ToSetEmpty DEF Init
<1>2. Lefts = [e \in Event |-> 0]
  BY <1>1 DEF Lefts, Left, Pending
<1> QED
  BY <1>1, <1>2, AlarmIs

\* Every step is a step of SkynetAlarm or none.
LEMMA NextRefines == IInv /\ [Next]_vars => [Alarm!Next]_Alarm!vars
<1> SUFFICES ASSUME IInv, [Next]_vars PROVE [Alarm!Next]_Alarm!vars
  OBVIOUS
<1>0. asked' = asked /\ Lefts' = Lefts => UNCHANGED Alarm!vars
  BY DEF Alarm!vars, Lefts, Left
<1>1. CASE skynet_updatetime
  BY <1>0, <1>1, QuietStutters DEF skynet_updatetime
<1>2. CASE UpdateBegin
  BY <1>0, <1>2, QuietStutters DEF UpdateBegin
<1>3. CASE timer_execute
  BY <1>0, <1>3, ExecuteStutters
<1>4. CASE dispatch_list
  BY <1>4, DeliverRefines DEF Alarm!Next
<1>5. CASE Relock
  BY <1>0, <1>5, QuietStutters DEF Relock
<1>6. CASE UpdateShift
  BY <1>6, TickRefines DEF Alarm!Next
<1>7. CASE UpdateEnd
  BY <1>0, <1>7, QuietStutters DEF UpdateEnd
<1>8. CASE \E e \in Event, d \in Delay : skynet_timeout(e, d)
  <2>1. PICK e \in Event, d \in Delay : skynet_timeout(e, d)
    BY <1>8
  <2>2. Alarm!Ask(e, d)
    BY <2>1, AskRefines
  <2> QED
    BY <2>2 DEF Alarm!Next
<1>9. CASE UNCHANGED vars
  BY <1>0, <1>9, QuietStutters DEF vars
<1> QED
  BY <1>1, <1>2, <1>3, <1>4, <1>5, <1>6, <1>7, <1>8, <1>9 DEF Next, TimerThread

\* timer_update delivers every timeout exactly the ticks after it was asked for
\* that skynet_timeout was given, also across the wrap of the time, and those of
\* one tick in the order in which they were asked for.
THEOREM WheelImplementsAlarm == Spec => ImplementsAlarm
<1> QED
  BY InitRefines, NextRefines, Invariance, PTL DEF Spec, ImplementsAlarm, Alarm!Spec
=============================================================================
