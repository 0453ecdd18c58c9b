--------------------------- MODULE PcapFileProofs ---------------------------
(***************************************************************************)
(* Theorems about PcapFile: what PcapReceiver reads from a capture file,   *)
(* for every list of files.  The parts: where the blocks of a file start   *)
(* and how they are counted, the arithmetic of the timestamps, types, what *)
(* the kernel holds, the cursor in a legacy file, the cursor and the table *)
(* of interfaces as long as no handler moved the cursor, and the packet    *)
(* that was handed over.                                                   *)
(***************************************************************************)
EXTENDS PcapFile, Induction, FiniteSetTheorems
-----------------------------------------------------------------------------
(* Where the blocks of a file start: what the recursion of Starts gives.   *)

LEMMA StartsAre ==
  ASSUME NEW f, IsFile(f)
  PROVE  /\ Len(f.blocks) \in Nat /\ DOMAIN f.blocks = 1 .. Len(f.blocks)
         /\ DOMAIN Starts(f) = 1 .. Len(f.blocks) + 1
         /\ Starts(f)[1] = FirstBlock(f)
         /\ \A i \in 1 .. Len(f.blocks) + 1 : Starts(f)[i] \in Nat
         /\ \A i \in 1 .. Len(f.blocks) : Starts(f)[i + 1] = Starts(f)[i] + f.blocks[i].len
<1> DEFINE n == Len(f.blocks)
           hi == n + 1
           base == FirstBlock(f)
           len(i) == f.blocks[i].len
           Body(h) == [i \in 1 .. n + 1 |-> IF i = 1 THEN base ELSE h[i - 1] + len(i - 1)]
           step == [i \in 1 .. hi |-> [v \in Nat |-> IF i = 1 THEN v ELSE v + len(i - 1)]]
<1>1. n \in Nat /\ DOMAIN f.blocks = 1 .. n
  BY DEF IsFile
<1>2. /\ \A i \in 1 .. n : len(i) \in Nat
      /\ 1 \in Int /\ hi \in Int /\ 1 <= hi /\ base \in Nat
  BY <1>1 DEF IsFile, IsBlock, FirstBlock, FileHdr
<1>3. Starts(f) = CHOOSE h : h = Body(h)
  BY DEF Starts
<1> HIDE DEF n, base, len
<1>4. \A i \in 1 .. hi, v \in Nat : (IF i = 1 THEN v ELSE v + len(i - 1)) \in Nat
  BY <1>1, <1>2
<1>5. \A i \in 1 .. hi, v \in Nat : step[i][v] = IF i = 1 THEN v ELSE v + len(i - 1)
  OBVIOUS
<1>6. step \in [1 .. hi -> [Nat -> Nat]]
  BY <1>4
<1> HIDE DEF step, hi
<1>7. PICK h : h \in [1 .. hi -> Nat] /\ Recursive(h, 1, hi, Nat, base, step)
  BY <1>2, <1>6, RecursionExists, Zenon
<1>8. ASSUME NEW i \in 1 .. hi, i # 1 PROVE h[i] = h[i - 1] + len(i - 1)
  <2>1. i - 1 \in 1 .. hi /\ h[i - 1] \in Nat
    BY <1>2, <1>7, <1>8
  <2>2. h[i] = step[i][h[i - 1]]
    BY <1>7, <1>8, <2>1 DEF Recursive
  <2> QED
    BY <1>5, <1>8, <2>1, <2>2
<1>9. h = Body(h)
  BY <1>1, <1>7, <1>8 DEF Recursive, hi
<1> DEFINE g == CHOOSE k : k = Body(k)
<1>10. g = Body(g)
  BY <1>9, Zenon
<1> HIDE DEF g
<1>11. DOMAIN g = 1 .. hi /\ \A i \in 1 .. hi : g[i] = IF i = 1 THEN base ELSE g[i - 1] + len(i - 1)
  <2>1. DOMAIN Body(g) = 1 .. hi
    BY DEF hi
  <2>2. \A i \in 1 .. hi : Body(g)[i] = IF i = 1 THEN base ELSE g[i - 1] + len(i - 1)
    BY DEF hi
  <2> HIDE DEF Body
  <2> QED
    BY <1>10, <2>1, <2>2, Zenon
<1>12. Recursive(g, 1, hi, Nat, base, step)
  BY <1>2, <1>5, <1>11 DEF Recursive
<1>13. \A i \in 1 .. hi : g[i] \in Nat
  BY <1>2, <1>6, <1>12, RecursionType, Zenon
<1>14. Starts(f) = g
  BY <1>3 DEF g
<1>15. g[1] = base
  BY <1>2, <1>11
<1>16. ASSUME NEW i \in 1 .. n PROVE g[i + 1] = g[i] + len(i)
  <2>1. i + 1 \in 1 .. hi /\ i + 1 # 1 /\ (i + 1) - 1 = i
    BY <1>1 DEF hi
  <2> QED
    BY <1>11, <2>1
<1> QED
  BY <1>1, <1>11, <1>13, <1>14, <1>15, <1>16, ZenonT(30) DEF n, hi, base, len

\* A later block starts later, or at the same place; behind the blocks before
\* the last one there is always room for a header.
LEMMA StartsGrow ==
  ASSUME NEW f, IsFile(f), NEW i \in 1 .. Len(f.blocks) + 1, NEW j \in 1 .. Len(f.blocks) + 1, i <= j
  PROVE  Starts(f)[i] <= Starts(f)[j]
<1>1. /\ Len(f.blocks) \in Nat
      /\ \A k \in 1 .. Len(f.blocks) + 1 : Starts(f)[k] \in Nat
      /\ \A k \in 1 .. Len(f.blocks) : Starts(f)[k + 1] = Starts(f)[k] + f.blocks[k].len
  BY StartsAre
<1>2. \A k \in 1 .. Len(f.blocks) : f.blocks[k].len \in Nat
  BY DEF IsFile, IsBlock
<1> DEFINE P == {k \in Int : Starts(f)[i] <= Starts(f)[k]}
<1>3. i \in P
  BY <1>1
<1>4. ASSUME NEW k \in i .. Len(f.blocks) + 1, k # i, k - 1 \in P PROVE k \in P
  <2>1. k - 1 \in 1 .. Len(f.blocks) /\ (k - 1) + 1 = k /\ k \in 1 .. Len(f.blocks) + 1
    BY <1>1, <1>4
  <2>2. Starts(f)[k] = Starts(f)[k - 1] + f.blocks[k - 1].len
    BY <1>1, <2>1
  <2>3. /\ Starts(f)[k] \in Nat /\ Starts(f)[k - 1] \in Nat /\ f.blocks[k - 1].len \in Nat
        /\ Starts(f)[i] \in Nat
    BY <1>1, <1>2, <2>1
  <2>4. Starts(f)[i] <= Starts(f)[k - 1]
    BY <1>4
  <2>5. Starts(f)[i] <= Starts(f)[k]
    <3>1. \A a, b, c \in Nat : a <= b => a <= b + c
      OBVIOUS
    <3> QED
      BY <2>2, <2>3, <2>4, <3>1, Zenon
  <2> QED
    BY <2>1, <2>5
<1> HIDE DEF P
<1>5. \A k \in i .. Len(f.blocks) + 1 : k \in P
  <2>1. i \in Int /\ Len(f.blocks) + 1 \in Int
    BY <1>1
  <2> QED
    BY <1>3, <1>4, <2>1, IntervalInduction, Zenon
<1> QED
  BY <1>1, <1>5 DEF P

MinLen(f) == IF f.format = "ng" THEN BlockHdr ELSE PktHdr

LEMMA StartsApart ==
  ASSUME NEW f, IsFile(f), NEW i \in 1 .. Len(f.blocks), NEW j \in 1 .. Len(f.blocks), i < j
  PROVE  /\ f.blocks[i].len >= MinLen(f)
         /\ Starts(f)[i] + f.blocks[i].len <= Starts(f)[j]
         /\ Starts(f)[i] + MinLen(f) <= Starts(f)[j]
<1>1. /\ Len(f.blocks) \in Nat
      /\ \A k \in 1 .. Len(f.blocks) + 1 : Starts(f)[k] \in Nat
      /\ \A k \in 1 .. Len(f.blocks) : Starts(f)[k + 1] = Starts(f)[k] + f.blocks[k].len
  BY StartsAre, Zenon
<1>2. f.blocks[i].len \in Nat /\ f.blocks[i].len >= MinLen(f) /\ MinLen(f) \in Nat
  <2>1. i < Len(f.blocks) /\ IsBlock(f.blocks[i])
    BY <1>1 DEF IsFile
  <2>2. CASE f.format = "ng"
    BY <1>1, <2>1, <2>2, Zenon DEF IsFile, IsBlock, NgBlockAt, MinLen, BlockHdr
  <2>3. CASE f.format # "ng"
    <3>1. LegacyBlock(f, f.blocks[i])
      BY <2>3 DEF IsFile
    <3> QED
      BY <2>1, <2>3, <3>1 DEF IsBlock, LegacyBlock, MinLen, PktHdr
  <2> QED
    BY <2>2, <2>3
<1>3. Starts(f)[i + 1] <= Starts(f)[j]
  BY <1>1, StartsGrow, SMTT(30)
<1>4. Starts(f)[i] \in Nat /\ Starts(f)[j] \in Nat /\ Starts(f)[i + 1] = Starts(f)[i] + f.blocks[i].len
  BY <1>1
<1> QED
  BY <1>2, <1>3, <1>4, SMTT(30)

\* One block starts at a place.
LEMMA StartsOnce ==
  ASSUME NEW f, IsFile(f), NEW i \in 1 .. Len(f.blocks), NEW j \in 1 .. Len(f.blocks),
         Starts(f)[i] = Starts(f)[j]
  PROVE  i = j
<1>1. \A k \in 1 .. Len(f.blocks) + 1 : Starts(f)[k] \in Nat
  BY StartsAre
<1>2. MinLen(f) \in Nat /\ MinLen(f) > 0 /\ Len(f.blocks) \in Nat
  BY StartsAre DEF MinLen, BlockHdr, PktHdr
<1>3. ~(i < j)
  BY <1>1, <1>2, StartsApart
<1>4. ~(j < i)
  BY <1>1, <1>2, StartsApart
<1> QED
  BY <1>3, <1>4

-----------------------------------------------------------------------------
(* Counting the blocks before the cursor.                                  *)

Before(S, i) == Cardinality({j \in S : j < i})

LEMMA CountStep ==
  ASSUME NEW n \in Nat, NEW S, S \subseteq 1 .. n, NEW i \in Nat
  PROVE  /\ Before(S, i) \in Nat
         /\ Before(S, i + 1) = Before(S, i) + (IF i \in S THEN 1 ELSE 0)
<1> DEFINE B == {j \in S : j < i}
           A == {j \in S : j < i + 1}
<1>1. IsFiniteSet(1 .. n)
  BY FS_Interval
<1>2. IsFiniteSet(B)
  <2>1. B \subseteq 1 .. n
    BY Zenon
  <2> HIDE DEF B
  <2> QED
    BY <1>1, <2>1, FS_Subset, Zenon
<1>6. \A j \in S : j \in Nat /\ (j < i + 1 <=> j < i \/ j = i)
  <2>1. \A j \in Nat : j < i + 1 <=> j < i \/ j = i
    OBVIOUS
  <2>2. \A j \in S : j \in Nat
    OBVIOUS
  <2> QED
    BY <2>1, <2>2, Zenon
<1>7. i \notin B
  OBVIOUS
<1>3. Cardinality(B) \in Nat
  BY <1>2, FS_CardinalityType
<1>4. CASE i \in S
  <2>1. A = B \cup {i}
    BY <1>4, <1>6, Zenon
  <2> HIDE DEF A, B
  <2>2. Cardinality(A) = Cardinality(B) + 1
    BY <1>2, <1>7, <2>1, FS_AddElement
  <2> QED
    BY <1>3, <1>4, <2>2 DEF A, B, Before
<1>5. CASE i \notin S
  <2>1. A = B
    BY <1>5, <1>6, Zenon
  <2> QED
    BY <1>3, <1>5, <2>1 DEF Before
<1> QED
  BY <1>4, <1>5

LEMMA CountMonotone ==
  ASSUME NEW n \in Nat, NEW S, S \subseteq 1 .. n, NEW i \in Nat, NEW j \in Nat, i <= j
  PROVE  Before(S, i) <= Before(S, j)
<1>1. IsFiniteSet(1 .. n)
  BY FS_Interval
<1>2. IsFiniteSet({k \in S : k < j})
  BY <1>1, FS_Subset, Zenon
<1>3. {k \in S : k < i} \subseteq {k \in S : k < j}
  <2>1. \A k \in Nat : k < i => k < j
    OBVIOUS
  <2>2. \A k \in S : k \in Nat
    OBVIOUS
  <2> QED
    BY <2>1, <2>2, Zenon
<1> QED
  BY <1>2, <1>3, FS_Subset DEF Before

\* Two blocks of a set have different numbers of its blocks before them.
LEMMA CountOnce ==
  ASSUME NEW n \in Nat, NEW S, S \subseteq 1 .. n, NEW i \in S, NEW j \in S,
         Before(S, i) = Before(S, j)
  PROVE  i = j
<1>1. \A m \in Nat : Before(S, m) \in Nat
  BY CountStep, Zenon
<1>2. \A a, b \in S : a < b => Before(S, a) < Before(S, b)
  <2> SUFFICES ASSUME NEW a \in S, NEW b \in S, a < b PROVE Before(S, a) < Before(S, b)
    OBVIOUS
  <2>1. a \in Nat /\ b \in Nat /\ a + 1 \in Nat /\ a + 1 <= b
    OBVIOUS
  <2>2. Before(S, a + 1) = Before(S, a) + 1
    BY <2>1, CountStep, Zenon
  <2>3. Before(S, a + 1) <= Before(S, b)
    BY <2>1, CountMonotone, Zenon
  <2>4. Before(S, a) \in Nat /\ Before(S, b) \in Nat /\ Before(S, a + 1) \in Nat
    BY <1>1, <2>1
  <2> QED
    BY <2>2, <2>3, <2>4
<1>3. Before(S, i) = Before(S, j) /\ Before(S, i) \in Nat /\ Before(S, j) \in Nat
  BY <1>1
<1>4. ~(i < j) /\ ~(j < i)
  BY <1>2, <1>3
<1>5. i \in Nat /\ j \in Nat
  OBVIOUS
<1> QED
  BY <1>4, <1>5

-----------------------------------------------------------------------------
(* Timestamps.                                                             *)

\* What the recursion of PowerIn gives.
LEMMA PowersAre ==
  ASSUME NEW arith \in [Nat -> Nat], NEW base \in Nat, NEW n \in Nat
  PROVE  \E p : /\ PowerIn(arith, base, n) = p[n] /\ p[0] = 1
                /\ \A i \in 0 .. n : p[i] \in Nat
                /\ \A i \in 0 .. n : i # 0 => p[i] = arith[p[i - 1] * base]
<1> DEFINE Body(h) == [i \in 0 .. n |-> IF i = 0 THEN 1 ELSE arith[h[i - 1] * base]]
           step == [i \in 0 .. n |-> [v \in Nat |-> arith[v * base]]]
           g == CHOOSE h : h = Body(h)
<1>1. PowerIn(arith, base, n) = g[n]
  BY DEF PowerIn
<1>2. \A v \in Nat : v * base \in Nat /\ arith[v * base] \in Nat
  OBVIOUS
<1>3. \A i \in 0 .. n, v \in Nat : step[i][v] = arith[v * base]
  OBVIOUS
<1>4. step \in [0 .. n -> [Nat -> Nat]]
  BY <1>2
<1>5. 0 \in Int /\ n \in Int /\ 0 <= n /\ 1 \in Nat
  OBVIOUS
<1> HIDE DEF step
<1>6. PICK h : h \in [0 .. n -> Nat] /\ Recursive(h, 0, n, Nat, 1, step)
  BY <1>4, <1>5, RecursionExists, Zenon
<1>7. ASSUME NEW i \in 0 .. n, i # 0 PROVE h[i] = arith[h[i - 1] * base]
  <2>1. i - 1 \in 0 .. n
    BY <1>7
  <2>2. h[i - 1] \in Nat
    BY <1>6, <2>1, Zenon
  <2>3. h[i] = step[i][h[i - 1]]
    BY <1>6, <1>7, <2>2, Zenon DEF Recursive
  <2> QED
    BY <1>3, <1>7, <2>2, <2>3, Zenon
<1>8. h = Body(h)
  BY <1>6, <1>7 DEF Recursive
<1>9. g = Body(g)
  BY <1>8, Zenon
<1> HIDE DEF g
<1>10. \A i \in 0 .. n : g[i] = IF i = 0 THEN 1 ELSE arith[g[i - 1] * base]
  <2>1. \A i \in 0 .. n : Body(g)[i] = IF i = 0 THEN 1 ELSE arith[g[i - 1] * base]
    OBVIOUS
  <2> HIDE DEF Body
  <2> QED
    BY <1>9, <2>1, Zenon
<1>11. g[0] = 1 /\ \A i \in 0 .. n : i # 0 => g[i] = arith[g[i - 1] * base]
  <2>1. 0 \in 0 .. n
    OBVIOUS
  <2> QED
    BY <1>10, <2>1, Zenon
<1> DEFINE P == {i \in Int : g[i] \in Nat}
<1>12. 0 \in P
  BY <1>11
<1>13. ASSUME NEW i \in 0 .. n, i # 0, i - 1 \in P PROVE i \in P
  <2>1. i \in Int /\ g[i - 1] \in Nat
    BY <1>13
  <2>2. g[i] = arith[g[i - 1] * base]
    BY <1>11, <1>13, Zenon
  <2> QED
    BY <1>2, <2>1, <2>2, Zenon
<1> HIDE DEF P
<1>14. \A i \in 0 .. n : i \in P
  BY <1>5, <1>12, <1>13, IntervalInduction, Zenon
<1>15. \A i \in 0 .. n : g[i] \in Nat
  BY <1>14, Zenon DEF P
<1> QED
  BY <1>1, <1>11, <1>15, Zenon

LEMMA ArithmeticTypes == Wrapped \in [Nat -> Nat] /\ Saturated \in [Nat -> Nat]
<1>1. \A x \in Nat : x % Word \in Nat
  BY UnitsAssumption
<1>2. Word \in Nat
  BY UnitsAssumption
<1> QED
  BY <1>1, <1>2 DEF Wrapped, Saturated

\* The wrapped power is the power as long as that fits in uint64_t.
LEMMA PowerExact ==
  ASSUME NEW base \in {2, 10}, NEW n \in Nat
  PROVE  PowerIn(Saturated, base, n) < Word => Power(base, n) = PowerIn(Saturated, base, n)
<1>1. base \in Nat /\ 0 \in Int /\ n \in Int /\ n \in 0 .. n
  OBVIOUS
<1>2. PICK w : /\ PowerIn(Wrapped, base, n) = w[n] /\ w[0] = 1
               /\ \A i \in 0 .. n : w[i] \in Nat
               /\ \A i \in 0 .. n : i # 0 => w[i] = Wrapped[w[i - 1] * base]
  BY <1>1, ArithmeticTypes, PowersAre, Zenon
<1>3. PICK s : /\ PowerIn(Saturated, base, n) = s[n] /\ s[0] = 1
               /\ \A i \in 0 .. n : s[i] \in Nat
               /\ \A i \in 0 .. n : i # 0 => s[i] = Saturated[s[i - 1] * base]
  BY <1>1, ArithmeticTypes, PowersAre, Zenon
<1> DEFINE P == {i \in Int : s[i] < Word => w[i] = s[i]}
<1>4. 0 \in P
  BY <1>1, <1>2, <1>3, Zenon
<1>5. ASSUME NEW i \in 0 .. n, i # 0, i - 1 \in P PROVE i \in P
  <2>1. i - 1 \in 0 .. n /\ i \in Int
    BY <1>5
  <2>2. PICK x \in Nat : x = s[i - 1]
    BY <1>3, <2>1, Zenon
  <2>3. x * base \in Nat /\ x <= x * base
    <3>1. base = 2 \/ base = 10
      OBVIOUS
    <3>2. x * 2 \in Nat /\ x <= x * 2 /\ x * 10 \in Nat /\ x <= x * 10
      OBVIOUS
    <3> QED
      BY <3>1, <3>2, Zenon
  <2>4. s[i] = IF x * base < Word THEN x * base ELSE Word
    <3>1. s[i] = Saturated[x * base]
      BY <1>3, <1>5, <2>2, Zenon
    <3> QED
      BY <2>3, <3>1, Zenon DEF Saturated
  <2>5. SUFFICES ASSUME s[i] < Word PROVE w[i] = s[i]
    BY <2>1, Zenon
  <2>6. x * base < Word /\ s[i] = x * base /\ x < Word
    <3>1. PICK y \in Nat : y = x * base
      BY <2>3, Zenon
    <3>2. y < Word /\ s[i] = y
      BY <2>4, <2>5, <3>1, UnitsAssumption
    <3>3. x < Word
      BY <2>3, <3>1, <3>2, UnitsAssumption
    <3> QED
      BY <3>1, <3>2, <3>3, Zenon
  <2>7. w[i - 1] = x
    BY <1>5, <2>2, <2>6, Zenon
  <2>8. w[i] = (x * base) % Word
    <3>1. w[i] = Wrapped[x * base]
      BY <1>2, <1>5, <2>7, Zenon
    <3> QED
      BY <2>3, <3>1, Zenon DEF Wrapped
  <2>9. \A y \in Nat : y < Word => y % Word = y
    BY UnitsAssumption
  <2> QED
    BY <2>3, <2>6, <2>8, <2>9, Zenon
<1> HIDE DEF P
<1>6. \A i \in 0 .. n : i \in P
  BY <1>1, <1>4, <1>5, IntervalInduction, Zenon
<1>7. s[n] < Word => w[n] = s[n]
  BY <1>1, <1>6, Zenon DEF P
<1> QED
  BY <1>2, <1>3, <1>7, Zenon DEF Power

\* The resolution of one option, in the code and as the file means it.
LEMMA ResolutionIs ==
  ASSUME NEW o, o.base \in {2, 10}, o.exp \in 0 .. 127, UnitOf(o) < Word,
         NEW div, div \in (IF o.base = 2 THEN Shifts(o.exp) ELSE {Power(10, o.exp)})
  PROVE  div = UnitOf(o)
<1>1. o.exp \in Nat
  OBVIOUS
<1>2. o.exp < WordBits
  <2>1. ~(Word < Word)
    BY UnitsAssumption
  <2> QED
    BY <2>1, Zenon DEF UnitOf
<1>3. div = Power(o.base, o.exp)
  BY <1>2, Zenon DEF Shifts
<1>4. UnitOf(o) = PowerIn(Saturated, o.base, o.exp)
  BY <1>2, Zenon DEF UnitOf
<1> QED
  BY <1>1, <1>3, <1>4, PowerExact, Zenon

\* The code finds the unit that the options state, if it fits in uint64_t.
LEMMA DivisorIs ==
  ASSUME NEW options, NEW unit, UnitIs(options, unit), DOMAIN options \subseteq Nat,
         \A i \in DOMAIN options : IsOption(options[i]), unit < Word, NEW div \in Divisors(options)
  PROVE  div = unit
<1> DEFINE Says(i) == /\ options[i].code = 9 /\ options[i].vlen = 1
                      /\ \A j \in DOMAIN options : options[j].code = 0 => i < j
           ends == {i \in DOMAIN options : EndOfOptions(options[i])}
           tsresol == {i \in DOMAIN options : /\ options[i].code = 9 /\ options[i].vlen = 1
                                              /\ \A j \in ends : i < j}
           last == CHOOSE i \in tsresol : \A j \in tsresol : j <= i
<1>1. div \in IF tsresol = {} THEN {UsPerSec}
              ELSE IF options[last].base = 2 THEN Shifts(options[last].exp)
                   ELSE {Power(10, options[last].exp)}
  BY Zenon DEF Divisors
<1>2. \A i \in DOMAIN options : i \in tsresol <=> Says(i)
  BY Zenon DEF EndOfOptions
<1>3. tsresol \subseteq DOMAIN options
  OBVIOUS
<1>4. \/ unit = UsPerSec /\ \A i \in DOMAIN options : ~Says(i)
      \/ \E i \in DOMAIN options : /\ Says(i) /\ unit = UnitOf(options[i])
                                    /\ \A j \in DOMAIN options : Says(j) => j <= i
  BY Zenon DEF UnitIs
<1>5. \A i \in DOMAIN options : Says(i) => options[i].base \in {2, 10} /\ options[i].exp \in 0 .. 127
  BY Zenon DEF IsOption
<1> HIDE DEF Says, tsresol
<1>6. CASE unit = UsPerSec /\ \A i \in DOMAIN options : ~Says(i)
  <2>1. tsresol = {}
    BY <1>2, <1>3, <1>6, Zenon
  <2> QED
    BY <1>1, <1>6, <2>1, Zenon
<1>7. ASSUME NEW i \in DOMAIN options, Says(i), unit = UnitOf(options[i]),
             \A j \in DOMAIN options : Says(j) => j <= i
      PROVE  div = unit
  <2>1. i \in tsresol /\ \A j \in tsresol : j <= i
    BY <1>2, <1>3, <1>7, Zenon
  <2>2. last \in tsresol /\ \A j \in tsresol : j <= last
    BY <2>1, Zenon
  <2>3. last = i
    <3> HIDE DEF last
    <3>1. last \in Nat /\ i \in Nat /\ last <= i /\ i <= last
      BY <1>3, <2>1, <2>2, Zenon
    <3> QED
      BY <3>1
  <2> HIDE DEF last
  <2>4. div \in IF options[i].base = 2 THEN Shifts(options[i].exp) ELSE {Power(10, options[i].exp)}
    BY <1>1, <2>1, <2>3, Zenon
  <2>5. PICK o : o = options[i]
    BY Zenon
  <2>6. div \in (IF o.base = 2 THEN Shifts(o.exp) ELSE {Power(10, o.exp)})
    BY <2>4, <2>5
  <2>7. o.base \in {2, 10} /\ o.exp \in 0 .. 127 /\ unit = UnitOf(o)
    BY <1>5, <1>7, <2>5, Zenon
  <2>8. UnitOf(o) < Word
    BY <2>7, Zenon
  <2> HIDE DEF ends
  <2>9. div = UnitOf(o)
    BY <2>6, <2>7, <2>8, ResolutionIs
  <2> QED
    BY <2>7, <2>9, Zenon
<1> QED
  BY <1>4, <1>6, <1>7, Zenon

LEMMA DivisionOnce ==
  ASSUME NEW d \in Nat \ {0}, NEW q \in Nat, NEW r \in 0 .. d - 1
  PROVE  (q * d + r) \div d = q
<1> DEFINE a == q * d + r
           p == a \div d
<1>1. a \in Nat /\ q * d \in Nat
  OBVIOUS
<1>2. p \in Nat /\ p * d <= a /\ a < p * d + d
  BY <1>1
<1>3. p * d \in Nat
  BY <1>2
<1>4. a = q * d + r
  OBVIOUS
<1> HIDE DEF a, p
<1>5. ~(p < q)
  <2> SUFFICES ASSUME p + 1 <= q PROVE FALSE
    BY <1>2
  <2>1. (p + 1) * d <= q * d /\ (p + 1) * d = p * d + d
    BY <1>2
  <2> QED
    BY <1>1, <1>2, <1>3, <1>4, <2>1, SMTT(30)
<1>6. ~(q < p)
  <2> SUFFICES ASSUME q + 1 <= p PROVE FALSE
    BY <1>2
  <2>1. (q + 1) * d <= p * d /\ (q + 1) * d = q * d + d
    BY <1>2
  <2> QED
    BY <1>1, <1>2, <1>3, <1>4, <2>1, SMTT(30)
<1>7. p = q
  BY <1>2, <1>5, <1>6
<1> QED
  BY <1>7 DEF a, p

\* stepPcapNg's conversion is exact, and its product stays below 2^64, as long as
\* the resolution is at most 2^64 / 10^9 units per second.
LEMMA TimespecExact ==
  ASSUME NEW raw \in Nat, NEW div \in Nat \ {0}, div <= Word \div NsPerSec
  PROVE  /\ Timespec(raw, div).nsec \in 0 .. NsPerSec - 1
         /\ Timespec(raw, div).sec * NsPerSec + Timespec(raw, div).nsec
              = (raw * NsPerSec) \div div
<1> DEFINE ns == NsPerSec
           w == Word
           q == raw \div div
           r == raw % div
           x == r * ns
           s == x \div div
           t == x % div
<1>1. ns \in Nat \ {0} /\ w \in Nat \ {0} /\ div <= w \div ns
  BY UnitsAssumption
<1>2. Timespec(raw, div) = [sec |-> q, nsec |-> (x % w) \div div]
  BY DEF Timespec
<1> HIDE DEF ns, w
<1>3. q \in Nat /\ r \in 0 .. div - 1 /\ raw = q * div + r
  OBVIOUS
<1> HIDE DEF q, r
<1>4. x \in Nat /\ x < div * ns /\ div * ns \in Nat
  <2>1. r \in Nat /\ r + 1 <= div
    BY <1>3
  <2>2. (r + 1) * ns <= div * ns /\ (r + 1) * ns = r * ns + ns /\ r * ns \in Nat
        /\ div * ns \in Nat
    BY <1>1, <2>1
  <2> QED
    BY <1>1, <2>2
<1>5. div * ns <= w
  <2> DEFINE m == w \div ns
  <2>1. m \in Nat /\ m * ns <= w /\ div <= m
    BY <1>1
  <2> HIDE DEF m
  <2>2. div * ns <= m * ns /\ m * ns \in Nat
    BY <1>1, <2>1
  <2> QED
    BY <1>1, <1>4, <2>1, <2>2, SMTT(30)
<1> HIDE DEF x
<1>6. x % w = x
  <2>1. x \in 0 .. w - 1
    BY <1>1, <1>4, <1>5
  <2> QED
    BY <1>1, <2>1
<1>7. s \in Nat /\ t \in 0 .. div - 1 /\ x = s * div + t
  BY <1>4
<1> HIDE DEF s, t
<1>8. s < ns
  <2> SUFFICES ASSUME ns <= s PROVE FALSE
    BY <1>1, <1>7
  <2>1. ns * div <= s * div /\ s * div \in Nat /\ ns * div = div * ns
    BY <1>1, <1>7
  <2> QED
    BY <1>4, <1>7, <2>1, SMTT(30)
<1>9. Timespec(raw, div).sec = q /\ Timespec(raw, div).nsec = s
  BY <1>2, <1>6 DEF s
<1>10. raw * ns = (q * ns + s) * div + t
  <2>1. raw * ns = (q * div) * ns + r * ns
    BY <1>1, <1>3
  <2>2. (q * div) * ns = (q * ns) * div
    BY <1>1, <1>3
  <2>3. (q * ns + s) * div = (q * ns) * div + s * div
    BY <1>1, <1>3, <1>7
  <2>4. r * ns = s * div + t
    BY <1>7 DEF x
  <2>5. (q * ns) * div \in Nat /\ s * div \in Nat /\ t \in Nat
    BY <1>1, <1>3, <1>7
  <2> QED
    BY <2>1, <2>2, <2>3, <2>4, <2>5, SMTT(30)
<1>11. q * ns + s \in Nat
  BY <1>1, <1>3, <1>7
<1>12. (raw * ns) \div div = q * ns + s
  BY <1>7, <1>10, <1>11, DivisionOnce, ZenonT(30)
<1>13. s \in 0 .. ns - 1
  BY <1>1, <1>7, <1>8, SMTT(30)
<1> QED
  BY <1>9, <1>12, <1>13 DEF ns

\* internalStep's factor turns every fraction of a second into less than one.
LEMMA LegacyExact ==
  ASSUME NEW f, NEW b, LegacyBlock(f, b), nano = f.nano, f.nano \in BOOLEAN
  PROVE  /\ LegacyTime(b.sec, b.frac).nsec \in 0 .. NsPerSec - 1
         /\ LegacyTime(b.sec, b.frac).sec * NsPerSec + LegacyTime(b.sec, b.frac).nsec =
              b.sec * NsPerSec + b.frac * (IF f.nano THEN 1 ELSE NsPerSec \div UsPerSec)
<1> DEFINE ns == NsPerSec
           us == UsPerSec
           k == ns \div us
<1>1. ns \in Nat \ {0} /\ us \in Nat \ {0} /\ ns % us = 0
  BY UnitsAssumption
<1>2. b.sec \in Nat /\ b.frac \in 0 .. (IF f.nano THEN ns ELSE us) - 1
  BY DEF LegacyBlock
<1>3. LegacyTime(b.sec, b.frac) = [sec |-> b.sec, nsec |-> IF nano THEN b.frac ELSE b.frac * k]
  BY DEF LegacyTime
<1> HIDE DEF ns, us
<1>4. k \in Nat /\ ns = us * k
  <2>1. k \in Nat /\ ns = k * us + (ns % us)
    BY <1>1
  <2>2. k * us = us * k /\ k * us \in Nat
    BY <1>1, <2>1
  <2> QED
    BY <1>1, <2>1, <2>2
<1> HIDE DEF k
<1>5. CASE f.nano
  <2>1. b.frac \in 0 .. ns - 1 /\ b.frac * 1 = b.frac
    BY <1>2, <1>5
  <2>2. LegacyTime(b.sec, b.frac).nsec = b.frac /\ LegacyTime(b.sec, b.frac).sec = b.sec
    BY <1>3, <1>5
  <2> QED
    BY <1>5, <2>1, <2>2 DEF ns
<1>6. CASE ~f.nano
  <2>1. b.frac \in 0 .. us - 1
    BY <1>2, <1>6
  <2>2. LegacyTime(b.sec, b.frac).nsec = b.frac * k /\ LegacyTime(b.sec, b.frac).sec = b.sec
    BY <1>3, <1>6
  <2>3. b.frac * k \in 0 .. ns - 1
    <3>1. k > 0
      BY <1>1, <1>4
    <3>2. PICK c \in Nat : c = b.frac /\ c + 1 <= us
      BY <1>1, <2>1
    <3>3. (c + 1) * k <= us * k /\ (c + 1) * k = c * k + k /\ c * k \in Nat
      <4>1. us \in Nat /\ k \in Nat
        BY <1>1, <1>4
      <4> QED
        BY <3>2, <4>1
    <3>4. c * k \in 0 .. ns - 1
      BY <1>1, <1>4, <3>1, <3>3, SMTT(30)
    <3> QED
      BY <3>2, <3>4
  <2> QED
    BY <1>6, <2>2, <2>3 DEF ns, k, us
<1> QED
  BY <1>5, <1>6

-----------------------------------------------------------------------------
(***************************************************************************)
(* Types.  A step runs only on a file that open() accepted, and what open  *)
(* found out about the file stays true of the mapped one.                  *)
(***************************************************************************)
TableOK ==
  InterfaceCount \in Nat /\ DOMAIN interfaces = 0 .. InterfaceCount - 1

FormatOK ==
  usable =>
    /\ mapped # NoFile /\ mapped.size = size /\ fd >= 0
    /\ isPcapNg = (mapped.format = "ng")
    /\ mapped.format # "other" => swapped = (mapped.order = "swapped")
    /\ mapped.format = "pcap" => nano = mapped.nano /\ linkType = mapped.link
    /\ isPcapNg => ngOpens > 0

TypeInv ==
  /\ fd \in -1 .. MaxOpens /\ size \in Nat /\ pos \in Nat
  /\ isPcapNg \in BOOLEAN /\ swapped \in BOOLEAN /\ nano \in BOOLEAN
  /\ finished \in BOOLEAN /\ pc \in {"app", "step", "crashed"}
  /\ usable \in BOOLEAN /\ alive \in BOOLEAN /\ reentered \in BOOLEAN
  /\ opens \in 0 .. MaxOpens /\ ngOpens \in Nat /\ rewinds \in Nat /\ played \in Nat
  /\ mapped = NoFile \/ IsFile(mapped)
  /\ stack \in Seq([ng : BOOLEAN, then : Nat]) /\ Len(stack) <= MaxDepth
  /\ pc = "step" => Len(stack) < MaxDepth
  /\ pc # "app" => usable
  /\ stack # << >> => usable
  /\ stack = << >> => out = NoPacket
  /\ ngOpens = 0 => interfaces = << >>
  /\ TableOK /\ FormatOK

\* What a step sees at the cursor are blocks.
LEMMA SeenBlocks ==
  ASSUME TypeInv, NEW b \in BlocksAtCursor
  PROVE  IsBlock(b)
<1>1. CASE b \in Garbage
  BY <1>1, FilesAssumption, ZenonT(30)
<1>2. CASE b \notin Garbage
  <2>1. PICK i \in 1 .. Len(mapped.blocks) : b = mapped.blocks[i]
    BY <1>2 DEF BlocksAtCursor
  <2>2. mapped # NoFile
    <3>1. SUFFICES ASSUME mapped = NoFile PROVE FALSE
      OBVIOUS
    <3>2. mapped.blocks = << >>
      BY <3>1 DEF NoFile
    <3> QED
      BY <2>1, <3>2
  <2> QED
    BY <2>1, <2>2, ZenonT(30) DEF TypeInv, IsFile
<1> QED
  BY <1>1, <1>2

\* An interface is entered behind the ones in the table.
LEMMA NewEntry ==
  ASSUME NEW n \in Nat
  PROVE  (0 .. n - 1) \cup {n} = 0 .. n /\ Cardinality(0 .. n) = n + 1
<1>1. (0 .. n - 1) \cup {n} = 0 .. n
  OBVIOUS
<1>2. Cardinality(0 .. n) = n + 1
  BY FS_Interval
<1> QED
  BY <1>1, <1>2

LEMMA TypesInitially == FileInit => TypeInv
<1> SUFFICES ASSUME FileInit PROVE TypeInv
  OBVIOUS
<1>1. MaxOpens \in Nat /\ MaxDepth \in Nat
  BY FilesAssumption DEF MaxOpens
<1>2. DOMAIN interfaces = {} /\ 0 .. -1 = {}
  BY DEF FileInit
<1>3. TableOK
  <2>1. InterfaceCount = 0
    BY <1>2, FS_EmptySet DEF InterfaceCount
  <2> QED
    BY <1>2, <2>1 DEF TableOK
<1>4. FormatOK
  BY DEF FileInit, FormatOK
<1>5. stack \in Seq([ng : BOOLEAN, then : Nat]) /\ Len(stack) = 0 /\ stack = << >>
  BY DEF FileInit
<1>6. fd \in -1 .. MaxOpens /\ opens \in 0 .. MaxOpens
  BY <1>1 DEF FileInit
<1>7. /\ size \in Nat /\ pos \in Nat /\ ngOpens \in Nat /\ rewinds \in Nat /\ played \in Nat
      /\ Len(stack) <= MaxDepth
  BY <1>1, <1>5, SMTT(30) DEF FileInit
<1> QED
  BY <1>3, <1>4, <1>5, <1>6, <1>7, Zenon DEF FileInit, TypeInv

\* A file that open() may meet is one.
LEMMA OpenedIsFile ==
  ASSUME TypeInv, CanOpen, NEW f \in Files[opens + 1]
  PROVE  IsFile(f) /\ f # NoFile
<1>1. opens + 1 \in 1 .. Len(Files)
  BY FilesAssumption DEF TypeInv, CanOpen, MaxOpens
<1>2. IsFile(f)
  BY <1>1, FilesAssumption, ZenonT(30)
<1> QED
  BY <1>2 DEF IsFile, NoFile

LEMMA OpenTypes ==
  ASSUME TypeInv, OpenFails \/ \E f \in Files[opens + 1] : OpenCannotMap(f)
  PROVE  TypeInv'
<1>1. /\ CanOpen /\ fd' = -1 /\ usable' = FALSE /\ opens' = opens + 1
      /\ UNCHANGED << mapped, pos, interfaces, finished, pc, stack, out, alive, ngOpens,
                      rewinds, reentered, played >>
      /\ UNCHANGED << isPcapNg, swapped, nano, linkType >>
  BY DEF OpenFails, OpenCannotMap, format
<1>2. size' \in Nat
  <2>1. CASE OpenFails
    BY <2>1 DEF OpenFails, TypeInv
  <2>2. ASSUME NEW f \in Files[opens + 1], OpenCannotMap(f) PROVE size' \in Nat
    BY <1>1, <2>2, OpenedIsFile, Zenon DEF OpenCannotMap, IsFile
  <2> QED
    BY <2>1, <2>2, ZenonT(30)
<1>3. MaxOpens \in Nat /\ opens' \in 0 .. MaxOpens
  BY <1>1, FilesAssumption, SMTT(30) DEF MaxOpens, CanOpen, TypeInv
<1>4. TableOK' /\ FormatOK'
  BY <1>1 DEF TypeInv, TableOK, FormatOK, InterfaceCount
<1>5. fd' \in -1 .. MaxOpens /\ usable' \in BOOLEAN
  <2>1. fd' = -1 /\ usable' = FALSE
    BY <1>1, Zenon
  <2>2. -1 \in -1 .. MaxOpens /\ FALSE \in BOOLEAN
    BY <1>3
  <2> QED
    BY <2>1, <2>2, Zenon
<1>6. pc = "app" /\ stack = << >>
  BY <1>1, ZenonT(30) DEF CanOpen
<1> QED
  BY <1>1, <1>2, <1>3, <1>4, <1>5, <1>6, ZenonT(30) DEF TypeInv

LEMMA OpenMapsTypes ==
  ASSUME TypeInv, NEW f \in Files[opens + 1], OpenMaps(f)
  PROVE  TypeInv'
<1>1. /\ CanOpen /\ fd' = opens /\ mapped' = f /\ size' = f.size
      /\ opens' = opens + 1 /\ played' = 0 /\ ReadHeader(f)
      /\ ngOpens' = ngOpens + (IF f.format = "ng" THEN 1 ELSE 0)
      /\ UNCHANGED << interfaces, finished, pc, stack, out, alive, rewinds, reentered >>
  BY ZenonT(30) DEF OpenMaps
<1>2. IsFile(f) /\ f # NoFile
  BY <1>1, OpenedIsFile, ZenonT(30)
<1>3. MaxOpens \in Nat /\ opens \in Nat /\ opens' \in 0 .. MaxOpens /\ fd' \in -1 .. MaxOpens /\ fd' >= 0
  BY <1>1, FilesAssumption, SMTT(30) DEF MaxOpens, CanOpen, TypeInv
<1>4. ngOpens' \in Nat /\ (ngOpens' = 0 => ngOpens = 0) /\ (f.format = "ng" => ngOpens' > 0)
  BY <1>1, SMTT(30) DEF TypeInv
<1>5. size' \in Nat /\ f.nano \in BOOLEAN /\ f.format \in {"pcap", "ng", "other"}
  BY <1>1, <1>2, Zenon DEF IsFile
<1>6. /\ pos' \in Nat /\ isPcapNg' \in BOOLEAN /\ swapped' \in BOOLEAN /\ nano' \in BOOLEAN
      /\ usable' \in BOOLEAN
  <2> USE DEF FileHdr
  <2>0. pos \in Nat /\ isPcapNg \in BOOLEAN /\ swapped \in BOOLEAN /\ nano \in BOOLEAN
    BY DEF TypeInv
  <2>1. CASE f.size < FileHdr
    <3>1. usable' = FALSE /\ UNCHANGED << pos, isPcapNg, swapped, nano >>
      <4>1. ~(f.size >= FileHdr)
        BY <1>1, <1>5, <2>1
      <4> QED
        BY <1>1, <4>1, Zenon DEF ReadHeader, format
    <3> QED
      BY <2>0, <3>1, ZenonT(30)
  <2>2. CASE f.size >= FileHdr /\ f.format = "ng"
    <3>1. isPcapNg' = TRUE /\ pos' = 0 /\ ReadByteOrder(f) /\ usable' = (f.order # "bad")
      <4>1. ~(f.size < FileHdr)
        BY <1>1, <1>5, <2>2
      <4> QED
        BY <1>1, <2>2, <4>1, ZenonT(30) DEF ReadHeader
    <3>2. swapped' \in BOOLEAN /\ nano' \in BOOLEAN
      BY <2>0, <3>1, Zenon DEF ReadByteOrder
    <3> QED
      BY <3>1, <3>2
  <2>3. CASE f.size >= FileHdr /\ f.format # "ng"
    <3>1. isPcapNg' = FALSE /\ pos' = 24 /\ ReadMagic(f) /\ usable' = TRUE
      <4>1. ~(f.size < FileHdr)
        BY <1>1, <1>5, <2>3
      <4> QED
        BY <1>1, <2>3, <4>1, Zenon DEF ReadHeader
    <3>2. swapped' \in BOOLEAN /\ nano' \in BOOLEAN
      BY <1>5, <2>0, <3>1, Zenon DEF ReadMagic
    <3> QED
      BY <3>1, <3>2, ZenonT(30)
  <2> QED
    BY <1>1, <1>5, <2>1, <2>2, <2>3, SMTT(30) DEF FileHdr
<1>7. FormatOK'
  <2> SUFFICES ASSUME usable' PROVE FormatOK'
    BY DEF FormatOK
  <2>1. f.size >= FileHdr
    BY <1>1, <1>5, Zenon DEF ReadHeader, FileHdr
  <2>2. CASE f.format = "ng"
    <3>1. /\ isPcapNg' = TRUE /\ usable' = (f.order # "bad") /\ ReadByteOrder(f)
      BY <1>1, <1>5, <2>1, <2>2, Zenon DEF ReadHeader, FileHdr
    <3>2. swapped' = (f.order = "swapped")
      BY <3>1, Zenon DEF ReadByteOrder
    <3> QED
      BY <1>1, <1>2, <1>3, <1>4, <2>2, <3>1, <3>2, Zenon DEF FormatOK
  <2>3. CASE f.format # "ng"
    <3>1. isPcapNg' = FALSE /\ ReadMagic(f) /\ linkType' = f.link
      BY <1>1, <1>5, <2>1, <2>3, ZenonT(30) DEF ReadHeader, FileHdr
    <3>2. f.format # "other" => swapped' = (f.order = "swapped") /\ nano' = f.nano
      BY <3>1, ZenonT(30) DEF ReadMagic
    <3> QED
      BY <1>1, <1>2, <1>3, <2>3, <3>1, <3>2, Zenon DEF FormatOK
  <2> QED
    BY <2>2, <2>3, ZenonT(30)
<1>8. TableOK'
  BY <1>1, ZenonT(30) DEF TypeInv, TableOK, InterfaceCount
<1> QED
  BY <1>1, <1>2, <1>3, <1>4, <1>5, <1>6, <1>7, <1>8, ZenonT(30) DEF TypeInv, CanOpen

\* A step that changes neither the file nor the table.
LEMMA FileTypesKept ==
  ASSUME TypeInv,
         UNCHANGED << fd, mapped, size, isPcapNg, swapped, nano, linkType, usable, opens, ngOpens,
                      interfaces >>
  PROVE  /\ TableOK' /\ FormatOK'
         /\ fd' \in -1 .. MaxOpens /\ size' \in Nat /\ isPcapNg' \in BOOLEAN
         /\ swapped' \in BOOLEAN /\ nano' \in BOOLEAN /\ usable' \in BOOLEAN
         /\ opens' \in 0 .. MaxOpens /\ ngOpens' \in Nat
         /\ mapped' = NoFile \/ IsFile(mapped')
         /\ ngOpens' = 0 => interfaces' = << >>
BY ZenonT(30) DEF TypeInv, TableOK, FormatOK, InterfaceCount

LEMMA QuietTypes ==
  ASSUME TypeInv, Rewind \/ Destroy \/ Step \/ (usable /\ StepEnds)
                  \/ \E b \in BlocksAtCursor : NgDivideByZero(b)
  PROVE  TypeInv'
<1>1. UNCHANGED << fd, mapped, size, isPcapNg, swapped, nano, linkType, usable, opens, ngOpens,
                   interfaces, stack, out >>
  BY DEF Rewind, Destroy, Step, StepEnds, NgDivideByZero, mapping, format, history
<1>2. /\ pos' \in Nat /\ finished' \in BOOLEAN /\ alive' \in BOOLEAN /\ reentered' \in BOOLEAN
      /\ rewinds' \in Nat /\ played' \in Nat
  <2>1. CASE Rewind
    <3>1. pos' \in Nat /\ rewinds' \in Nat /\ played' \in Nat
      BY <2>1 DEF Rewind, TypeInv, Rewound, FileHdr
    <3>2. finished' \in BOOLEAN /\ alive' \in BOOLEAN /\ reentered' \in BOOLEAN
      BY <2>1, Zenon DEF Rewind, TypeInv
    <3> QED
      BY <3>1, <3>2, ZenonT(30)
  <2>2. CASE ~Rewind
    <3>1. UNCHANGED << pos, rewinds, played >>
      BY <2>2 DEF Destroy, Step, StepEnds, NgDivideByZero, history
    <3>2. finished' \in BOOLEAN /\ alive' \in BOOLEAN /\ reentered' \in BOOLEAN
      BY <2>2, Zenon DEF Destroy, Step, StepEnds, NgDivideByZero, history, TypeInv
    <3> QED
      BY <3>1, <3>2, ZenonT(30) DEF TypeInv
  <2> QED
    BY <2>1, <2>2
<1>3. /\ pc' \in {"app", "step", "crashed"}
      /\ pc' = "step" => Len(stack) < MaxDepth
      /\ pc' # "app" => usable
  BY ZenonT(30) DEF Rewind, Destroy, Step, StepEnds, NgDivideByZero, NgBlock, TypeInv
<1>4. /\ TableOK' /\ FormatOK'
      /\ fd' \in -1 .. MaxOpens /\ size' \in Nat /\ isPcapNg' \in BOOLEAN
      /\ swapped' \in BOOLEAN /\ nano' \in BOOLEAN /\ usable' \in BOOLEAN
      /\ opens' \in 0 .. MaxOpens /\ ngOpens' \in Nat
      /\ mapped' = NoFile \/ IsFile(mapped')
      /\ ngOpens' = 0 => interfaces' = << >>
  BY <1>1, FileTypesKept, ZenonT(30)
<1> QED
  BY <1>1, <1>2, <1>3, <1>4, ZenonT(30) DEF TypeInv

\* A packet is handed over.
LEMMA HandOverTypes ==
  ASSUME TypeInv, pc = "step", NEW b, NEW time, NEW link, NEW data, NEW then \in Nat,
         HandOver(b, time, link, data, then)
  PROVE  TypeInv'
<1>1. /\ stack' = Append(stack, [ng |-> isPcapNg, then |-> then]) /\ pc' = "app"
      /\ played' = (IF reentered THEN 0 ELSE played + 1)
      /\ UNCHANGED << fd, mapped, size, isPcapNg, swapped, nano, linkType, usable, opens,
                      ngOpens, interfaces >>
      /\ UNCHANGED << pos, finished, alive, rewinds, reentered >>
  BY ZenonT(30) DEF HandOver, mapping, format
<1>2. /\ TableOK' /\ FormatOK'
      /\ fd' \in -1 .. MaxOpens /\ size' \in Nat /\ isPcapNg' \in BOOLEAN
      /\ swapped' \in BOOLEAN /\ nano' \in BOOLEAN /\ usable' \in BOOLEAN
      /\ opens' \in 0 .. MaxOpens /\ ngOpens' \in Nat
      /\ mapped' = NoFile \/ IsFile(mapped')
      /\ ngOpens' = 0 => interfaces' = << >>
  BY <1>1, FileTypesKept
<1>3. [ng |-> isPcapNg, then |-> then] \in [ng : BOOLEAN, then : Nat]
  BY Zenon DEF TypeInv
<1>4. /\ stack' \in Seq([ng : BOOLEAN, then : Nat]) /\ stack' # << >>
      /\ Len(stack') = Len(stack) + 1
  BY <1>1, <1>3, SMTT(30) DEF TypeInv
<1>5. Len(stack') <= MaxDepth
  BY <1>4, FilesAssumption, SMTT(30) DEF TypeInv
<1>6. played' \in Nat
  BY <1>1, SMTT(30) DEF TypeInv
<1>7. usable' = TRUE
  BY <1>1, ZenonT(30) DEF TypeInv
<1> QED
  BY <1>1, <1>2, <1>4, <1>5, <1>6, <1>7, ZenonT(30) DEF TypeInv

\* The table grows by the interface of a block.
LEMMA SkipTypes ==
  ASSUME TypeInv, NEW b \in BlocksAtCursor, NgSkip(b)
  PROVE  TypeInv'
<1>1. /\ pos' = pos + b.len
      /\ UNCHANGED << fd, mapped, size, isPcapNg, swapped, nano, linkType, usable, opens, ngOpens >>
      /\ UNCHANGED << finished, pc, stack, out, alive, rewinds, reentered, played >>
      /\ usable /\ isPcapNg
  BY ZenonT(30) DEF NgSkip, NgBlock, mapping, format, history, TypeInv
<1>2. pos' \in Nat
  BY <1>1, SeenBlocks, SMTT(30) DEF TypeInv, IsBlock
<1>3. FormatOK' /\ ngOpens' # 0
  <2>1. FormatOK /\ usable /\ isPcapNg /\ ngOpens \in Nat
    BY <1>1 DEF TypeInv
  <2>2. ngOpens > 0
    BY <2>1, Zenon DEF FormatOK
  <2>3. FormatOK'
    BY <1>1, <2>1, Zenon DEF FormatOK
  <2> QED
    BY <1>1, <2>1, <2>2, <2>3
<1>4. TableOK'
  <2>1. InterfaceCount \in Nat /\ DOMAIN interfaces = 0 .. InterfaceCount - 1
    BY DEF TypeInv, TableOK
  <2>2. CASE b.type = "IDB"
    <3>1. DOMAIN interfaces' = 0 .. InterfaceCount /\ Cardinality(DOMAIN interfaces') = InterfaceCount + 1
      <4>1. DOMAIN interfaces' = DOMAIN interfaces \cup {InterfaceCount}
        BY <2>2, ZenonT(30) DEF NgSkip
      <4> QED
        BY <2>1, <4>1, NewEntry, Zenon
    <3> QED
      BY <2>1, <3>1 DEF TableOK, InterfaceCount
  <2>3. CASE b.type # "IDB"
    BY <2>1, <2>3, ZenonT(30) DEF NgSkip, TableOK, InterfaceCount
  <2> QED
    BY <2>2, <2>3, ZenonT(30)
<1> QED
  BY <1>1, <1>2, <1>3, <1>4, SMTT(30) DEF TypeInv

LEMMA ReturnTypes ==
  ASSUME TypeInv, HandlerReturns
  PROVE  TypeInv'
<1>1. /\ stack # << >> /\ pc = "app" /\ stack' = SubSeq(stack, 1, Len(stack) - 1)
      /\ pos' = (IF stack[Len(stack)].ng THEN pos + stack[Len(stack)].then ELSE stack[Len(stack)].then)
      /\ out' = NoPacket
      /\ UNCHANGED << fd, mapped, size, isPcapNg, swapped, nano, linkType, usable, opens,
                      ngOpens, interfaces >>
      /\ UNCHANGED << finished, pc, alive, rewinds, reentered, played >>
  BY ZenonT(30) DEF HandlerReturns, mapping, format, history
<1>2. /\ TableOK' /\ FormatOK'
      /\ fd' \in -1 .. MaxOpens /\ size' \in Nat /\ isPcapNg' \in BOOLEAN
      /\ swapped' \in BOOLEAN /\ nano' \in BOOLEAN /\ usable' \in BOOLEAN
      /\ opens' \in 0 .. MaxOpens /\ ngOpens' \in Nat
      /\ mapped' = NoFile \/ IsFile(mapped')
      /\ ngOpens' = 0 => interfaces' = << >>
  BY <1>1, FileTypesKept
<1>3. /\ stack' \in Seq([ng : BOOLEAN, then : Nat]) /\ Len(stack') = Len(stack) - 1
      /\ stack[Len(stack)] \in [ng : BOOLEAN, then : Nat]
  <2>1. ASSUME NEW S, NEW s \in Seq(S), s # << >>
        PROVE  /\ SubSeq(s, 1, Len(s) - 1) \in Seq(S) /\ Len(SubSeq(s, 1, Len(s) - 1)) = Len(s) - 1
               /\ s[Len(s)] \in S
    <3>0. Len(s) - 1 \in Nat /\ Len(s) - 1 <= Len(s)
      BY <2>1
    <3>1. PICK k \in Nat : k = Len(s) - 1 /\ k <= Len(s)
      BY <3>0, Zenon
    <3>2. SubSeq(s, 1, k) \in Seq(S) /\ Len(SubSeq(s, 1, k)) = k
      BY <3>1
    <3>3. s[Len(s)] \in S
      BY <2>1, SMTT(30)
    <3> QED
      BY <3>1, <3>2, <3>3, ZenonT(30)
  <2>2. stack \in Seq([ng : BOOLEAN, then : Nat])
    BY ZenonT(30) DEF TypeInv
  <2> QED
    BY <1>1, <2>1, <2>2, Zenon
<1>4. pos' \in Nat
  <2>1. stack[Len(stack)].then \in Nat /\ pos \in Nat
    BY <1>3, SMTT(30) DEF TypeInv
  <2> QED
    BY <1>1, <2>1, SMTT(30)
<1>5. Len(stack') <= MaxDepth
  BY <1>3, FilesAssumption DEF TypeInv
<1> QED
  BY <1>1, <1>2, <1>3, <1>4, <1>5, ZenonT(30) DEF TypeInv

LEMMA TypeInvHolds == FileSpec => []TypeInv
<1>1. ASSUME TypeInv, [FileNext]_fileVars PROVE TypeInv'
  <2>1. CASE OpenFails \/ \E f \in Files[opens + 1] : OpenCannotMap(f)
    BY <1>1, <2>1, OpenTypes, ZenonT(30)
  <2>2. ASSUME NEW f \in Files[opens + 1], OpenMaps(f) PROVE TypeInv'
    BY <1>1, <2>2, OpenMapsTypes, ZenonT(30)
  <2>3. CASE LegacyEof \/ NgEof
    <3>1. usable /\ StepEnds
      BY <1>1, <2>3, ZenonT(30) DEF LegacyEof, NgEof, TypeInv
    <3> QED
      BY <1>1, <3>1, QuietTypes, ZenonT(30)
  <2>4. CASE Rewind \/ Destroy \/ Step \/ \E b \in BlocksAtCursor : NgDivideByZero(b)
    BY <1>1, <2>4, QuietTypes, ZenonT(30)
  <2>5. ASSUME NEW b \in BlocksAtCursor, LegacyPacket(b) PROVE TypeInv'
    <3>1. NextLegacy(b) \in Nat
      BY <1>1, <2>5, SeenBlocks, SMTT(30) DEF IsBlock, LegacyPacket, NextLegacy, TypeInv, PktHdr
    <3>2. /\ pc = "step"
          /\ HandOver(b, LegacyTime(b.sec, b.frac), linkType, pos + PktHdr, NextLegacy(b))
      BY <2>5 DEF LegacyPacket
    <3> QED
      BY <1>1, <3>1, <3>2, HandOverTypes, ZenonT(30)
  <2>6. ASSUME NEW b \in BlocksAtCursor, NgPacket(b) PROVE TypeInv'
    <3>1. b.len \in Nat
      BY <1>1, SeenBlocks, ZenonT(30) DEF IsBlock
    <3>2. /\ pc = "step"
          /\ HandOver(b, Timespec(b.raw, Interface(b.ifId).div), Interface(b.ifId).link,
                      pos + BlockHdr + EpbBody, b.len)
      BY <2>6 DEF NgPacket, NgBlock
    <3> QED
      BY <1>1, <3>1, <3>2, HandOverTypes, Zenon
  <2>7. ASSUME NEW b \in BlocksAtCursor, NgSkip(b) PROVE TypeInv'
    BY <1>1, <2>7, SkipTypes, ZenonT(30)
  <2>8. CASE HandlerReturns
    BY <1>1, <2>8, ReturnTypes, ZenonT(30)
  <2>9. CASE UNCHANGED fileVars
    BY <1>1, <2>9 DEF fileVars, mapping, format, history, TypeInv, TableOK, FormatOK, InterfaceCount
  <2> QED
    BY <1>1, <2>1, <2>2, <2>3, <2>4, <2>5, <2>6, <2>7, <2>8, <2>9, ZenonT(30) DEF FileNext, Reading
<1> QED
  BY <1>1, TypesInitially, PTL DEF FileSpec

(***************************************************************************)
(* Every variable of the receiver stays in its type, a file that open()    *)
(* accepted is mapped in full, and the table of interfaces has no gaps.    *)
(***************************************************************************)
THEOREM FileTypesCorrect == FileSpec => []FileTypeOK
<1>1. TypeInv => FileTypeOK
  BY DEF TypeInv, FileTypeOK, TableOK, FormatOK, InterfaceCount
<1> QED
  BY <1>1, TypeInvHolds, PTL

-----------------------------------------------------------------------------
(***************************************************************************)
(* Of a receiver on which open() was called once at most, the kernel holds *)
(* what its members name, and nothing once it is destroyed.                *)
(***************************************************************************)
HeldInv ==
  /\ opens = 0 => fd = -1 /\ mapped = NoFile
  /\ opens <= 1 => /\ fds = IF alive /\ fd >= 0 THEN 1 ELSE 0
                   /\ maps = IF alive /\ mapped # NoFile THEN 1 ELSE 0

LEMMA HeldInvHolds == FileSpec => []HeldInv
<1>1. FileInit => HeldInv
  BY SMTT(30) DEF FileInit, HeldInv
<1>2. ASSUME TypeInv, HeldInv, [FileNext]_fileVars PROVE HeldInv'
  <2>0. opens \in Nat /\ fd \in Int /\ alive \in BOOLEAN
    BY <1>2 DEF TypeInv
  <2>1. CASE OpenFails \/ \E f \in Files[opens + 1] : OpenCannotMap(f)
    <3>1. fd' = -1 /\ opens' = opens + 1 /\ UNCHANGED << mapped, fds, maps, alive >>
      BY <2>1 DEF OpenFails, OpenCannotMap
    <3>2. opens' # 0 /\ (opens' <= 1 => opens = 0)
      BY <2>0, <3>1, SMTT(30)
    <3> QED
      BY <1>2, <3>1, <3>2, SMTT(30) DEF HeldInv
  <2>2. ASSUME NEW f \in Files[opens + 1], OpenMaps(f) PROVE HeldInv'
    <3>1. /\ alive /\ fd' = opens /\ mapped' = f /\ fds' = fds + 1 /\ maps' = maps + 1
          /\ opens' = opens + 1 /\ UNCHANGED alive
      BY <2>2, ZenonT(30) DEF OpenMaps, CanOpen
    <3>2. f # NoFile
      BY <1>2, <2>2, OpenedIsFile, ZenonT(30) DEF OpenMaps
    <3>3. opens' # 0 /\ (opens' <= 1 => opens = 0)
      BY <2>0, <3>1
    <3> QED
      BY <1>2, <3>1, <3>2, <3>3, SMTT(30) DEF HeldInv
  <2>3. CASE Destroy
    <3>1. /\ alive /\ alive' = FALSE /\ maps' = (IF mapped # NoFile THEN maps - 1 ELSE maps)
          /\ fds' = (IF fd >= 0 THEN fds - 1 ELSE fds) /\ UNCHANGED << fd, mapped, opens >>
      BY <2>3 DEF Destroy, IsMapped, history
    <3>2. CASE opens <= 1
      <4>1. fds' = 0 /\ maps' = 0
        BY <1>2, <3>1, <3>2, SMTT(30) DEF HeldInv
      <4> QED
        BY <1>2, <3>1, <4>1, Zenon DEF HeldInv
    <3>3. CASE ~(opens <= 1)
      BY <2>0, <3>1, <3>3, SMTT(30) DEF HeldInv
    <3> QED
      BY <3>2, <3>3, ZenonT(30)
  <2>4. CASE Rewind \/ Step \/ HandlerReturns \/ Reading \/ UNCHANGED fileVars
    <3>1. UNCHANGED << fd, mapped, fds, maps, opens, alive >>
      BY <2>4, ZenonT(30) DEF Rewind, Step, HandlerReturns, Reading, LegacyEof, NgEof, StepEnds, LegacyPacket,
             NgSkip, NgPacket, NgDivideByZero, HandOver, mapping, history, fileVars
    <3> QED
      BY <1>2, <3>1, Zenon DEF HeldInv
  <2> QED
    BY <1>2, <2>1, <2>2, <2>3, <2>4, ZenonT(30) DEF FileNext
<1> QED
  BY <1>1, <1>2, TypeInvHolds, PTL DEF FileSpec

(***************************************************************************)
(* The destructor leaves no mapping and no descriptor behind, whichever    *)
(* step of the only open() failed.                                         *)
(***************************************************************************)
THEOREM Released == FileSpec => []ReleasedWhenDestroyed
<1>1. TypeInv /\ HeldInv => ReleasedWhenDestroyed
  BY DEF TypeInv, HeldInv, ReleasedWhenDestroyed
<1> QED
  BY <1>1, TypeInvHolds, HeldInvHolds, PTL

-----------------------------------------------------------------------------
(* The blocks of a file: the ones of a kind before a place, the one at the *)
(* cursor, and what is left when a step reports the end.                   *)

BlocksOf(f) == 1 .. Len(f.blocks)

LEMMA BlockNumbers ==
  ASSUME NEW f, IsFile(f)
  PROVE  /\ Len(f.blocks) \in Nat
         /\ \A i \in 1 .. Len(f.blocks) + 1 : i \in Nat /\ Starts(f)[i] \in Nat
         /\ \A i \in BlocksOf(f) :
              /\ i \in Nat /\ i + 1 \in Nat /\ i <= i + 1
              /\ i \in 1 .. Len(f.blocks) + 1 /\ i + 1 \in 1 .. Len(f.blocks) + 1
              /\ Starts(f)[i] \in Nat /\ Starts(f)[i + 1] = Starts(f)[i] + f.blocks[i].len
<1>1. PICK n \in Nat : n = Len(f.blocks)
  BY StartsAre, Zenon
<1>2. \A i \in 1 .. n + 1 : i \in Nat
  OBVIOUS
<1>3. \A i \in 1 .. n : /\ i \in Nat /\ i + 1 \in Nat /\ i <= i + 1
                       /\ i \in 1 .. n + 1 /\ i + 1 \in 1 .. n + 1
  BY SMTT(30)
<1> QED
  BY <1>1, <1>2, <1>3, StartsAre, Zenon DEF BlocksOf

LEMMA BlockAt ==
  ASSUME NEW f, IsFile(f), NEW i \in BlocksOf(f)
  PROVE  /\ IsBlock(f.blocks[i])
         /\ f.format = "ng" => NgBlockAt(f, i)
         /\ f.format # "ng" => LegacyBlock(f, f.blocks[i])
  BY DEF IsFile, BlocksOf

LEMMA CountFacts ==
  ASSUME NEW f, IsFile(f), NEW S, S \subseteq BlocksOf(f)
  PROVE  /\ IsFiniteSet(S) /\ Cardinality(S) \in Nat
         /\ Before(S, 1) = 0
         /\ \A i \in Nat : /\ Before(S, i) \in Nat /\ Before(S, i) <= Cardinality(S)
                           /\ Before(S, i + 1) = Before(S, i) + (IF i \in S THEN 1 ELSE 0)
<1>1. PICK n \in Nat : n = Len(f.blocks) /\ S \subseteq 1 .. n
  BY StartsAre, Zenon DEF BlocksOf
<1>2. IsFiniteSet(1 .. n)
  BY FS_Interval
<1>3. IsFiniteSet(S) /\ Cardinality(S) \in Nat
  BY <1>1, <1>2, FS_Subset, FS_CardinalityType, Zenon
<1>4. Before(S, 1) = 0
  <2>1. \A j \in S : ~(j < 1)
    BY <1>1
  <2>2. {j \in S : j < 1} = {}
    BY <2>1, Zenon
  <2> QED
    BY <2>2, FS_EmptySet, Zenon DEF Before
<1>5. ASSUME NEW i \in Nat
      PROVE  /\ Before(S, i) \in Nat
             /\ Before(S, i + 1) = Before(S, i) + (IF i \in S THEN 1 ELSE 0)
  BY <1>1, CountStep, Zenon
<1>6. ASSUME NEW i \in Nat PROVE Before(S, i) <= Cardinality(S)
  <2>1. {j \in S : j < i} \subseteq S
    OBVIOUS
  <2> QED
    BY <1>3, <2>1, FS_Subset, ZenonT(30) DEF Before
<1> QED
  BY <1>3, <1>4, <1>5, <1>6, Zenon

LEMMA IdbsStep ==
  ASSUME NEW f, IsFile(f)
  PROVE  /\ IdbsBefore(f, 1) = 0 /\ Cardinality(IdbsOf(f)) \in Nat
         /\ \A i \in 1 .. Len(f.blocks) + 1 :
              IdbsBefore(f, i) \in Nat /\ IdbsBefore(f, i) <= Cardinality(IdbsOf(f))
         /\ \A i \in BlocksOf(f) :
              IdbsBefore(f, i + 1) =
                IdbsBefore(f, i) + (IF f.blocks[i].type = "IDB" THEN 1 ELSE 0)
<1>1. IdbsOf(f) \subseteq BlocksOf(f)
  BY DEF IdbsOf, BlocksOf
<1>2. \A i : IdbsBefore(f, i) = Before(IdbsOf(f), i)
  BY Zenon DEF IdbsBefore, Before
<1>3. \A i \in 1 .. Len(f.blocks) + 1 : i \in Nat
  BY StartsAre, SMTT(30)
<1>4. \A i \in BlocksOf(f) : i \in Nat /\ (i \in IdbsOf(f) <=> f.blocks[i].type = "IDB")
  BY StartsAre, SMTT(30) DEF IdbsOf, BlocksOf
<1>5. /\ Before(IdbsOf(f), 1) = 0 /\ Cardinality(IdbsOf(f)) \in Nat
      /\ \A i \in Nat :
           /\ Before(IdbsOf(f), i) \in Nat /\ Before(IdbsOf(f), i) <= Cardinality(IdbsOf(f))
           /\ Before(IdbsOf(f), i + 1) = Before(IdbsOf(f), i) + (IF i \in IdbsOf(f) THEN 1 ELSE 0)
  BY <1>1, CountFacts
<1>6. ASSUME NEW i \in BlocksOf(f)
      PROVE  IdbsBefore(f, i + 1) =
               IdbsBefore(f, i) + (IF f.blocks[i].type = "IDB" THEN 1 ELSE 0)
  <2>1. Before(IdbsOf(f), i + 1) = Before(IdbsOf(f), i) + (IF i \in IdbsOf(f) THEN 1 ELSE 0)
    BY <1>4, <1>5, Zenon
  <2> QED
    BY <1>2, <1>4, <2>1, Zenon
<1> QED
  BY <1>2, <1>3, <1>5, <1>6, Zenon

\* The interface that a packet calls by the number of the ones before it.
LEMMA DescribedIs ==
  ASSUME NEW f, IsFile(f), NEW i \in IdbsOf(f)
  PROVE  Described(f, IdbsBefore(f, i)) = f.blocks[i]
<1>1. PICK n \in Nat : n = Len(f.blocks) /\ IdbsOf(f) \subseteq 1 .. n
  BY StartsAre, Zenon DEF IdbsOf
<1>2. ASSUME NEW j \in IdbsOf(f), IdbsBefore(f, j) = IdbsBefore(f, i) PROVE j = i
  <2>1. Before(IdbsOf(f), j) = Before(IdbsOf(f), i)
    BY <1>2, Zenon DEF IdbsBefore, Before
  <2> QED
    BY <1>1, <2>1, CountOnce
<1>3. (CHOOSE j \in IdbsOf(f) : IdbsBefore(f, j) = IdbsBefore(f, i)) = i
  BY <1>2, Zenon
<1> QED
  BY <1>3, Zenon DEF Described

Readable == usable /\ mapped.format # "other"

LEMMA ReadableFile ==
  ASSUME TypeInv, usable
  PROVE  /\ IsFile(mapped) /\ mapped.size = size /\ Len(mapped.blocks) \in Nat
         /\ isPcapNg <=> mapped.format = "ng"
         /\ mapped.format # "other" => (swapped <=> mapped.order = "swapped")
         /\ mapped.format = "pcap" => (nano <=> mapped.nano) /\ linkType = mapped.link
         /\ mapped.format \in {"pcap", "ng", "other"}
<1>1. IsFile(mapped) /\ mapped.size = size
  BY DEF TypeInv, FormatOK
<1>2. /\ isPcapNg <=> mapped.format = "ng"
      /\ mapped.format # "other" => (swapped <=> mapped.order = "swapped")
      /\ mapped.format = "pcap" => (nano <=> mapped.nano) /\ linkType = mapped.link
  BY ZenonT(30) DEF TypeInv, FormatOK
<1>3. Len(mapped.blocks) \in Nat /\ mapped.format \in {"pcap", "ng", "other"}
  BY <1>1, StartsAre DEF IsFile
<1> QED
  BY <1>1, <1>2, <1>3, ZenonT(30)

\* At the start of a block the code sees this block.
LEMMA AtCursor ==
  ASSUME TypeInv, Readable, NEW i \in BlocksOf(mapped), pos = Starts(mapped)[i]
  PROVE  BlocksAtCursor = {mapped.blocks[i]}
<1>1. IsFile(mapped) /\ mapped.format # "other" /\ (swapped <=> mapped.order = "swapped")
  BY ReadableFile DEF Readable
<1>2. swapped = (mapped.order = "swapped")
  BY <1>1, Zenon DEF TypeInv
<1>3. ASSUME NEW j \in 1 .. Len(mapped.blocks), Starts(mapped)[j] = pos PROVE j = i
  BY <1>1, <1>3, StartsOnce DEF BlocksOf
<1>4. {j \in 1 .. Len(mapped.blocks) : Starts(mapped)[j] = pos} = {i}
  BY <1>3, Zenon DEF BlocksOf
<1>5. {mapped.blocks[j] : j \in {i}} = {mapped.blocks[i]}
  BY ZenonT(30)
<1> QED
  BY <1>1, <1>2, <1>4, <1>5, Zenon DEF BlocksAtCursor

\* What makes a step report the end at the i-th block.
Stuck(f, i) ==
  i \in BlocksOf(f) =>
    \/ Starts(f)[i] + MinLen(f) > f.size
    \/ f.format = "ng" /\ (f.blocks[i].len < BlockHdr \/ Starts(f)[i] + f.blocks[i].len > f.size)

LEMMA NoneLeft ==
  ASSUME NEW f, IsFile(f), NEW i \in 1 .. Len(f.blocks) + 1, Stuck(f, i), NEW j \in Playable(f)
  PROVE  j < i
<1>1. /\ Len(f.blocks) \in Nat
      /\ \A k \in 1 .. Len(f.blocks) + 1 : Starts(f)[k] \in Nat
  BY StartsAre
<1>2. /\ j \in 1 .. Len(f.blocks) /\ f.blocks[j].type = "packet" /\ f.blocks[j].len \in Nat
      /\ Starts(f)[j] + (IF f.format = "ng" THEN f.blocks[j].len ELSE PktHdr) <= f.size
      /\ f.format = "ng" => f.blocks[j].len >= BlockHdr
      /\ f.size \in Nat
  <2>1. j \in BlocksOf(f)
    BY ZenonT(30) DEF Playable, BlocksOf
  <2>2. f.blocks[j].type = "packet" /\ IsBlock(f.blocks[j]) /\ (f.format = "ng" => NgBlockAt(f, j))
    BY <2>1, BlockAt, ZenonT(30) DEF Playable
  <2>3. f.format = "ng" => f.blocks[j].len >= BlockHdr
    BY Zenon DEF Playable
  <2> QED
    BY <2>1, <2>2, <2>3, Zenon DEF Playable, BlocksOf, IsBlock, IsFile
<1> SUFFICES ASSUME i <= j PROVE FALSE
  BY <1>1, <1>2, SMTT(30)
<1>3. i \in 1 .. Len(f.blocks) /\ i \in BlocksOf(f)
  BY <1>1, <1>2, SMTT(30) DEF BlocksOf
<1>4. CASE i = j
  BY <1>1, <1>2, <1>3, <1>4, SMTT(30) DEF Stuck, MinLen, BlockHdr, PktHdr
<1>5. CASE i < j
  <2>1. /\ f.blocks[i].len >= MinLen(f) /\ Starts(f)[i] + f.blocks[i].len <= Starts(f)[j]
        /\ Starts(f)[i] + MinLen(f) <= Starts(f)[j]
    BY <1>2, <1>3, <1>5, StartsApart, ZenonT(30)
  <2>2. Starts(f)[j] <= f.size /\ Starts(f)[i] \in Nat /\ Starts(f)[j] \in Nat
    BY <1>1, <1>2, <1>3, SMTT(30) DEF PktHdr
  <2>3. f.blocks[i].len \in Nat
    BY <1>3, BlockAt, ZenonT(30) DEF IsBlock
  <2> QED
    <3>1. ~(Starts(f)[i] + MinLen(f) > f.size) /\ ~(Starts(f)[i] + f.blocks[i].len > f.size)
      <4>1. \A a, b, c, d \in Nat : a + b <= c /\ c <= d => ~(a + b > d)
        OBVIOUS
      <4>2. MinLen(f) \in Nat
        BY ZenonT(30) DEF MinLen, BlockHdr, PktHdr
      <4> QED
        BY <1>2, <2>1, <2>2, <2>3, <4>1, <4>2, Zenon
    <3>2. f.format = "ng" => ~(f.blocks[i].len < BlockHdr)
      BY <2>1, <2>3, SMTT(30) DEF MinLen, BlockHdr
    <3> QED
      BY <1>3, <3>1, <3>2, Zenon DEF Stuck
<1> QED
  BY <1>1, <1>2, <1>3, <1>4, <1>5, SMTT(30)

-----------------------------------------------------------------------------
(***************************************************************************)
(* A legacy file: the cursor, and every place where a step that waits for  *)
(* its handler will put it, is where a block of the file starts, or its    *)
(* end.  Nothing a handler does can change this.                           *)
(***************************************************************************)
Offsets == {Starts(mapped)[i] : i \in 1 .. Len(mapped.blocks) + 1}

LegacyInv ==
  usable /\ mapped.format = "pcap" =>
    /\ pos \in Offsets
    /\ \A n \in DOMAIN stack : ~stack[n].ng /\ stack[n].then \in Offsets

\* The packet that a step hands over is the one of the block at the cursor.
LEMMA LegacyAt ==
  ASSUME TypeInv, usable, mapped.format = "pcap", pos \in Offsets,
         NEW b \in BlocksAtCursor, LegacyPacket(b)
  PROVE  \E i \in BlocksOf(mapped) :
           /\ pos = Starts(mapped)[i] /\ b = mapped.blocks[i]
           /\ i \in Playable(mapped) /\ NextLegacy(b) = Starts(mapped)[i + 1]
<1>1. PICK i \in 1 .. Len(mapped.blocks) + 1 : pos = Starts(mapped)[i]
  BY ZenonT(30) DEF Offsets
<1>2. IsFile(mapped) /\ mapped.size = size /\ Len(mapped.blocks) \in Nat
  BY ReadableFile, ZenonT(30)
<1>3. mapped.format # "ng" /\ mapped.format # "other"
  BY ZenonT(30)
<1>4. ~(pos + PktHdr > size) /\ pos \in Nat /\ size \in Nat
  BY ZenonT(30) DEF LegacyPacket, NoRoomFor, TypeInv
<1>5. i # Len(mapped.blocks) + 1
  BY <1>1, <1>2, <1>3, <1>4, ZenonT(30) DEF IsFile, NoTail
<1>6. i \in BlocksOf(mapped)
  BY <1>2, <1>5, SMTT(30) DEF BlocksOf
<1>7. b = mapped.blocks[i]
  BY <1>1, <1>3, <1>6, AtCursor, ZenonT(30) DEF Readable
<1>8. b.type = "packet" /\ b.len = PktHdr + b.cap /\ b.cap \in Nat
  BY <1>2, <1>3, <1>6, <1>7, BlockAt, ZenonT(30) DEF LegacyBlock, IsBlock
<1>9. NextLegacy(b) = Starts(mapped)[i + 1]
  <2>1. Starts(mapped)[i + 1] = Starts(mapped)[i] + b.len
    BY <1>2, <1>6, <1>7, StartsAre, ZenonT(30) DEF BlocksOf
  <2> QED
    <3>1. \A p, c \in Nat : p + (PktHdr + c) = p + PktHdr + c
      BY DEF PktHdr
    <3> QED
      BY <1>1, <1>4, <1>8, <2>1, <3>1, ZenonT(30) DEF NextLegacy
<1>10. i \in Playable(mapped)
  <2>1. Starts(mapped)[i] + PktHdr <= mapped.size
    BY <1>1, <1>2, <1>4, SMTT(30) DEF PktHdr
  <2> QED
    BY <1>3, <1>6, <1>7, <1>8, <2>1, ZenonT(30) DEF Playable, BlocksOf
<1> QED
  BY <1>1, <1>6, <1>7, <1>9, <1>10, ZenonT(30)

LEMMA LegacyKept ==
  ASSUME LegacyInv, UNCHANGED << mapped, pos, stack >>, usable' => usable
  PROVE  LegacyInv'
BY DEF LegacyInv, Offsets

LEMMA LegacyNext ==
  ASSUME TypeInv, LegacyInv, [FileNext]_fileVars
  PROVE  LegacyInv'
<1>1. CASE OpenFails \/ \E f \in Files[opens + 1] : OpenCannotMap(f)
  BY <1>1, ZenonT(30) DEF OpenFails, OpenCannotMap, LegacyInv
<1>2. ASSUME NEW f \in Files[opens + 1], OpenMaps(f) PROVE LegacyInv'
  <2> SUFFICES ASSUME usable', f.format = "pcap" PROVE LegacyInv'
    BY <1>2, ZenonT(30) DEF LegacyInv, OpenMaps
  <2>1. mapped' = f /\ stack' = << >> /\ ReadHeader(f) /\ CanOpen
    BY <1>2, ZenonT(30) DEF OpenMaps, CanOpen
  <2>2. IsFile(f)
    BY <2>1, OpenedIsFile, ZenonT(30)
  <2>3. pos' = FileHdr
    BY <2>1, ZenonT(30) DEF ReadHeader
  <2>4. Starts(f)[1] = FileHdr /\ 1 \in 1 .. Len(f.blocks) + 1
    BY <2>2, StartsAre, SMTT(30) DEF FirstBlock
  <2> QED
    BY <2>1, <2>3, <2>4, SMTT(30) DEF LegacyInv, Offsets
<1>3. CASE Rewind
  <2> SUFFICES ASSUME usable', mapped'.format = "pcap" PROVE LegacyInv'
    BY ZenonT(30) DEF LegacyInv
  <2>1. /\ pos' = Rewound /\ UNCHANGED << mapped, stack, usable, isPcapNg >>
    BY <1>3, ZenonT(30) DEF Rewind, mapping, format
  <2>2. IsFile(mapped) /\ ~isPcapNg
    BY <2>1, ReadableFile, ZenonT(30)
  <2>3. Starts(mapped)[1] = FileHdr /\ 1 \in 1 .. Len(mapped.blocks) + 1 /\ pos' = FileHdr
    BY <2>1, <2>2, StartsAre, SMTT(30) DEF FirstBlock, Rewound
  <2> QED
    BY <2>1, <2>3, ZenonT(30) DEF LegacyInv, Offsets
<1>4. ASSUME NEW b \in BlocksAtCursor, LegacyPacket(b) PROVE LegacyInv'
  <2> SUFFICES ASSUME usable', mapped'.format = "pcap" PROVE LegacyInv'
    BY DEF LegacyInv
  <2>1. /\ stack' = Append(stack, [ng |-> isPcapNg, then |-> NextLegacy(b)]) /\ ~isPcapNg
        /\ UNCHANGED << mapped, pos, usable >>
    BY <1>4, Zenon DEF LegacyPacket, HandOver, mapping
  <2>2. PICK i \in BlocksOf(mapped) : NextLegacy(b) = Starts(mapped)[i + 1]
    BY <1>4, <2>1, LegacyAt, Zenon DEF LegacyInv
  <2>3. IsFile(mapped) /\ i + 1 \in 1 .. Len(mapped.blocks) + 1
    BY <2>1, ReadableFile, SMTT(30) DEF BlocksOf
  <2>4. NextLegacy(b) \in Offsets /\ Offsets' = Offsets
    BY <2>1, <2>2, <2>3, ZenonT(30) DEF Offsets
  <2>5. ASSUME NEW n \in DOMAIN stack' PROVE ~stack'[n].ng /\ stack'[n].then \in Offsets
    <3>1. stack \in Seq([ng : BOOLEAN, then : Nat]) /\ Len(stack) \in Nat
      BY SMTT(30) DEF TypeInv
    <3>2. n \in 1 .. Len(stack) + 1
      BY <2>1, <3>1, SMTT(30)
    <3>3. CASE n = Len(stack) + 1
      BY <2>1, <2>4, <3>1, <3>3, SMTT(30)
    <3>4. CASE n \in 1 .. Len(stack)
      BY <2>1, <2>4, <3>1, <3>4, SMTT(30) DEF LegacyInv
    <3> QED
      BY <3>1, <3>2, <3>3, <3>4, SMTT(30)
  <2> QED
    BY <2>1, <2>4, <2>5, ZenonT(30) DEF LegacyInv
<1>5. CASE HandlerReturns
  <2> SUFFICES ASSUME usable', mapped'.format = "pcap" PROVE LegacyInv'
    BY DEF LegacyInv
  <2>1. /\ stack # << >> /\ stack' = SubSeq(stack, 1, Len(stack) - 1)
        /\ pos' = (IF stack[Len(stack)].ng THEN pos + stack[Len(stack)].then ELSE stack[Len(stack)].then)
        /\ UNCHANGED << mapped, usable >>
    BY <1>5, Zenon DEF HandlerReturns, mapping
  <2>2. PICK s : s = stack
    BY Zenon
  <2>3. s \in Seq([ng : BOOLEAN, then : Nat]) /\ s # << >>
    BY <2>1, <2>2, Zenon DEF TypeInv
  <2>4. PICK k \in Nat : k = Len(s) - 1 /\ k < Len(s) /\ Len(s) \in DOMAIN s
    <3>1. Len(s) - 1 \in Nat /\ Len(s) - 1 < Len(s) /\ Len(s) \in DOMAIN s
      BY <2>3, SMTT(30)
    <3> QED
      BY <3>1, Zenon
  <2>5. \A n \in DOMAIN SubSeq(s, 1, k) : n \in DOMAIN s /\ SubSeq(s, 1, k)[n] = s[n]
    BY <2>3, <2>4, SMTT(30)
  <2>6. stack' = SubSeq(s, 1, k)
    BY <2>1, <2>2, <2>4, Zenon
  <2>7. \A n \in DOMAIN s : ~s[n].ng /\ s[n].then \in Offsets
    BY <2>1, <2>2, Zenon DEF LegacyInv
  <2>8. pos' \in Offsets /\ Offsets' = Offsets
    BY <2>1, <2>2, <2>4, <2>7, Zenon DEF Offsets
  <2> QED
    BY <2>5, <2>6, <2>7, <2>8, Zenon DEF LegacyInv
<1>6. ASSUME NEW b \in BlocksAtCursor, NgSkip(b) PROVE LegacyInv'
  <2>1. isPcapNg /\ usable /\ UNCHANGED mapped
    BY <1>6, ZenonT(30) DEF NgSkip, NgBlock, TypeInv, mapping
  <2>2. mapped'.format = "ng"
    BY <2>1, ReadableFile, ZenonT(30)
  <2> QED
    BY <2>2, ZenonT(30) DEF LegacyInv
<1>7. ASSUME NEW b \in BlocksAtCursor, NgPacket(b) PROVE LegacyInv'
  <2>1. isPcapNg /\ usable /\ UNCHANGED mapped
    BY <1>7, ZenonT(30) DEF NgPacket, NgBlock, HandOver, TypeInv, mapping
  <2>2. mapped'.format = "ng"
    BY <2>1, ReadableFile
  <2> QED
    BY <2>2 DEF LegacyInv
<1>8. CASE Destroy \/ Step \/ LegacyEof \/ NgEof \/ (\E b \in BlocksAtCursor : NgDivideByZero(b))
           \/ UNCHANGED fileVars
  <2>1. UNCHANGED << mapped, pos, stack, usable >>
    BY <1>8, Zenon DEF Destroy, Step, LegacyEof, NgEof, StepEnds, NgDivideByZero, mapping, fileVars
  <2> QED
    BY <2>1, LegacyKept
<1> QED
  BY <1>1, <1>2, <1>3, <1>4, <1>5, <1>6, <1>7, <1>8, ZenonT(30) DEF FileNext, Reading

LEMMA LegacyInvHolds == FileSpec => []LegacyInv
<1>1. FileInit => LegacyInv
  BY DEF FileInit, LegacyInv
<1> QED
  BY <1>1, LegacyNext, TypeInvHolds, PTL DEF FileSpec

-----------------------------------------------------------------------------
(***************************************************************************)
(* Any file, as long as no handler moved the cursor: the cursor is at the  *)
(* i-th block, the packets before it have been handed over, and the table  *)
(* holds the interfaces described before it.                               *)
(***************************************************************************)
Cursor(f, p, i) ==
  /\ i \in 1 .. Len(f.blocks) + 1 /\ p = Starts(f)[i]
  /\ i = Len(f.blocks) + 1 => p + MinLen(f) > f.size

Frame(i) ==
  [ng |-> isPcapNg, then |-> IF isPcapNg THEN mapped.blocks[i].len ELSE Starts(mapped)[i + 1]]

Place(i) ==
  /\ Cursor(mapped, pos, i)
  /\ stack # << >> => i \in Playable(mapped) /\ stack = <<Frame(i)>> /\ pc = "app"
  /\ played = Before(Playable(mapped), IF stack = << >> THEN i ELSE i + 1)

\* The first m entries of the table describe the first m interfaces of the file,
\* with the resolution that the file states if it fits in uint64_t.
Entry(id) ==
  /\ Described(mapped, id).unit \in Nat \ {0}
  /\ interfaces[id].link = Described(mapped, id).link
  /\ Described(mapped, id).unit < Word => interfaces[id].div = Described(mapped, id).unit
Right(m) == \A id \in 0 .. m - 1 : id \in DOMAIN interfaces /\ Entry(id)

AllIdbs == Cardinality(IdbsOf(mapped))

\* The file is read for the first time, or again from the start with a table
\* that has every interface.
Partial(i) ==
  /\ InterfaceCount = IdbsBefore(mapped, i) /\ Right(InterfaceCount)
  /\ pc = "app" /\ stack = << >> /\ InterfacesFirst(mapped) =>
       i = 1 \/ InterfaceCount = AllIdbs

Complete == InterfaceCount >= AllIdbs /\ Right(AllIdbs)

Table(i) ==
  /\ IdbsBefore(mapped, i) <= InterfaceCount
  /\ OwnTable => Partial(i) \/ Complete \/ Playable(mapped) = {}

SteadyInv ==
  ~reentered /\ Readable =>
    \E i \in 1 .. Len(mapped.blocks) + 1 : Place(i) /\ (isPcapNg => Table(i))

LEMMA PlayableFacts ==
  ASSUME NEW f, IsFile(f)
  PROVE  /\ Playable(f) \subseteq BlocksOf(f) /\ Cardinality(Playable(f)) \in Nat
         /\ Before(Playable(f), 1) = 0
         /\ \A i \in Nat :
              /\ Before(Playable(f), i) \in Nat
              /\ Before(Playable(f), i + 1) = Before(Playable(f), i) + (IF i \in Playable(f) THEN 1 ELSE 0)
<1>1. Playable(f) \subseteq BlocksOf(f)
  BY Zenon DEF Playable, BlocksOf
<1> QED
  BY <1>1, CountFacts, Zenon

LEMMA AtFirst ==
  ASSUME NEW f, IsFile(f)
  PROVE  1 \in 1 .. Len(f.blocks) + 1 /\ Cursor(f, FirstBlock(f), 1)
<1>1. Len(f.blocks) \in Nat /\ Starts(f)[1] = FirstBlock(f)
  BY StartsAre, ZenonT(30)
<1>2. 1 = Len(f.blocks) + 1 => FirstBlock(f) + MinLen(f) > f.size
  <2> SUFFICES ASSUME 1 = Len(f.blocks) + 1 PROVE FirstBlock(f) + MinLen(f) > f.size
    OBVIOUS
  <2>1. Len(f.blocks) = 0 /\ Len(f.blocks) + 1 = 1
    BY <1>1
  <2> QED
    BY <1>1, <2>1, SMTT(30) DEF IsFile, NoTail, MinLen
<1> QED
  BY <1>1, <1>2, SMTT(30) DEF Cursor

LEMMA AtNext ==
  ASSUME NEW f, IsFile(f), NEW i \in BlocksOf(f), f.format = "ng" => f.blocks[i].len >= BlockHdr,
         NEW p, Cursor(f, p, i)
  PROVE  /\ i + 1 \in 1 .. Len(f.blocks) + 1 /\ Cursor(f, p + f.blocks[i].len, i + 1)
         /\ Starts(f)[i + 1] = p + f.blocks[i].len
<1>1. Len(f.blocks) \in Nat /\ f.blocks[i].len \in Nat
  BY StartsAre, BlockAt, Zenon DEF IsBlock
<1>2. Starts(f)[i + 1] = p + f.blocks[i].len /\ i + 1 \in 1 .. Len(f.blocks) + 1
  BY BlockNumbers, Zenon DEF Cursor
<1>3. ASSUME i + 1 = Len(f.blocks) + 1 PROVE Starts(f)[i + 1] + MinLen(f) > f.size
  <2>1. i = Len(f.blocks)
    BY <1>1, <1>3, SMTT(30) DEF BlocksOf
  <2>2. NoTail(f)
    BY Zenon DEF IsFile
  <2>3. f.format = "ng" => ~(f.blocks[i].len < BlockHdr)
    BY <1>1 DEF BlockHdr
  <2> QED
    BY <2>1, <2>2, <2>3, ZenonT(30) DEF NoTail, MinLen
<1> QED
  BY <1>2, <1>3, Zenon DEF Cursor

\* Where there is room for a header, the cursor is at a block.
LEMMA Seen ==
  ASSUME TypeInv, Readable, NEW i, Cursor(mapped, pos, i), ~NoRoomFor(MinLen(mapped)),
         NEW b \in BlocksAtCursor
  PROVE  i \in BlocksOf(mapped) /\ b = mapped.blocks[i]
<1>1. IsFile(mapped) /\ mapped.size = size /\ Len(mapped.blocks) \in Nat
  BY ReadableFile DEF Readable
<1>2. i \in 1 .. Len(mapped.blocks) + 1 /\ i # Len(mapped.blocks) + 1
  BY <1>1, Zenon DEF Cursor, NoRoomFor
<1>3. i \in BlocksOf(mapped)
  BY <1>1, <1>2, SMTT(30) DEF BlocksOf
<1>4. BlocksAtCursor = {mapped.blocks[i]}
  BY <1>3, AtCursor, ZenonT(30) DEF Cursor
<1> QED
  BY <1>3, <1>4, Zenon

LEMMA AllBefore ==
  ASSUME NEW f, InterfacesFirst(f), IsFile(f), NEW j \in BlocksOf(f), f.blocks[j].type = "packet",
         NEW i \in Nat, j <= i
  PROVE  IdbsBefore(f, i) = Cardinality(IdbsOf(f))
<1>1. \A k \in IdbsOf(f) : k \in Nat /\ k < j
  BY StartsAre, SMTT(30) DEF InterfacesFirst, IdbsOf, BlocksOf
<1>2. j \in Nat
  BY StartsAre, SMTT(30) DEF BlocksOf
<1>3. \A k \in IdbsOf(f) : k < i
  BY <1>1, <1>2, SMTT(30)
<1>4. {k \in IdbsOf(f) : k < i} = IdbsOf(f)
  BY <1>3, Zenon
<1> QED
  BY <1>4, ZenonT(30) DEF IdbsBefore

LEMMA AllPlayed ==
  ASSUME NEW f, IsFile(f), NEW i \in 1 .. Len(f.blocks) + 1, Stuck(f, i)
  PROVE  Before(Playable(f), i) = Cardinality(Playable(f))
<1>1. \A j \in Playable(f) : j < i
  BY NoneLeft, ZenonT(30)
<1>2. {j \in Playable(f) : j < i} = Playable(f)
  BY <1>1, Zenon
<1> QED
  BY <1>2, Zenon DEF Before

LEMMA TableGrows ==
  ASSUME TypeInv, NEW b, NgSkip(b), b.type = "IDB"
  PROVE  /\ InterfaceCount \in Nat /\ DOMAIN interfaces = 0 .. InterfaceCount - 1
         /\ InterfaceCount' = InterfaceCount + 1 /\ DOMAIN interfaces' = 0 .. InterfaceCount
         /\ interfaces'[InterfaceCount].link = b.link
         /\ interfaces'[InterfaceCount].div \in Divisors(b.options)
         /\ \A id \in 0 .. InterfaceCount - 1 : interfaces'[id] = interfaces[id]
<1>1. InterfaceCount \in Nat /\ DOMAIN interfaces = 0 .. InterfaceCount - 1
  BY DEF TypeInv, TableOK
<1>2. PICK n \in Nat : n = InterfaceCount
  BY <1>1, Zenon
<1>3. PICK div \in Divisors(b.options) :
        interfaces' = [id \in (0 .. n - 1) \cup {n} |->
                         IF id = n THEN [link |-> b.link, div |-> div] ELSE interfaces[id]]
  BY <1>1, <1>2, Zenon DEF NgSkip
<1>4. DOMAIN interfaces' = (0 .. n - 1) \cup {n}
  BY <1>3, Zenon
<1>5. DOMAIN interfaces' = 0 .. n /\ InterfaceCount' = n + 1
  BY <1>4, NewEntry, Zenon DEF InterfaceCount
<1>6. interfaces'[n] = [link |-> b.link, div |-> div]
  BY <1>3, Zenon
<1>7. interfaces'[n].link = b.link /\ interfaces'[n].div \in Divisors(b.options)
  <2>1. PICK r : r = [link |-> b.link, div |-> div]
    BY Zenon
  <2>2. r.link = b.link /\ r.div = div
    BY <2>1
  <2>3. interfaces'[n] = r
    BY <1>6, <2>1, Zenon
  <2> QED
    BY <2>2, <2>3, Zenon
<1>8. \A id \in 0 .. n - 1 : id # n
  OBVIOUS
<1>9. \A id \in 0 .. n - 1 : interfaces'[id] = interfaces[id]
  BY <1>3, <1>8, Zenon
<1> QED
  BY <1>1, <1>2, <1>5, <1>7, <1>9, ZenonT(30)

\* The table says the same when neither it nor the file changes.
LEMMA TableKept ==
  ASSUME NEW i, Table(i), UNCHANGED << mapped, interfaces, ngOpens, rewinds >>,
         pc' = "app" /\ stack' = << >> => pc = "app" /\ stack = << >>
  PROVE  Table(i)'
BY Zenon DEF Table, OwnTable, Partial, Complete, Right, Entry, AllIdbs, InterfaceCount

LEMMA SteadyKept ==
  ASSUME SteadyInv, usable' => usable,
         UNCHANGED << mapped, pos, isPcapNg, interfaces, pc, stack, ngOpens, rewinds, reentered, played >>
  PROVE  SteadyInv'
<1>1. ASSUME NEW i, Table(i) PROVE Table(i)'
  BY <1>1, TableKept, Zenon
<1>2. ASSUME NEW i, Place(i) PROVE Place(i)'
  BY <1>2, Zenon DEF Place, Frame
<1> QED
  BY <1>1, <1>2, Zenon DEF SteadyInv, Readable

LEMMA SteadyOpened ==
  ASSUME TypeInv, SteadyInv, NEW f \in Files[opens + 1], OpenMaps(f)
  PROVE  SteadyInv'
<1>1. /\ CanOpen /\ mapped' = f /\ size' = f.size /\ played' = 0 /\ ReadHeader(f)
      /\ ngOpens' = ngOpens + (IF f.format = "ng" THEN 1 ELSE 0)
      /\ UNCHANGED << interfaces, pc, stack, rewinds, reentered >>
  BY ZenonT(30) DEF OpenMaps
<1>2. IsFile(f) /\ pc = "app" /\ stack = << >>
  BY <1>1, OpenedIsFile, ZenonT(30) DEF CanOpen
<1> SUFFICES ASSUME ~reentered, usable', f.format # "other" PROVE Place(1)' /\ (isPcapNg' => Table(1)')
  <2>1. 1 \in 1 .. Len(f.blocks) + 1
    BY <1>2, AtFirst, ZenonT(30)
  <2> QED
    BY <1>1, <2>1, ZenonT(30) DEF SteadyInv, Readable
<1>3. pos' = FirstBlock(f) /\ (isPcapNg' => f.format = "ng")
  BY <1>1, Zenon DEF ReadHeader, FirstBlock
<1>4. Place(1)'
  <2>1. Cursor(f, pos', 1) /\ Before(Playable(f), 1) = 0
    BY <1>2, <1>3, AtFirst, PlayableFacts, ZenonT(30)
  <2> QED
    BY <1>1, <1>2, <2>1, Zenon DEF Place
<1>5. ASSUME f.format = "ng" PROVE Table(1)'
  <2>1. IdbsBefore(f, 1) = 0 /\ InterfaceCount \in Nat /\ InterfaceCount' = InterfaceCount
    BY <1>1, <1>2, IdbsStep, ZenonT(30) DEF TypeInv, TableOK, InterfaceCount
  <2>2. ASSUME OwnTable' PROVE InterfaceCount' = 0
    <3>1. ngOpens = 0
      BY <1>1, <1>5, <2>2, SMTT(30) DEF OwnTable, TypeInv
    <3>2. interfaces = << >>
      BY <3>1, ZenonT(30) DEF TypeInv
    <3>3. DOMAIN interfaces = {}
      BY <3>2, SMTT(30)
    <3> QED
      BY <2>1, <3>3, FS_EmptySet, ZenonT(30) DEF InterfaceCount
  <2>3. ASSUME OwnTable' PROVE Partial(1)'
    <3>1. InterfaceCount' = 0
      BY <2>2, <2>3, ZenonT(30)
    <3>2. 0 .. 0 - 1 = {}
      OBVIOUS
    <3>3. Right(InterfaceCount)'
      BY <3>1, <3>2, ZenonT(30) DEF Right
    <3> QED
      BY <1>1, <2>1, <3>1, <3>3, ZenonT(30) DEF Partial
  <2>4. (IdbsBefore(mapped, 1) <= InterfaceCount)'
    BY <1>1, <2>1, SMTT(30)
  <2> QED
    BY <2>3, <2>4, Zenon DEF Table
<1> QED
  BY <1>3, <1>4, <1>5, ZenonT(30)

LEMMA SteadyRewound ==
  ASSUME TypeInv, SteadyInv, Rewind
  PROVE  SteadyInv'
<1>1. /\ usable /\ pc = "app" /\ pos' = Rewound /\ played' = 0 /\ rewinds' = rewinds + 1
      /\ reentered' = (reentered \/ stack # << >>)
      /\ UNCHANGED << mapped, isPcapNg, interfaces, pc, stack, usable, ngOpens >>
  BY DEF Rewind, mapping, format
<1>2. CASE reentered' \/ ~Readable
  BY <1>1, <1>2, Zenon DEF SteadyInv, Readable
<1>3. CASE ~reentered' /\ Readable
  <2>1. ~reentered /\ stack = << >>
    BY <1>1, <1>3, Zenon
  <2>2. IsFile(mapped) /\ (isPcapNg <=> mapped.format = "ng")
    BY <1>1, ReadableFile, ZenonT(30)
  <2>3. PICK i \in 1 .. Len(mapped.blocks) + 1 : Place(i) /\ (isPcapNg => Table(i))
    BY <1>3, <2>1, Zenon DEF SteadyInv
  <2>4. pos' = FirstBlock(mapped)
    BY <1>1, <2>2, ZenonT(30) DEF Rewound, FirstBlock
  <2>5. Place(1)'
    <3>1. Cursor(mapped, pos', 1) /\ Before(Playable(mapped), 1) = 0
      BY <2>2, <2>4, AtFirst, PlayableFacts, Zenon
    <3> QED
      BY <1>1, <2>1, <3>1, Zenon DEF Place
  <2>6. ASSUME isPcapNg PROVE Table(1)'
    <3>1. /\ IdbsBefore(mapped, 1) = 0 /\ InterfaceCount \in Nat /\ InterfaceCount' = InterfaceCount
      BY <1>1, <2>2, IdbsStep, ZenonT(30) DEF TypeInv, TableOK, InterfaceCount
    <3>2. ASSUME OwnTable' PROVE Partial(1)' \/ Complete' \/ Playable(mapped)' = {}
      <4>1. InterfacesFirst(mapped) /\ OwnTable
        BY <1>1, <3>2, SMTT(30) DEF OwnTable, TypeInv
      <4>2. Partial(i) \/ Complete \/ Playable(mapped) = {}
        BY <2>3, <2>6, <4>1, Zenon DEF Table
      <4>3. CASE Complete
        BY <1>1, <4>3, Zenon DEF Complete, Right, Entry, AllIdbs, InterfaceCount
      <4>4. CASE Partial(i) /\ i = 1
        BY <1>1, <4>4, Zenon DEF Partial, Right, Entry, AllIdbs, InterfaceCount
      <4>5. CASE Partial(i) /\ InterfaceCount = AllIdbs
        <5>1. InterfaceCount >= AllIdbs /\ Right(AllIdbs)
          BY <3>1, <4>5, SMTT(30) DEF Partial
        <5> QED
          BY <1>1, <5>1, Zenon DEF Complete, Right, Entry, AllIdbs, InterfaceCount
      <4>6. CASE Playable(mapped) = {}
        BY <1>1, <4>6, Zenon
      <4> QED
        BY <1>1, <2>1, <4>1, <4>2, <4>3, <4>4, <4>5, <4>6, ZenonT(30) DEF Partial
    <3>3. (IdbsBefore(mapped, 1) <= InterfaceCount)'
      BY <1>1, <3>1, SMTT(30)
    <3> QED
      BY <3>2, <3>3, ZenonT(30) DEF Table
  <2>7. 1 \in 1 .. Len(mapped.blocks) + 1
    BY <2>2, AtFirst, ZenonT(30)
  <2> QED
    BY <1>1, <2>1, <2>5, <2>6, <2>7, ZenonT(30) DEF SteadyInv
<1> QED
  BY <1>2, <1>3, ZenonT(30)

\* A step begins, or ends the process.
LEMMA SteadyStarted ==
  ASSUME TypeInv, SteadyInv, Step \/ \E b \in BlocksAtCursor : NgDivideByZero(b)
  PROVE  SteadyInv'
<1>1. /\ pc' \in {"step", "crashed"}
      /\ UNCHANGED << mapped, pos, isPcapNg, interfaces, stack, usable, ngOpens, rewinds, played >>
  BY Zenon DEF Step, NgDivideByZero, NgBlock, mapping, format, history
<1> SUFFICES ASSUME ~reentered' PROVE SteadyInv'
  BY Zenon DEF SteadyInv
<1>2. ~reentered /\ (stack = << >> \/ pc = "step")
  <2>1. CASE Step
    <3>1. reentered' = (reentered \/ stack # << >>)
      BY <2>1, Zenon DEF Step
    <3> QED
      BY <3>1, Zenon
  <2>2. CASE \E b \in BlocksAtCursor : NgDivideByZero(b)
    <3>1. reentered' = reentered /\ pc = "step"
      BY <2>2, Zenon DEF NgDivideByZero, NgBlock, history
    <3> QED
      BY <3>1
  <2> QED
    BY <2>1, <2>2, Zenon
<1>3. ASSUME NEW i, Table(i) PROVE Table(i)'
  <2>1. pc' # "app"
    BY <1>1, ZenonT(30)
  <2> QED
    BY <1>1, <1>3, <2>1, TableKept, ZenonT(30)
<1>4. ASSUME NEW i, Place(i) PROVE Place(i)'
  <2>1. stack = << >>
    <3>1. pc = "step" => pc # "app"
      OBVIOUS
    <3> QED
      BY <1>2, <1>4, <3>1, Zenon DEF Place
  <2> QED
    BY <1>1, <1>4, <2>1, Zenon DEF Place
<1> QED
  BY <1>1, <1>2, <1>3, <1>4, ZenonT(30) DEF SteadyInv, Readable

\* A step reports the end only where nothing can follow.
LEMMA StuckAt ==
  ASSUME TypeInv, Readable, NEW i, Cursor(mapped, pos, i), LegacyEof \/ NgEof
  PROVE  Stuck(mapped, i)
<1> SUFFICES ASSUME i \in BlocksOf(mapped) PROVE Stuck(mapped, i)
  BY Zenon DEF Stuck
<1>1. mapped.size = size /\ (isPcapNg <=> mapped.format = "ng") /\ pos = Starts(mapped)[i]
  BY ReadableFile, ZenonT(30) DEF Readable, Cursor
<1>2. CASE LegacyEof \/ (NgEof /\ NoRoomFor(BlockHdr))
  <2>1. Starts(mapped)[i] + MinLen(mapped) > mapped.size
    BY <1>1, <1>2, Zenon DEF LegacyEof, NgEof, NoRoomFor, MinLen
  <2> QED
    BY <2>1, Zenon DEF Stuck
<1>3. CASE NgEof /\ ~NoRoomFor(BlockHdr)
  <2>1. PICK b \in BlocksAtCursor : BadLength(b)
    BY <1>3, ZenonT(30) DEF NgEof
  <2>2. b = mapped.blocks[i]
    BY <1>1, <2>1, AtCursor, SMTT(30)
  <2>3. mapped.format = "ng"
    BY <1>1, <1>3, Zenon DEF NgEof
  <2> QED
    BY <1>1, <2>1, <2>2, <2>3, Zenon DEF Stuck, BadLength, NoRoomFor
<1> QED
  BY <1>2, <1>3, Zenon

LEMMA SteadyEnded ==
  ASSUME TypeInv, SteadyInv, LegacyEof \/ NgEof
  PROVE  SteadyInv'
<1>1. /\ pc = "step" /\ pc' = "app"
      /\ UNCHANGED << mapped, pos, isPcapNg, interfaces, stack, usable, ngOpens, rewinds, reentered, played >>
  BY Zenon DEF LegacyEof, NgEof, StepEnds, mapping, format, history
<1> SUFFICES ASSUME ~reentered PROVE SteadyInv'
  BY <1>1, Zenon DEF SteadyInv
<1>2. ASSUME Readable, NEW i \in 1 .. Len(mapped.blocks) + 1, Place(i) PROVE Place(i)'
  BY <1>1, <1>2, Zenon DEF Place, Frame
<1>3. ASSUME Readable, NEW i \in 1 .. Len(mapped.blocks) + 1, Place(i), Table(i) PROVE Table(i)'
  <2>1. IsFile(mapped) /\ Stuck(mapped, i)
    BY <1>3, ReadableFile, StuckAt, ZenonT(30) DEF Readable, Place
  <2>2. ASSUME Partial(i), InterfacesFirst(mapped), InterfaceCount # AllIdbs PROVE Playable(mapped) = {}
    <3> SUFFICES ASSUME NEW j \in Playable(mapped) PROVE FALSE
      BY Zenon
    <3>1. j < i
      BY <2>1, NoneLeft, ZenonT(30)
    <3>2. j \in BlocksOf(mapped) /\ mapped.blocks[j].type = "packet"
      BY Zenon DEF Playable, BlocksOf
    <3>3. i \in Nat /\ j <= i
      <4>1. i \in Nat /\ j \in Nat
        BY <2>1, <3>2, BlockNumbers, Zenon
      <4> QED
        BY <3>1, <4>1, SMTT(30)
    <3>4. IdbsBefore(mapped, i) = Cardinality(IdbsOf(mapped))
      BY <2>1, <2>2, <3>2, <3>3, AllBefore, ZenonT(30)
    <3> QED
      BY <2>2, <3>4, Zenon DEF Partial, AllIdbs
  <2> QED
    BY <1>1, <1>3, <2>2, ZenonT(30) DEF Table, OwnTable, Partial, Complete, Right, Entry, AllIdbs, InterfaceCount
<1> QED
  BY <1>1, <1>2, <1>3, ZenonT(30) DEF SteadyInv, Readable

\* A packet block that stepPcapNg does not refuse is a packet of the file.
LEMMA PacketAt ==
  ASSUME TypeInv, Readable, isPcapNg, NEW i, Cursor(mapped, pos, i), NEW b \in BlocksAtCursor,
         NgBlock(b), b.type = "packet"
  PROVE  i \in BlocksOf(mapped) /\ b = mapped.blocks[i] /\ i \in Playable(mapped)
<1>1. /\ IsFile(mapped) /\ mapped.size = size /\ mapped.format = "ng"
      /\ pos \in Nat /\ size \in Nat /\ pos = Starts(mapped)[i]
  BY ReadableFile, ZenonT(30) DEF Readable, Cursor, TypeInv
<1>2. ~NoRoomFor(MinLen(mapped)) /\ ~(b.len < BlockHdr) /\ ~(pos + b.len > size)
  BY <1>1, Zenon DEF NgBlock, MinLen, BadLength, NoRoomFor
<1>3. i \in BlocksOf(mapped) /\ b = mapped.blocks[i]
  BY <1>2, Seen, Zenon
<1>4. b.len \in Nat
  BY <1>1, <1>3, BlockAt, Zenon DEF IsBlock
<1>5. b.len >= BlockHdr /\ pos + b.len <= size
  BY <1>1, <1>2, <1>4, SMTT(30) DEF BlockHdr
<1> QED
  BY <1>1, <1>3, <1>5, Zenon DEF Playable, BlocksOf

\* What a step hands over is the packet at the cursor.
LEMMA HandedAt ==
  ASSUME TypeInv, Readable, NEW i, Cursor(mapped, pos, i), NEW b \in BlocksAtCursor,
         LegacyPacket(b) \/ NgPacket(b)
  PROVE  /\ i \in BlocksOf(mapped) /\ b = mapped.blocks[i] /\ i \in Playable(mapped)
         /\ stack' = Append(stack, Frame(i)) /\ pc = "step" /\ pc' = "app"
         /\ played' = (IF reentered THEN 0 ELSE played + 1)
         /\ UNCHANGED << mapped, pos, isPcapNg, interfaces, usable, ngOpens, rewinds, reentered >>
<1>1. /\ IsFile(mapped) /\ mapped.size = size /\ (isPcapNg <=> mapped.format = "ng")
      /\ pos \in Nat /\ size \in Nat /\ pos = Starts(mapped)[i]
  BY ReadableFile, ZenonT(30) DEF Readable, Cursor, TypeInv
<1>2. ~NoRoomFor(MinLen(mapped)) /\ b.type = "packet" /\ pc = "step"
  BY <1>1, ZenonT(30) DEF LegacyPacket, NgPacket, NgBlock, MinLen
<1>3. i \in BlocksOf(mapped) /\ b = mapped.blocks[i]
  BY <1>2, Seen, ZenonT(30)
<1>4. IsBlock(b) /\ (~isPcapNg => b.len = PktHdr + b.cap)
  BY <1>1, <1>3, BlockAt, ZenonT(30) DEF LegacyBlock
<1>5. b.len \in Nat /\ b.cap \in Nat
  BY <1>2, <1>4, ZenonT(30) DEF IsBlock
<1>6. i \in Playable(mapped)
  <2>1. CASE isPcapNg
    <3>1. NgBlock(b)
      BY <2>1, Zenon DEF LegacyPacket, NgPacket
    <3> QED
      BY <1>2, <2>1, <3>1, PacketAt, Zenon
  <2>2. CASE ~isPcapNg
    <3>1. ~(pos + PktHdr > size) /\ mapped.format # "ng"
      BY <1>1, <2>2, Zenon DEF LegacyPacket, NgPacket, NgBlock, NoRoomFor
    <3>2. pos + PktHdr <= size
      BY <1>1, <3>1, SMTT(30) DEF PktHdr
    <3> QED
      BY <1>1, <1>2, <1>3, <3>1, <3>2, ZenonT(30) DEF Playable, BlocksOf
  <2> QED
    BY <2>1, <2>2, Zenon
<1>7. ASSUME ~isPcapNg PROVE NextLegacy(b) = Starts(mapped)[i + 1]
  <2>1. Starts(mapped)[i + 1] = Starts(mapped)[i] + b.len
    BY <1>1, <1>3, StartsAre, Zenon DEF BlocksOf
  <2>2. \A p, c \in Nat : p + (PktHdr + c) = p + PktHdr + c
    BY DEF PktHdr
  <2>3. pos + (PktHdr + b.cap) = pos + PktHdr + b.cap
    BY <1>1, <1>5, <2>2, Zenon
  <2>4. Starts(mapped)[i + 1] = pos + (PktHdr + b.cap)
    BY <1>1, <1>4, <1>7, <2>1, ZenonT(30)
  <2> QED
    BY <2>3, <2>4, Zenon DEF NextLegacy
<1>8. /\ stack' = Append(stack, Frame(i)) /\ pc' = "app"
      /\ played' = (IF reentered THEN 0 ELSE played + 1)
      /\ UNCHANGED << mapped, pos, isPcapNg, interfaces, usable, ngOpens, rewinds, reentered >>
  BY <1>3, <1>7, Zenon DEF LegacyPacket, NgPacket, NgBlock, HandOver, Frame, mapping, format
<1> QED
  BY <1>2, <1>3, <1>6, <1>8, ZenonT(30)

LEMMA SteadyHanded ==
  ASSUME TypeInv, SteadyInv, NEW b \in BlocksAtCursor, LegacyPacket(b) \/ NgPacket(b)
  PROVE  SteadyInv'
<1>1. pc' = "app" /\ UNCHANGED << mapped, interfaces, usable, reentered >>
  BY Zenon DEF LegacyPacket, NgPacket, HandOver, mapping
<1> SUFFICES ASSUME ~reentered, Readable
             PROVE  \E i \in 1 .. Len(mapped.blocks) + 1 : Place(i)' /\ (isPcapNg' => Table(i)')
  BY <1>1, Zenon DEF SteadyInv, Readable
<1>3. PICK i \in 1 .. Len(mapped.blocks) + 1 : Place(i) /\ (isPcapNg => Table(i))
  BY Zenon DEF SteadyInv
<1>4. /\ i \in BlocksOf(mapped) /\ i \in Playable(mapped)
      /\ stack' = Append(stack, Frame(i)) /\ pc = "step"
      /\ played' = played + 1
      /\ UNCHANGED << mapped, pos, isPcapNg, interfaces, usable, ngOpens, rewinds, reentered >>
  <2>1. Cursor(mapped, pos, i)
    BY <1>3, Zenon DEF Place
  <2> QED
    BY <2>1, HandedAt, Zenon
<1>5. stack = << >> /\ played = Before(Playable(mapped), i)
  <2>1. pc # "app"
    BY <1>4, ZenonT(30)
  <2> QED
    BY <1>3, <2>1, ZenonT(30) DEF Place
<1>6. stack' = <<Frame(i)>> /\ stack' # << >>
  BY <1>4, <1>5, SMTT(30)
<1>7. Frame(i)' = Frame(i)
  BY <1>4, ZenonT(30) DEF Frame
<1>8. played' = Before(Playable(mapped), i + 1)
  <2>1. IsFile(mapped) /\ i \in Nat
    BY ReadableFile, SMTT(30) DEF Readable, BlocksOf
  <2> QED
    BY <1>4, <1>5, <2>1, PlayableFacts, ZenonT(30)
<1>9. Place(i)'
  BY <1>1, <1>3, <1>4, <1>6, <1>7, <1>8, ZenonT(30) DEF Place
<1>10. isPcapNg' => Table(i)'
  BY <1>3, <1>4, <1>6, TableKept, ZenonT(30)
<1> QED
  BY <1>9, <1>10, Zenon

\* A block that is no packet, in a table that has the interfaces before it.
LEMMA TableSkipped ==
  ASSUME TypeInv, Readable, NEW i \in BlocksOf(mapped), NEW b, b = mapped.blocks[i], NgSkip(b), Table(i),
         isPcapNg
  PROVE  Table(i + 1)'
<1>1. /\ pc = "step" /\ UNCHANGED << mapped, pc, stack, ngOpens, rewinds >>
  BY Zenon DEF NgSkip, NgBlock, mapping, history
<1>2. IsFile(mapped) /\ mapped.format = "ng" /\ Len(mapped.blocks) \in Nat
  BY ReadableFile DEF Readable
<1>3. /\ InterfaceCount \in Nat /\ DOMAIN interfaces = 0 .. InterfaceCount - 1
      /\ IdbsBefore(mapped, i) \in Nat /\ AllIdbs \in Nat
      /\ IdbsBefore(mapped, i) <= InterfaceCount
      /\ IdbsBefore(mapped, i + 1) = IdbsBefore(mapped, i) + (IF b.type = "IDB" THEN 1 ELSE 0)
  <2>1. i \in 1 .. Len(mapped.blocks) + 1
    BY <1>2, SMTT(30) DEF BlocksOf
  <2>2. InterfaceCount \in Nat /\ DOMAIN interfaces = 0 .. InterfaceCount - 1
    BY ZenonT(30) DEF TypeInv, TableOK
  <2> QED
    BY <1>2, <2>1, <2>2, IdbsStep, ZenonT(30) DEF AllIdbs, Table
<1>4. pc' # "app"
  BY <1>1
<1>5. CASE b.type # "IDB"
  <2>1. UNCHANGED interfaces
    BY <1>5, ZenonT(30) DEF NgSkip
  <2>2. IdbsBefore(mapped, i + 1) = IdbsBefore(mapped, i)
    BY <1>3, <1>5, SMTT(30)
  <2> QED
    BY <1>1, <1>4, <2>1, <2>2, ZenonT(30)
       DEF Table, OwnTable, Partial, Complete, Right, Entry, AllIdbs, InterfaceCount
<1>6. CASE b.type = "IDB"
  <2>1. PICK n \in Nat : n = InterfaceCount
    BY <1>3, Zenon
  <2>2. /\ DOMAIN interfaces = 0 .. n - 1 /\ InterfaceCount' = n + 1 /\ DOMAIN interfaces' = 0 .. n
        /\ interfaces'[n].link = b.link /\ interfaces'[n].div \in Divisors(b.options)
        /\ \A id \in 0 .. n - 1 : interfaces'[id] = interfaces[id]
    BY <1>6, <2>1, TableGrows, Zenon
  <2>3. IdbsBefore(mapped, i + 1) = IdbsBefore(mapped, i) + 1
    BY <1>3, <1>6, Zenon
  <2>4. (IdbsBefore(mapped, i + 1) <= InterfaceCount)'
    <3>1. \A a, c \in Nat : a <= c => a + 1 <= c + 1
      OBVIOUS
    <3>2. IdbsBefore(mapped, i) + 1 <= n + 1
      BY <1>3, <2>1, <3>1, Zenon
    <3> QED
      BY <1>1, <2>2, <2>3, <3>2, ZenonT(30)
  <2>5. \A id \in 0 .. n - 1 : Entry(id) => Entry(id)'
    BY <1>1, <2>2, Zenon DEF Entry
  <2>6. ASSUME NEW m \in Nat, Right(m), m <= n PROVE Right(m)'
    <3>1. \A id \in 0 .. m - 1 : id \in 0 .. n - 1 /\ id \in 0 .. n
      BY <2>6
    <3> QED
      BY <2>2, <2>5, <2>6, <3>1, ZenonT(30) DEF Right
  <2>7. ASSUME Partial(i) PROVE Partial(i + 1)'
    <3>1. n = IdbsBefore(mapped, i) /\ Right(n)'
      <4>1. n <= n
        OBVIOUS
      <4>2. n = IdbsBefore(mapped, i) /\ Right(n)
        BY <2>1, <2>7, Zenon DEF Partial
      <4> QED
        BY <2>6, <4>1, <4>2, Zenon
    <3>2. Entry(n)'
      <4>1. i \in IdbsOf(mapped)
        BY <1>6, Zenon DEF IdbsOf, BlocksOf
      <4>2. Described(mapped, n) = b
        BY <1>2, <3>1, <4>1, DescribedIs, ZenonT(30)
      <4>3. /\ b.unit \in Nat \ {0} /\ UnitIs(b.options, b.unit) /\ DOMAIN b.options \subseteq Nat
            /\ \A o \in DOMAIN b.options : IsOption(b.options[o])
        BY <1>2, <1>6, BlockAt, ZenonT(30) DEF NgBlockAt
      <4>4. b.unit < Word => interfaces'[n].div = b.unit
        BY <2>2, <4>3, DivisorIs, Zenon
      <4> QED
        BY <1>1, <2>2, <4>2, <4>3, <4>4, Zenon DEF Entry
    <3>3. \A id \in 0 .. (n + 1) - 1 : id \in 0 .. n /\ (id = n \/ id \in 0 .. n - 1)
      OBVIOUS
    <3>4. Right(n + 1)'
      BY <2>2, <2>5, <3>1, <3>2, <3>3, ZenonT(30) DEF Right
    <3> QED
      BY <1>1, <1>4, <2>2, <2>3, <3>1, <3>4, ZenonT(30) DEF Partial
  <2>8. ASSUME Complete PROVE Complete'
    <3>1. AllIdbs <= n /\ Right(AllIdbs)
      BY <1>3, <2>1, <2>8, ZenonT(30) DEF Complete
    <3>2. Right(AllIdbs)' /\ AllIdbs' = AllIdbs
      BY <1>1, <1>3, <2>6, <3>1, ZenonT(30) DEF AllIdbs, Right
    <3>3. (InterfaceCount >= AllIdbs)'
      BY <1>3, <2>2, <3>1, <3>2, SMTT(30)
    <3> QED
      BY <3>2, <3>3, ZenonT(30) DEF Complete
  <2>9. OwnTable' = OwnTable /\ Playable(mapped)' = Playable(mapped)
    BY <1>1, Zenon DEF OwnTable
  <2> QED
    BY <2>4, <2>7, <2>8, <2>9, ZenonT(30) DEF Table
<1> QED
  BY <1>5, <1>6, Zenon

LEMMA SteadySkipped ==
  ASSUME TypeInv, SteadyInv, NEW b \in BlocksAtCursor, NgSkip(b)
  PROVE  SteadyInv'
<1>1. /\ pc = "step" /\ isPcapNg /\ usable /\ ~NoRoomFor(BlockHdr) /\ ~BadLength(b)
      /\ b.type # "packet" /\ pos' = pos + b.len
      /\ UNCHANGED << mapped, isPcapNg, pc, stack, usable, ngOpens, rewinds, reentered, played >>
  <2>1. pc = "step" /\ pc # "app"
    BY DEF NgSkip, NgBlock
  <2> QED
    BY <2>1, ZenonT(30) DEF NgSkip, NgBlock, TypeInv, mapping, format, history
<1> SUFFICES ASSUME ~reentered PROVE SteadyInv'
  BY <1>1, ZenonT(30) DEF SteadyInv
<1>2. IsFile(mapped) /\ mapped.format = "ng" /\ Readable
  BY <1>1, ReadableFile, ZenonT(30) DEF Readable
<1>3. PICK i \in 1 .. Len(mapped.blocks) + 1 : Place(i) /\ Table(i)
  BY <1>1, <1>2, Zenon DEF SteadyInv
<1>4. Cursor(mapped, pos, i) /\ stack = << >> /\ played = Before(Playable(mapped), i)
  <2>1. pc # "app"
    BY <1>1, ZenonT(30)
  <2> QED
    BY <1>3, <2>1, ZenonT(30) DEF Place
<1>5. i \in BlocksOf(mapped) /\ b = mapped.blocks[i]
  <2>1. ~NoRoomFor(MinLen(mapped))
    BY <1>1, <1>2, Zenon DEF MinLen
  <2> QED
    BY <1>2, <1>4, <2>1, Seen, Zenon
<1>6. b.len \in Nat /\ b.len >= BlockHdr
  <2>1. b.len \in Nat /\ ~(b.len < BlockHdr)
    BY <1>1, <1>2, <1>5, BlockAt, Zenon DEF IsBlock, BadLength
  <2> QED
    BY <2>1, SMTT(30) DEF BlockHdr
<1>7. i + 1 \in 1 .. Len(mapped.blocks) + 1 /\ Cursor(mapped, pos', i + 1)
  BY <1>1, <1>2, <1>4, <1>5, <1>6, AtNext, ZenonT(30)
<1>8. played = Before(Playable(mapped), i + 1)
  <2>1. i \notin Playable(mapped) /\ i \in Nat
    BY <1>1, <1>2, <1>5, BlockNumbers, Zenon DEF Playable
  <2> QED
    BY <1>2, <1>4, <2>1, PlayableFacts, SMTT(30)
<1>9. Place(i + 1)'
  BY <1>1, <1>4, <1>7, <1>8, Zenon DEF Place
<1>10. Table(i + 1)'
  BY <1>1, <1>2, <1>3, <1>5, TableSkipped, ZenonT(30)
<1> QED
  BY <1>1, <1>7, <1>9, <1>10, ZenonT(30) DEF SteadyInv

LEMMA SteadyReturned ==
  ASSUME TypeInv, SteadyInv, HandlerReturns
  PROVE  SteadyInv'
<1>1. /\ stack # << >> /\ pc = "app" /\ stack' = SubSeq(stack, 1, Len(stack) - 1)
      /\ pos' = (IF stack[Len(stack)].ng THEN pos + stack[Len(stack)].then ELSE stack[Len(stack)].then)
      /\ UNCHANGED << mapped, isPcapNg, interfaces, pc, usable, ngOpens, rewinds, reentered, played >>
  BY Zenon DEF HandlerReturns, mapping, format, history
<1> SUFFICES ASSUME ~reentered PROVE SteadyInv'
  BY <1>1, Zenon DEF SteadyInv
<1>2. CASE ~Readable
  BY <1>1, <1>2, Zenon DEF SteadyInv, Readable
<1>3. CASE Readable
  <2>1. IsFile(mapped) /\ (isPcapNg <=> mapped.format = "ng") /\ Len(mapped.blocks) \in Nat /\ pos \in Nat
    BY <1>3, ReadableFile, ZenonT(30) DEF Readable, TypeInv
  <2>2. PICK i \in 1 .. Len(mapped.blocks) + 1 : Place(i) /\ (isPcapNg => Table(i))
    BY <1>3, Zenon DEF SteadyInv
  <2>3. /\ Cursor(mapped, pos, i) /\ i \in Playable(mapped) /\ stack = <<Frame(i)>>
        /\ played = Before(Playable(mapped), i + 1)
    BY <1>1, <2>2, ZenonT(30) DEF Place
  <2>4. i \in BlocksOf(mapped) /\ mapped.blocks[i].type = "packet" /\ i \in Nat /\ i + 1 \in Nat /\ i <= i + 1
    <3>1. i \in BlocksOf(mapped) /\ mapped.blocks[i].type = "packet"
      BY <2>3, ZenonT(30) DEF Playable, BlocksOf
    <3> QED
      BY <3>1, SMTT(30) DEF BlocksOf
  <2>5. isPcapNg => mapped.blocks[i].len >= BlockHdr
    BY <2>1, <2>3, Zenon DEF Playable
  <2>6. /\ i + 1 \in 1 .. Len(mapped.blocks) + 1
        /\ Cursor(mapped, pos + mapped.blocks[i].len, i + 1)
        /\ Starts(mapped)[i + 1] = pos + mapped.blocks[i].len
    BY <2>1, <2>3, <2>4, <2>5, AtNext, ZenonT(30)
  <2>7. stack[Len(stack)] = Frame(i) /\ stack' = << >>
    <3>1. PICK r : r = Frame(i)
      BY Zenon
    <3>2. <<r>>[Len(<<r>>)] = r /\ SubSeq(<<r>>, 1, Len(<<r>>) - 1) = << >>
      OBVIOUS
    <3> QED
      BY <1>1, <2>3, <3>1, <3>2, Zenon
  <2>8. pos' = pos + mapped.blocks[i].len
    <3>1. Frame(i).ng = isPcapNg /\ Frame(i).then = (IF isPcapNg THEN mapped.blocks[i].len ELSE Starts(mapped)[i + 1])
      BY DEF Frame
    <3> QED
      BY <1>1, <2>6, <2>7, <3>1, ZenonT(30)
  <2>9. Place(i + 1)'
    BY <1>1, <2>3, <2>6, <2>7, <2>8, ZenonT(30) DEF Place
  <2>10. ASSUME isPcapNg PROVE Table(i + 1)'
    <3>1. IdbsBefore(mapped, i + 1) = IdbsBefore(mapped, i)
      <4>1. mapped.blocks[i].type # "IDB" /\ i \in 1 .. Len(mapped.blocks) + 1
        BY <2>1, <2>4, ZenonT(30)
      <4>2. IdbsBefore(mapped, i) \in Nat /\ IdbsBefore(mapped, i + 1) = IdbsBefore(mapped, i) + 0
        BY <2>1, <2>4, <4>1, IdbsStep, Zenon
      <4> QED
        BY <4>2, SMTT(30)
    <3>2. InterfacesFirst(mapped) => IdbsBefore(mapped, i) = AllIdbs
      BY <2>1, <2>4, <3>1, AllBefore, Zenon DEF AllIdbs
    <3> QED
      BY <1>1, <2>2, <2>10, <3>1, <3>2, ZenonT(30)
         DEF Table, OwnTable, Partial, Complete, Right, Entry, AllIdbs, InterfaceCount
  <2> QED
    BY <1>1, <2>6, <2>9, <2>10, ZenonT(30) DEF SteadyInv
<1> QED
  BY <1>2, <1>3, ZenonT(30)

\* The interface of a packet is in the table.
LEMMA TableHas ==
  ASSUME TypeInv, Readable, isPcapNg, NEW i \in BlocksOf(mapped), Table(i),
         mapped.blocks[i].type = "packet"
  PROVE  /\ mapped.blocks[i].ifId \in 0 .. IdbsBefore(mapped, i) - 1
         /\ IdbsBefore(mapped, i) \in Nat /\ IdbsBefore(mapped, i) <= InterfaceCount
         /\ IdbsBefore(mapped, i) <= AllIdbs /\ AllIdbs \in Nat
         /\ mapped.blocks[i].ifId \in DOMAIN interfaces
         /\ Interface(mapped.blocks[i].ifId) = interfaces[mapped.blocks[i].ifId]
<1>1. IsFile(mapped) /\ mapped.format = "ng" /\ Len(mapped.blocks) \in Nat
  BY ReadableFile, ZenonT(30) DEF Readable
<1>2. mapped.blocks[i].ifId \in 0 .. IdbsBefore(mapped, i) - 1
  BY <1>1, BlockAt, Zenon DEF NgBlockAt
<1>3. /\ IdbsBefore(mapped, i) \in Nat /\ IdbsBefore(mapped, i) <= InterfaceCount
      /\ IdbsBefore(mapped, i) <= AllIdbs /\ AllIdbs \in Nat
  <2>1. i \in 1 .. Len(mapped.blocks) + 1
    BY <1>1, SMTT(30) DEF BlocksOf
  <2> QED
    BY <1>1, <2>1, IdbsStep, ZenonT(30) DEF AllIdbs, Table
<1>4. InterfaceCount \in Nat /\ DOMAIN interfaces = 0 .. InterfaceCount - 1
  BY ZenonT(30) DEF TypeInv, TableOK
<1>5. mapped.blocks[i].ifId \in DOMAIN interfaces
  BY <1>2, <1>3, <1>4, SMTT(30)
<1>6. Interface(mapped.blocks[i].ifId) = interfaces[mapped.blocks[i].ifId]
  BY <1>5, Zenon DEF Interface
<1> QED
  BY <1>2, <1>3, <1>5, <1>6, ZenonT(30)

\* In a table that is the file's own, its entry is the one of the file.
LEMMA TableRight ==
  ASSUME TypeInv, Readable, isPcapNg, OwnTable, NEW i \in BlocksOf(mapped), i \in Playable(mapped),
         Table(i)
  PROVE  Entry(mapped.blocks[i].ifId)
<1> DEFINE id == mapped.blocks[i].ifId
<1>1. mapped.blocks[i].type = "packet"
  BY Zenon DEF Playable
<1>2. /\ id \in 0 .. IdbsBefore(mapped, i) - 1
      /\ IdbsBefore(mapped, i) \in Nat /\ IdbsBefore(mapped, i) <= InterfaceCount
      /\ IdbsBefore(mapped, i) <= AllIdbs /\ AllIdbs \in Nat
  BY <1>1, TableHas, Zenon
<1> HIDE DEF id
<1>3. InterfaceCount \in Nat
  BY DEF TypeInv, TableOK
<1>4. id \in 0 .. InterfaceCount - 1 /\ id \in 0 .. AllIdbs - 1
  <2>1. \A k, a, c \in Nat : k <= c /\ a \in 0 .. k - 1 => a \in 0 .. c - 1
    BY SMTT(30)
  <2>2. \A k \in Nat : \A a \in 0 .. k - 1 : a \in Nat
    OBVIOUS
  <2> QED
    BY <1>2, <1>3, <2>1, <2>2, ZenonT(30)
<1>5. Partial(i) \/ Complete
  BY Zenon DEF Table
<1>6. Entry(id)
  BY <1>4, <1>5, ZenonT(30) DEF Partial, Complete, Right
<1> QED
  BY <1>6, Zenon DEF id

LEMMA SteadyInvHolds == FileSpec => []SteadyInv
<1>1. FileInit => SteadyInv
  BY DEF FileInit, SteadyInv, Readable
<1>2. ASSUME TypeInv, SteadyInv, [FileNext]_fileVars PROVE SteadyInv'
  <2>1. CASE OpenFails \/ (\E f \in Files[opens + 1] : OpenCannotMap(f)) \/ Destroy \/ UNCHANGED fileVars
    <3>1. UNCHANGED << mapped, pos, isPcapNg, interfaces, pc, stack, ngOpens, rewinds, reentered, played >>
      BY <2>1, Zenon DEF OpenFails, OpenCannotMap, Destroy, mapping, format, history, fileVars
    <3>2. usable' = FALSE \/ usable' = usable
      BY <2>1, ZenonT(30) DEF OpenFails, OpenCannotMap, Destroy, fileVars
    <3> QED
      BY <1>2, <3>1, <3>2, SteadyKept, SMTT(30)
  <2>2. ASSUME NEW f \in Files[opens + 1], OpenMaps(f) PROVE SteadyInv'
    BY <1>2, <2>2, SteadyOpened, ZenonT(30)
  <2>3. CASE Rewind
    BY <1>2, <2>3, SteadyRewound, ZenonT(30)
  <2>4. CASE Step
    BY <1>2, <2>4, SteadyStarted, ZenonT(30)
  <2>5. CASE LegacyEof \/ NgEof
    BY <1>2, <2>5, SteadyEnded, ZenonT(30)
  <2>6. ASSUME NEW b \in BlocksAtCursor, LegacyPacket(b) \/ NgPacket(b) PROVE SteadyInv'
    BY <1>2, <2>6, SteadyHanded, ZenonT(30)
  <2>7. ASSUME NEW b \in BlocksAtCursor, NgSkip(b) PROVE SteadyInv'
    BY <1>2, <2>7, SteadySkipped, ZenonT(30)
  <2>8. ASSUME NEW b \in BlocksAtCursor, NgDivideByZero(b) PROVE SteadyInv'
    BY <1>2, <2>8, SteadyStarted, Zenon
  <2>9. CASE HandlerReturns
    BY <1>2, <2>9, SteadyReturned, Zenon
  <2> QED
    BY <1>2, <2>1, <2>2, <2>3, <2>4, <2>5, <2>6, <2>7, <2>8, <2>9, ZenonT(30) DEF FileNext, Reading
<1> QED
  BY <1>1, <1>2, TypeInvHolds, PTL DEF FileSpec

\* What is known of the packet whose timestamp is divided by zero.
LEMMA DividedBy ==
  ASSUME TypeInv, SteadyInv, NEW b \in BlocksAtCursor, NgDivideByZero(b), ~reentered
  PROVE  b.type = "packet" /\ b.ifId \in DOMAIN interfaces /\ (OwnTable => ~ResolutionFits(mapped, b))
<1>1. isPcapNg /\ pc # "app" /\ NgBlock(b) /\ b.type = "packet" /\ Interface(b.ifId).div = 0
  BY DEF NgDivideByZero, NgBlock
<1>2. mapped.format = "ng" /\ Readable /\ usable
  BY <1>1, ReadableFile, ZenonT(30) DEF Readable, TypeInv
<1>3. PICK i \in 1 .. Len(mapped.blocks) + 1 : Place(i) /\ Table(i)
  BY <1>1, <1>2, ZenonT(30) DEF SteadyInv
<1>4. i \in BlocksOf(mapped) /\ b = mapped.blocks[i] /\ i \in Playable(mapped)
  BY <1>1, <1>2, <1>3, PacketAt, Zenon DEF Place
<1>5. b.ifId \in DOMAIN interfaces /\ interfaces[b.ifId].div = 0
  BY <1>1, <1>2, <1>3, <1>4, TableHas, Zenon
<1>6. ASSUME OwnTable, ResolutionFits(mapped, b) PROVE FALSE
  <2>1. Entry(b.ifId)
    BY <1>1, <1>2, <1>3, <1>4, <1>6, TableRight, Zenon
  <2>2. Described(mapped, b.ifId).unit # 0 /\ interfaces[b.ifId].div = Described(mapped, b.ifId).unit
    BY <1>6, <2>1, Zenon DEF Entry, ResolutionFits
  <2> QED
    BY <1>5, <2>2, Zenon
<1> QED
  BY <1>1, <1>5, <1>6, Zenon

(***************************************************************************)
(* Every interface described before its packets is in m_interfaces when    *)
(* stepPcapNg reads the packet, whatever was opened, rewound and read      *)
(* before, so a timestamp is divided by zero only when the table holds 0   *)
(* for it: in a table of the file's own only for a resolution that does    *)
(* not fit in uint64_t.                                                    *)
(***************************************************************************)
THEOREM KnownWhenRead == FileSpec => []InterfaceKnown
<1>1. FileInit => InterfaceKnown
  BY DEF FileInit, InterfaceKnown
<1>2. ASSUME TypeInv, SteadyInv, InterfaceKnown, [FileNext]_fileVars PROVE InterfaceKnown'
  <2>1. ASSUME NEW b \in BlocksAtCursor, NgDivideByZero(b) PROVE InterfaceKnown'
    <3>1. UNCHANGED << mapped, pos, swapped, interfaces, ngOpens, rewinds, reentered >>
      BY <2>1, Zenon DEF NgDivideByZero, mapping, format, history
    <3>2. BlocksAtCursor' = BlocksAtCursor /\ OwnTable' = OwnTable
      BY <3>1, Zenon DEF BlocksAtCursor, OwnTable
    <3>3. ResolutionFits(mapped, b)' = ResolutionFits(mapped, b)
      BY <3>1, Zenon DEF ResolutionFits
    <3> SUFFICES ASSUME ~reentered
                 PROVE  /\ b.type = "packet" /\ b.ifId \in DOMAIN interfaces
                        /\ OwnTable => ~ResolutionFits(mapped, b)
      BY <3>1, <3>2, <3>3, Zenon DEF InterfaceKnown
    <3> QED
      BY <1>2, <2>1, DividedBy, Zenon
  <2>2. CASE \/ OpenFails \/ Rewind \/ Destroy \/ Step \/ HandlerReturns \/ LegacyEof \/ NgEof
             \/ \E f \in Files[opens + 1] : OpenCannotMap(f) \/ OpenMaps(f)
             \/ \E b \in BlocksAtCursor : LegacyPacket(b) \/ NgSkip(b) \/ NgPacket(b)
    <3>1. pc' \in {"app", "step"}
      BY <2>2, Zenon DEF OpenFails, Rewind, Destroy, Step, HandlerReturns, LegacyEof, NgEof, StepEnds,
           OpenCannotMap, OpenMaps, CanOpen, LegacyPacket, NgSkip, NgPacket, NgBlock, HandOver
    <3>2. pc' # "crashed"
      BY <3>1
    <3> QED
      BY <3>2, Zenon DEF InterfaceKnown
  <2>3. CASE UNCHANGED fileVars
    BY <1>2, <2>3, Zenon DEF fileVars, mapping, format, history, InterfaceKnown, BlocksAtCursor, OwnTable,
         ResolutionFits
  <2> QED
    BY <1>2, <2>1, <2>2, <2>3, ZenonT(30) DEF FileNext, Reading
<1> QED
  BY <1>1, <1>2, TypeInvHolds, SteadyInvHolds, PTL DEF FileSpec

(***************************************************************************)
(* Between two calls of step() the cursor is where a block of the file     *)
(* starts, or at its end, also when a handler of internalStep steps or     *)
(* rewinds.                                                                *)
(***************************************************************************)
THEOREM AtBlocks == FileSpec => []CursorAtBlock
<1>1. TypeInv /\ SteadyInv /\ LegacyInv => CursorAtBlock
  <2> SUFFICES ASSUME TypeInv, SteadyInv, LegacyInv, usable, mapped.format # "other",
                      isPcapNg => ~reentered
               PROVE  \E i \in DOMAIN Starts(mapped) : pos = Starts(mapped)[i]
    BY ZenonT(30) DEF CursorAtBlock
  <2>1. /\ DOMAIN Starts(mapped) = 1 .. Len(mapped.blocks) + 1 /\ (isPcapNg <=> mapped.format = "ng")
        /\ mapped.format \in {"pcap", "ng", "other"}
    BY ReadableFile, StartsAre, ZenonT(30)
  <2>2. CASE isPcapNg
    BY <2>1, <2>2, Zenon DEF SteadyInv, Readable, Place, Cursor
  <2>3. CASE ~isPcapNg
    <3>1. mapped.format = "pcap"
      BY <2>1, <2>3, ZenonT(30)
    <3>2. pos \in Offsets
      BY <3>1, Zenon DEF LegacyInv
    <3> QED
      BY <2>1, <3>2, Zenon DEF Offsets
  <2> QED
    BY <2>2, <2>3, ZenonT(30)
<1> QED
  BY <1>1, TypeInvHolds, SteadyInvHolds, LegacyInvHolds, PTL

(***************************************************************************)
(* Between two calls of rewind() no packet is left out and none is played  *)
(* twice: step() hands over the next one or, when it reports the end, has  *)
(* handed over all of them.                                                *)
(***************************************************************************)
THEOREM EveryPacketOnce == FileSpec => NextPacketOrEnd
<1> DEFINE A == pc = "step" /\ pc' = "app" /\ Known /\ ~reentered =>
                  IF stack' # stack
                  THEN LET i == CHOOSE i \in 1 .. Len(mapped.blocks) : Starts(mapped)[i] = pos
                       IN  /\ i \in Playable(mapped)
                           /\ played = Cardinality({j \in Playable(mapped) : j < i})
                  ELSE played = Cardinality(Playable(mapped))
<1>1. ASSUME TypeInv, SteadyInv, [FileNext]_fileVars PROVE A
  <2> SUFFICES ASSUME pc = "step", pc' = "app", Known, ~reentered PROVE A
    BY ZenonT(30)
  <2>1. Readable /\ pc # "app" /\ usable
    BY <1>1, ZenonT(30) DEF TypeInv, Known, Readable
  <2>2. IsFile(mapped) /\ Len(mapped.blocks) \in Nat
    BY <1>1, <2>1, ReadableFile, ZenonT(30)
  <2>3. PICK i \in 1 .. Len(mapped.blocks) + 1 : Place(i)
    BY <1>1, <2>1, Zenon DEF SteadyInv
  <2>4. Cursor(mapped, pos, i) /\ stack = << >> /\ played = Before(Playable(mapped), i)
    BY <2>1, <2>3, Zenon DEF Place
  <2>5. CASE LegacyEof \/ NgEof
    <3>1. Stuck(mapped, i) /\ stack' = stack
      BY <1>1, <2>1, <2>4, <2>5, StuckAt, ZenonT(30) DEF LegacyEof, NgEof, StepEnds
    <3>2. played = Cardinality(Playable(mapped))
      BY <2>2, <2>4, <3>1, AllPlayed, ZenonT(30)
    <3> QED
      BY <3>1, <3>2, Zenon
  <2>6. ASSUME NEW b \in BlocksAtCursor, LegacyPacket(b) \/ NgPacket(b) PROVE A
    <3>1. i \in BlocksOf(mapped) /\ i \in Playable(mapped) /\ stack' = Append(stack, Frame(i))
      BY <1>1, <2>1, <2>4, <2>6, HandedAt, ZenonT(30)
    <3>2. stack' # stack
      BY <2>4, <3>1, SMTT(30)
    <3>3. \A k \in 1 .. Len(mapped.blocks) : Starts(mapped)[k] = pos => k = i
      BY <2>2, <2>4, <3>1, StartsOnce, ZenonT(30) DEF Cursor, BlocksOf
    <3>4. i \in 1 .. Len(mapped.blocks) /\ Starts(mapped)[i] = pos
      BY <2>4, <3>1, Zenon DEF Cursor, BlocksOf
    <3>5. (CHOOSE k \in 1 .. Len(mapped.blocks) : Starts(mapped)[k] = pos) = i
      BY <3>3, <3>4, Zenon
    <3>6. played = Cardinality({j \in Playable(mapped) : j < i})
      BY <2>4, Zenon DEF Before
    <3> QED
      BY <3>1, <3>2, <3>5, <3>6, ZenonT(30)
  <2>7. CASE ~(LegacyEof \/ NgEof \/ \E b \in BlocksAtCursor : LegacyPacket(b) \/ NgPacket(b))
    <3>1. FALSE
      BY <1>1, <2>1, <2>7, ZenonT(30) DEF FileNext, Reading, OpenFails, OpenCannotMap, OpenMaps, CanOpen, Rewind,
         Destroy, Step, HandlerReturns, NgSkip, NgDivideByZero, NgBlock, fileVars
    <3> QED
      BY <3>1, ZenonT(30)
  <2> QED
    BY <2>5, <2>6, <2>7, ZenonT(30)
<1>2. TypeInv /\ SteadyInv /\ [FileNext]_fileVars => [A]_fileVars
  BY <1>1
<1> QED
  BY <1>2, TypeInvHolds, SteadyInvHolds, PTL DEF FileSpec, NextPacketOrEnd

\* A step that reads on has moved the cursor by a block header at least, and not
\* behind the end of the mapping.
ReadsOn == pc = "step" /\ pc' = "step" => pos' >= pos + BlockHdr /\ pos' <= size /\ size' = size

(***************************************************************************)
(* The measure behind StepReturns: the loop of stepPcapNg takes at most    *)
(* size / 8 rounds, whatever lengths the blocks state and wherever a       *)
(* handler has left the cursor, for a length below the header's or past    *)
(* the end stops it.                                                       *)
(***************************************************************************)
THEOREM StepAdvances == FileSpec => [][ReadsOn]_fileVars
<1>1. ASSUME TypeInv, [FileNext]_fileVars, ~ UNCHANGED fileVars, pc = "step", pc' = "step"
      PROVE  pos' >= pos + BlockHdr /\ pos' <= size /\ size' = size
  <2>1. PICK b \in BlocksAtCursor : NgSkip(b)
    BY <1>1, Zenon DEF FileNext, Reading, OpenFails, OpenCannotMap, OpenMaps, CanOpen, Rewind,
         Destroy, Step, HandlerReturns, LegacyEof, NgEof, StepEnds, LegacyPacket, NgPacket,
         HandOver, NgDivideByZero
  <2>2. b.len \in Nat
    BY <1>1, SeenBlocks, Zenon DEF IsBlock
  <2>3. ~BadLength(b) /\ pos' = pos + b.len /\ size' = size
    BY <2>1, Zenon DEF NgSkip, NgBlock, mapping
  <2>4. pos \in Nat /\ size \in Nat
    BY <1>1 DEF TypeInv
  <2>5. ~(b.len < BlockHdr) /\ ~(pos + b.len > size)
    BY <2>3, Zenon DEF BadLength, NoRoomFor
  <2> QED
    BY <2>2, <2>3, <2>4, <2>5, SMTT(30) DEF BlockHdr
<1>2. TypeInv /\ [FileNext]_fileVars => [ReadsOn]_fileVars
  BY <1>1, Zenon DEF ReadsOn
<1> QED
  BY <1>2, TypeInvHolds, PTL DEF FileSpec

-----------------------------------------------------------------------------
(***************************************************************************)
(* The packet that a handler was given is one of the file: its bytes are   *)
(* those of the block, and its fields what the file says.                  *)
(***************************************************************************)
HeaderOf == IF isPcapNg THEN BlockHdr + EpbBody ELSE PktHdr

Handed(i) ==
  /\ i \in Playable(mapped) /\ out.at = Starts(mapped)[i]
  /\ out.to = out.at + HeaderOf + mapped.blocks[i].cap
  /\ Known => Captured(mapped, mapped.blocks[i])

OutInv ==
  out # NoPacket /\ Readable /\ (isPcapNg => ~reentered) => \E i \in BlocksOf(mapped) : Handed(i)

LEMMA OutKept ==
  ASSUME OutInv, UNCHANGED << out, mapped, isPcapNg >>, usable' => usable,
         isPcapNg /\ ~reentered' => out = NoPacket \/ UNCHANGED << ngOpens, rewinds, reentered >>
  PROVE  OutInv'
<1> SUFFICES ASSUME out # NoPacket, Readable', isPcapNg => ~reentered'
             PROVE  \E i \in BlocksOf(mapped) : Handed(i)'
  BY Zenon DEF OutInv
<1>1. PICK i \in BlocksOf(mapped) : Handed(i)
  BY Zenon DEF OutInv, Readable
<1>2. Known' => Known
  BY Zenon DEF Known, OwnTable
<1>3. Handed(i)'
  BY <1>1, <1>2, Zenon DEF Handed, HeaderOf, Captured
<1> QED
  BY <1>3, Zenon

\* The fields of a legacy packet.
LEMMA LegacyCaptured ==
  ASSUME TypeInv, usable, mapped.format = "pcap", NEW i \in BlocksOf(mapped), NEW b, b = mapped.blocks[i],
         LegacyPacket(b)
  PROVE  Captured(mapped, b)'
<1>1. IsFile(mapped) /\ linkType = mapped.link
  BY ReadableFile, ZenonT(30)
<1>2. nano = mapped.nano /\ mapped.nano \in BOOLEAN /\ mapped.format # "ng"
  BY <1>1, ZenonT(30) DEF TypeInv, FormatOK, IsFile
<1>3. LegacyBlock(mapped, b)
  BY <1>1, <1>2, BlockAt, ZenonT(30)
<1>4. PICK t : t = LegacyTime(b.sec, b.frac)
  BY Zenon
<1>5. /\ t.nsec \in 0 .. NsPerSec - 1
      /\ t.sec * NsPerSec + t.nsec = b.sec * NsPerSec + b.frac * (IF mapped.nano THEN 1 ELSE NsPerSec \div UsPerSec)
  BY <1>2, <1>3, <1>4, LegacyExact, ZenonT(30)
<1>6. /\ out' = [at |-> pos, time |-> t, link |-> linkType, caplen |-> b.cap,
                 len |-> b.orig, from |-> pos + PktHdr, to |-> pos + PktHdr + b.cap]
      /\ mapped' = mapped
  BY <1>4, Zenon DEF LegacyPacket, HandOver, mapping
<1>7. out'.link = linkType /\ out'.caplen = b.cap /\ out'.len = b.orig /\ out'.time = t
  BY <1>6, Zenon
<1> QED
  BY <1>1, <1>2, <1>5, <1>6, <1>7, ZenonT(30) DEF Captured, LinkOf, Nanoseconds

\* The fields of a pcapng packet, with a table that is the file's own.
LEMMA NgCaptured ==
  ASSUME TypeInv, SteadyInv, ~reentered, Readable, isPcapNg, OwnTable, NEW i \in BlocksOf(mapped),
         i \in Playable(mapped), Table(i), NEW b, b = mapped.blocks[i], NgPacket(b)
  PROVE  Captured(mapped, b)'
<1>1. IsFile(mapped) /\ mapped.format = "ng"
  BY ReadableFile, ZenonT(30) DEF Readable
<1>2. b.type = "packet"
  BY DEF NgPacket
<1>3. Interface(b.ifId) = interfaces[b.ifId]
  BY <1>2, TableHas, Zenon
<1>4. Entry(b.ifId)
  BY TableRight, Zenon
<1>5. PICK d : d = Described(mapped, b.ifId)
  BY ZenonT(30)
<1>6. PICK r : r = Interface(b.ifId).div
  BY ZenonT(30)
<1>7. /\ d.unit \in Nat \ {0} /\ b.raw \in Nat /\ Interface(b.ifId).link = d.link
      /\ d.unit < Word => r = d.unit
  BY <1>1, <1>2, <1>3, <1>4, <1>5, <1>6, BlockAt, ZenonT(30) DEF Entry, NgBlockAt
<1>8. PICK t : t = Timespec(b.raw, r)
  BY ZenonT(30)
<1>9. ASSUME d.unit <= Word \div NsPerSec
      PROVE  t.nsec \in 0 .. NsPerSec - 1 /\ t.sec * NsPerSec + t.nsec = (b.raw * NsPerSec) \div d.unit
  <2>1. d.unit < Word
    <3>1. PICK q : q = Word \div NsPerSec
      BY Zenon
    <3>2. q \in Nat /\ q < Word
      BY <3>1, UnitsAssumption, SMTT(30)
    <3>3. d.unit <= q /\ d.unit \in Nat /\ Word \in Nat
      BY <1>7, <1>9, <3>1, UnitsAssumption, Zenon
    <3> QED
      BY <3>2, <3>3
  <2>2. t = Timespec(b.raw, d.unit)
    BY <1>7, <1>8, <2>1, Zenon
  <2> QED
    BY <1>7, <1>9, <2>2, TimespecExact, Zenon
<1>10. /\ out' = [at |-> pos, time |-> t, link |-> d.link, caplen |-> b.cap, len |-> b.orig,
                  from |-> pos + BlockHdr + EpbBody, to |-> pos + BlockHdr + EpbBody + b.cap]
       /\ mapped' = mapped
  BY <1>6, <1>7, <1>8, Zenon DEF NgPacket, HandOver, mapping
<1>11. out'.link = d.link /\ out'.caplen = b.cap /\ out'.len = b.orig /\ out'.time = t
  BY <1>10, Zenon
<1> QED
  BY <1>1, <1>5, <1>9, <1>10, <1>11, ZenonT(30) DEF Captured, LinkOf, Nanoseconds, UnitFits

LEMMA OutHanded ==
  ASSUME TypeInv, SteadyInv, LegacyInv, NEW b \in BlocksAtCursor, LegacyPacket(b) \/ NgPacket(b)
  PROVE  OutInv'
<1>1. UNCHANGED << mapped, isPcapNg, usable, ngOpens, rewinds, reentered, pos >>
  BY Zenon DEF LegacyPacket, NgPacket, HandOver, mapping, format
<1> SUFFICES ASSUME Readable, isPcapNg => ~reentered
             PROVE  \E i \in BlocksOf(mapped) : Handed(i)'
  BY <1>1, ZenonT(30) DEF OutInv, Readable
<1>2. /\ IsFile(mapped) /\ (isPcapNg <=> mapped.format = "ng") /\ mapped.format \in {"pcap", "ng", "other"}
      /\ mapped.format # "other" /\ usable /\ Len(mapped.blocks) \in Nat
  BY ReadableFile, ZenonT(30) DEF Readable
<1>3. PICK i \in 1 .. Len(mapped.blocks) + 1 : Cursor(mapped, pos, i) /\ (isPcapNg => Table(i))
  <2>1. CASE isPcapNg
    BY <2>1, Zenon DEF SteadyInv, Place
  <2>2. CASE ~isPcapNg
    <3>1. mapped.format = "pcap" /\ mapped.format # "ng"
      BY <1>2, <2>2, ZenonT(30)
    <3>2. PICK i \in 1 .. Len(mapped.blocks) + 1 : pos = Starts(mapped)[i]
      BY <1>2, <3>1, Zenon DEF LegacyInv, Offsets
    <3>3. Starts(mapped)[Len(mapped.blocks) + 1] + MinLen(mapped) > mapped.size
      BY <1>2, <3>1, ZenonT(30) DEF IsFile, NoTail, MinLen
    <3> QED
      BY <2>2, <3>2, <3>3, ZenonT(30) DEF Cursor
  <2> QED
    BY <2>1, <2>2, ZenonT(30)
<1>4. i \in BlocksOf(mapped) /\ b = mapped.blocks[i] /\ i \in Playable(mapped)
  BY <1>3, HandedAt, ZenonT(30)
<1>5. out'.at = pos /\ out'.to = pos + HeaderOf + b.cap
  <2>1. pos \in Nat /\ b.cap \in Nat
    <3>1. b.type = "packet" /\ IsBlock(b)
      BY <1>2, <1>4, BlockAt, ZenonT(30) DEF Playable
    <3> QED
      BY <3>1, ZenonT(30) DEF IsBlock, TypeInv
  <2>2. CASE LegacyPacket(b)
    BY <2>1, <2>2, ZenonT(30) DEF LegacyPacket, HandOver, HeaderOf
  <2>3. CASE NgPacket(b)
    <3>1. isPcapNg /\ out'.at = pos /\ out'.to = pos + BlockHdr + EpbBody + b.cap
      BY <2>3, ZenonT(30) DEF NgPacket, NgBlock, HandOver
    <3>2. \A p, c \in Nat : p + BlockHdr + EpbBody + c = p + (BlockHdr + EpbBody) + c
      BY SMTT(30) DEF BlockHdr, EpbBody
    <3> QED
      BY <2>1, <3>1, <3>2, ZenonT(30) DEF HeaderOf
  <2> QED
    BY <2>2, <2>3, ZenonT(30)
<1>6. ASSUME Known PROVE Captured(mapped, b)'
  <2>1. CASE LegacyPacket(b)
    <3>1. mapped.format = "pcap"
      BY <1>2, <2>1, ZenonT(30) DEF LegacyPacket
    <3> QED
      BY <1>2, <1>4, <2>1, <3>1, LegacyCaptured, ZenonT(30)
  <2>2. CASE NgPacket(b)
    <3>1. isPcapNg /\ OwnTable
      BY <1>6, <2>2, Zenon DEF NgPacket, NgBlock, Known
    <3> QED
      BY <1>3, <1>4, <2>2, <3>1, NgCaptured, ZenonT(30)
  <2> QED
    BY <2>1, <2>2, ZenonT(30)
<1>7. Known' = Known /\ HeaderOf' = HeaderOf
  BY <1>1, Zenon DEF Known, OwnTable, HeaderOf
<1>8. Captured(mapped, mapped.blocks[i])' <=> Captured(mapped, b)'
  BY <1>1, <1>4, Zenon DEF Captured
<1>9. pos = Starts(mapped)[i]
  BY <1>3, Zenon DEF Cursor
<1>10. Handed(i)'
  BY <1>1, <1>4, <1>5, <1>6, <1>7, <1>8, <1>9, ZenonT(30) DEF Handed
<1> QED
  BY <1>4, <1>10, Zenon

LEMMA OutInvHolds == FileSpec => []OutInv
<1>1. FileInit => OutInv
  BY DEF FileInit, OutInv
<1>2. ASSUME TypeInv, SteadyInv, LegacyInv, OutInv, [FileNext]_fileVars PROVE OutInv'
  <2>1. CASE \/ OpenFails \/ Destroy
             \/ \E f \in Files[opens + 1] : OpenCannotMap(f) \/ OpenMaps(f)
    <3>1. stack = << >> /\ UNCHANGED out
      BY <2>1, Zenon DEF OpenFails, OpenCannotMap, OpenMaps, CanOpen, Destroy
    <3>2. out' = NoPacket
      BY <1>2, <3>1, Zenon DEF TypeInv
    <3> QED
      BY <3>2, Zenon DEF OutInv
  <2>2. CASE HandlerReturns
    BY <2>2, ZenonT(30) DEF HandlerReturns, OutInv
  <2>3. CASE Rewind \/ Step
    <3>1. reentered' = (reentered \/ stack # << >>) /\ UNCHANGED << out, mapped, isPcapNg, usable >>
      BY <2>3, Zenon DEF Rewind, Step, mapping, format
    <3>2. ~reentered' => out = NoPacket
      BY <1>2, <3>1, Zenon DEF TypeInv
    <3> QED
      BY <1>2, <3>1, <3>2, OutKept, ZenonT(30)
  <2>4. ASSUME NEW b \in BlocksAtCursor, LegacyPacket(b) \/ NgPacket(b) PROVE OutInv'
    BY <1>2, <2>4, OutHanded, ZenonT(30)
  <2>5. CASE \/ LegacyEof \/ NgEof \/ UNCHANGED fileVars
             \/ \E b \in BlocksAtCursor : NgSkip(b) \/ NgDivideByZero(b)
    <3>1. UNCHANGED << out, mapped, isPcapNg, usable, ngOpens, rewinds, reentered >>
      BY <2>5, ZenonT(30) DEF LegacyEof, NgEof, StepEnds, NgSkip, NgDivideByZero, mapping, format, history, fileVars
    <3> QED
      BY <1>2, <3>1, OutKept, ZenonT(30)
  <2> QED
    BY <1>2, <2>1, <2>2, <2>3, <2>4, <2>5, ZenonT(30) DEF FileNext, Reading
<1> QED
  BY <1>1, <1>2, TypeInvHolds, SteadyInvHolds, LegacyInvHolds, PTL DEF FileSpec

\* The step whose handler has the packet is the last one on the stack, and its
\* block ends inside the file.
InsideInv ==
  /\ out # NoPacket /\ isPcapNg
  /\ BlockHdr + EpbBody + out.caplen <= stack[Len(stack)].then
  => out.to <= size

LEMMA InsideHanded ==
  ASSUME TypeInv, NEW b \in BlocksAtCursor, NgPacket(b)
  PROVE  InsideInv'
<1>1. /\ ~(b.len < BlockHdr) /\ ~(pos + b.len > size) /\ b.type = "packet" /\ pos \in Nat /\ size \in Nat
      /\ stack \in Seq([ng : BOOLEAN, then : Nat])
  BY Zenon DEF NgPacket, NgBlock, BadLength, NoRoomFor, TypeInv
<1>2. b.len \in Nat /\ b.cap \in Nat
  BY <1>1, SeenBlocks, Zenon DEF IsBlock
<1>3. PICK r : r = [ng |-> isPcapNg, then |-> b.len]
  BY Zenon
<1>4. /\ stack' = Append(stack, r) /\ size' = size
      /\ out'.caplen = b.cap /\ out'.to = pos + BlockHdr + EpbBody + b.cap
  BY <1>3, Zenon DEF NgPacket, HandOver, mapping
<1>5. stack'[Len(stack')] = r
  BY <1>1, <1>4, SMTT(30)
<1>6. stack'[Len(stack')].then = b.len
  <2>1. r.then = b.len
    BY <1>3
  <2> QED
    BY <1>5, <2>1, Zenon
<1>7. BlockHdr + EpbBody + b.cap <= b.len => pos + BlockHdr + EpbBody + b.cap <= size
  BY <1>1, <1>2, SMTT(30) DEF BlockHdr, EpbBody
<1> QED
  BY <1>4, <1>6, <1>7, Zenon DEF InsideInv

LEMMA InsideInvHolds == FileSpec => []InsideInv
<1>1. FileInit => InsideInv
  BY DEF FileInit, InsideInv
<1>2. ASSUME TypeInv, InsideInv, [FileNext]_fileVars PROVE InsideInv'
  <2>1. CASE \/ OpenFails \/ Destroy
             \/ \E f \in Files[opens + 1] : OpenCannotMap(f) \/ OpenMaps(f)
    <3>1. stack = << >> /\ UNCHANGED out
      BY <2>1, Zenon DEF OpenFails, OpenCannotMap, OpenMaps, CanOpen, Destroy
    <3>2. out' = NoPacket
      BY <1>2, <3>1, Zenon DEF TypeInv
    <3> QED
      BY <3>2, Zenon DEF InsideInv
  <2>2. CASE HandlerReturns
    BY <2>2, Zenon DEF HandlerReturns, InsideInv
  <2>3. ASSUME NEW b \in BlocksAtCursor, LegacyPacket(b) PROVE InsideInv'
    BY <2>3, Zenon DEF LegacyPacket, HandOver, format, InsideInv
  <2>4. ASSUME NEW b \in BlocksAtCursor, NgPacket(b) PROVE InsideInv'
    BY <1>2, <2>4, InsideHanded, Zenon
  <2>5. CASE \/ Rewind \/ Step \/ LegacyEof \/ NgEof \/ UNCHANGED fileVars
             \/ \E b \in BlocksAtCursor : NgSkip(b) \/ NgDivideByZero(b)
    <3>1. UNCHANGED << out, isPcapNg, stack, size >>
      BY <2>5, ZenonT(30) DEF Rewind, Step, LegacyEof, NgEof, StepEnds, NgSkip, NgDivideByZero, mapping,
           format, fileVars
    <3> QED
      BY <1>2, <3>1, Zenon DEF InsideInv
  <2> QED
    BY <1>2, <2>1, <2>2, <2>3, <2>4, <2>5, ZenonT(30) DEF FileNext, Reading
<1> QED
  BY <1>1, <1>2, TypeInvHolds, PTL DEF FileSpec

(***************************************************************************)
(* The bytes that stepPcapNg gives to a handler lie inside the mapping,    *)
(* wherever the file is cut off and the cursor was moved to, if the        *)
(* captured length of the packet fits in its block; those that             *)
(* internalStep gives do, if the file is not cut off in the data of a      *)
(* packet.  The code checks neither condition.                             *)
(***************************************************************************)
THEOREM InsideFile == FileSpec => []ReadsInsideFile
<1>1. TypeInv /\ OutInv /\ InsideInv => ReadsInsideFile
  <2> SUFFICES ASSUME TypeInv, OutInv, out # NoPacket, ~isPcapNg, mapped.format = "pcap",
                      DataComplete(mapped)
               PROVE  out.to <= size
    BY Zenon DEF ReadsInsideFile, InsideInv
  <2>1. usable /\ Readable /\ mapped.format # "ng"
    <3>1. mapped.format # "other" /\ mapped.format # "ng"
      OBVIOUS
    <3> QED
      BY <3>1, Zenon DEF TypeInv, Readable
  <2>2. PICK i \in BlocksOf(mapped) : Handed(i)
    BY <2>1, ZenonT(30) DEF OutInv
  <2>3. IsFile(mapped) /\ mapped.size = size
    BY <2>1, ReadableFile, ZenonT(30)
  <2>4. PICK b : b = mapped.blocks[i]
    BY Zenon
  <2>5. i \in Playable(mapped) /\ out.to = Starts(mapped)[i] + PktHdr + b.cap /\ b.type = "packet"
    BY <2>2, <2>4, Zenon DEF Handed, HeaderOf, Playable
  <2>6. b.len = PktHdr + b.cap /\ b.cap \in Nat
    BY <2>1, <2>3, <2>4, <2>5, BlockAt, ZenonT(30) DEF LegacyBlock, IsBlock
  <2>7. Starts(mapped)[i] \in Nat
    BY <2>3, BlockNumbers, Zenon
  <2>8. Starts(mapped)[i] + (PktHdr + b.cap) <= size
    BY <2>3, <2>4, <2>5, <2>6, ZenonT(30) DEF DataComplete
  <2>9. \A s, c \in Nat : s + (PktHdr + c) = s + PktHdr + c
    BY DEF PktHdr
  <2>10. Starts(mapped)[i] + PktHdr + b.cap <= size
    BY <2>6, <2>7, <2>8, <2>9, Zenon
  <2> QED
    BY <2>5, <2>10, Zenon
<1> QED
  BY <1>1, TypeInvHolds, OutInvHolds, InsideInvHolds, PTL

(***************************************************************************)
(* A handler is given the packet as the file describes it: its lengths,    *)
(* its link layer and, from any resolution that does not overflow          *)
(* uint64_t, its time to the nanosecond.  For a pcapng file the table of   *)
(* interfaces must be its own (OwnTable).                                  *)
(***************************************************************************)
THEOREM AsCaptured == FileSpec => []PacketAsCaptured
<1>1. TypeInv /\ OutInv => PacketAsCaptured
  <2> SUFFICES ASSUME TypeInv, OutInv, Known, NEW b \in BlocksAtCursor, out.at = pos
               PROVE  Captured(mapped, b)
    BY Zenon DEF PacketAsCaptured, Delivered
  <2>1. out # NoPacket
    <3>1. NoPacket.at = -1 /\ pos \in Nat
      BY DEF NoPacket, TypeInv
    <3> QED
      BY <3>1, SMTT(30)
  <2>2. Readable /\ (isPcapNg => ~reentered)
    BY <2>1, Zenon DEF TypeInv, Known, Readable
  <2>3. PICK i \in BlocksOf(mapped) : Handed(i)
    BY <2>1, <2>2, Zenon DEF OutInv
  <2>4. BlocksAtCursor = {mapped.blocks[i]}
    BY <2>2, <2>3, AtCursor, Zenon DEF Handed
  <2> QED
    BY <2>3, <2>4, Zenon DEF Handed
<1> QED
  BY <1>1, TypeInvHolds, OutInvHolds, PTL
=============================================================================
