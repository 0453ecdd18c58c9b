------------------------------ MODULE Induction -----------------------------
(***************************************************************************)
(* Induction in a form the provers can use.  The library's principles take *)
(* an operator for what is proved; here it is the set of the numbers for   *)
(* which it is true, and the step of a recursive definition is a function. *)
(***************************************************************************)
EXTENDS Integers, WellFoundedInduction, TLAPS

\* A set of natural numbers that is not empty has a least element.
LEMMA LeastElement ==
  ASSUME NEW T, T \subseteq Nat, T # {}
  PROVE  \E x \in T : \A y \in T : x <= y
<1>1. PICK x \in T : \A y \in T : ~(<<y, x>> \in OpToRel(<, Nat))
  BY NatLessThanWellFounded, WFMin, Zenon
<1>2. \A y \in T : ~(y < x)
  BY <1>1, Zenon DEF OpToRel
<1> QED
  BY <1>2

\* A set that holds 0 and with every number its successor holds all of them.
LEMMA SetInduction ==
  ASSUME NEW P, 0 \in P, \A n \in Nat : n \in P => n + 1 \in P
  PROVE  \A n \in Nat : n \in P
<1> SUFFICES ASSUME NEW n \in Nat, n \notin P PROVE FALSE
  OBVIOUS
<1>1. PICK x \in Nat \ P : \A y \in Nat \ P : x <= y
  BY LeastElement, Zenon
<1>2. x - 1 \in Nat /\ x - 1 \in P
  BY <1>1
<1> QED
  BY <1>1, <1>2

\* The same between two bounds.
LEMMA IntervalInduction ==
  ASSUME NEW lo \in Int, NEW hi \in Int, NEW P, lo \in P,
         \A i \in lo .. hi : i # lo /\ i - 1 \in P => i \in P
  PROVE  \A i \in lo .. hi : i \in P
<1> DEFINE Q == {n \in Nat : lo + n <= hi => lo + n \in P}
<1>1. 0 \in Q
  OBVIOUS
<1>2. ASSUME NEW n \in Nat, n \in Q PROVE n + 1 \in Q
  <2>1. CASE lo + (n + 1) <= hi
    <3>1. lo + n \in P
      BY <1>2, <2>1
    <3>2. /\ lo + (n + 1) \in lo .. hi /\ lo + (n + 1) # lo
          /\ (lo + (n + 1)) - 1 = lo + n
      BY <2>1
    <3>3. lo + (n + 1) \in P
      BY <3>1, <3>2
    <3> QED
      BY <3>3
  <2>2. CASE ~(lo + (n + 1) <= hi)
    BY <2>2
  <2> QED
    BY <2>1, <2>2
<1> HIDE DEF Q
<1>3. \A n \in Nat : n \in Q
  BY <1>1, <1>2, SetInduction
<1>4. ASSUME NEW i \in lo .. hi PROVE i \in P
  <2>1. i - lo \in Nat /\ lo + (i - lo) = i
    OBVIOUS
  <2>2. i - lo \in Q
    BY <1>3, <2>1
  <2> QED
    BY <2>1, <2>2 DEF Q
<1> QED
  BY <1>4

\* On lo .. hi, the first value of f is base and the others follow from the
\* ones before them.
Recursive(f, lo, hi, V, base, step) ==
  /\ f[lo] = base
  /\ \A i \in lo .. hi : i # lo /\ f[i - 1] \in V => f[i] = step[i][f[i - 1]]

LEMMA RecursionExists ==
  ASSUME NEW lo \in Int, NEW hi \in Int, lo <= hi, NEW V, NEW base \in V,
         NEW step \in [lo .. hi -> [V -> V]]
  PROVE  \E f : f \in [lo .. hi -> V] /\ Recursive(f, lo, hi, V, base, step)
<1> DEFINE Good(f, n) == f[lo] = base /\ \A i \in lo .. n : i # lo => f[i] = step[i][f[i - 1]]
           P == {n \in Int : \E f \in [lo .. n -> V] : Good(f, n)}
<1>1. lo \in P
  <2>1. [i \in lo .. lo |-> base] \in [lo .. lo -> V]
    OBVIOUS
  <2>2. Good([i \in lo .. lo |-> base], lo)
    OBVIOUS
  <2> QED
    BY <2>1, <2>2, Zenon
<1>2. ASSUME NEW n \in lo .. hi, n # lo, n - 1 \in P PROVE n \in P
  <2>1. PICK f \in [lo .. n - 1 -> V] : Good(f, n - 1)
    BY <1>2
  <2> DEFINE g == [i \in lo .. n |-> IF i = n THEN step[n][f[n - 1]] ELSE f[i]]
  <2>2. f[n - 1] \in V /\ step[n] \in [V -> V]
    BY <1>2
  <2>3. g \in [lo .. n -> V]
    BY <2>2
  <2>4. g[lo] = base
    BY <1>2, <2>1
  <2>5. ASSUME NEW i \in lo .. n, i # lo PROVE g[i] = step[i][g[i - 1]]
    <3>1. CASE i = n
      BY <1>2, <3>1
    <3>2. CASE i # n
      <4>1. i \in lo .. n - 1 /\ i - 1 \in lo .. n - 1 /\ g[i] = f[i] /\ g[i - 1] = f[i - 1]
        BY <2>5, <3>2
      <4> QED
        BY <2>1, <2>5, <4>1
    <3> QED
      BY <3>1, <3>2
  <2>6. Good(g, n)
    BY <2>4, <2>5, Zenon
  <2> HIDE DEF g, Good
  <2> QED
    BY <2>3, <2>6
<1> HIDE DEF P
<1>3. \A n \in lo .. hi : n \in P
  BY <1>1, <1>2, IntervalInduction, Zenon
<1>4. hi \in P
  BY <1>3
<1> QED
  BY <1>4 DEF P, Recursive

\* The values of such a function are of the type of its step.
LEMMA RecursionType ==
  ASSUME NEW lo \in Int, NEW hi \in Int, NEW V, NEW base \in V,
         NEW step \in [lo .. hi -> [V -> V]],
         NEW f, Recursive(f, lo, hi, V, base, step)
  PROVE  \A i \in lo .. hi : f[i] \in V
<1> DEFINE P == {i \in Int : f[i] \in V}
<1>1. lo \in P
  BY DEF Recursive
<1>2. ASSUME NEW i \in lo .. hi, i # lo, i - 1 \in P PROVE i \in P
  BY <1>2 DEF Recursive
<1> HIDE DEF P
<1>3. \A i \in lo .. hi : i \in P
  BY <1>1, <1>2, IntervalInduction, Zenon
<1> QED
  BY <1>3 DEF P
=============================================================================
