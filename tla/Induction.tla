----------------------------- MODULE Induction -----------------------------
(***************************************************************************)
(* Induction over sets, for what the model computes piece by piece: a set  *)
(* of numbers stands for the property that is carried along, so that no    *)
(* operator is passed.                                                     *)
(***************************************************************************)
EXTENDS Integers, TLAPS, WellFoundedInduction

LEMMA LeastNatural ==
  ASSUME NEW S, S \subseteq Nat, S # {}
  PROVE  \E n \in S : \A m \in S : n <= m
<1> DEFINE R == OpToRel(<, Nat)
<1>1. IsWellFoundedOn(R, Nat)
  BY NatLessThanWellFounded
<1>2. \A m, n \in Nat : m < n => <<m, n>> \in R
  BY DEF OpToRel
<1> HIDE DEF R
<1>3. PICK n \in S : \A m \in S : ~(<<m, n>> \in R)
  BY <1>1, WFMin
<1>4. \A m \in S : ~(m < n)
  BY <1>2, <1>3, Zenon
<1>5. QED
  BY <1>3, <1>4

LEMMA UpTo ==
  ASSUME NEW n \in Nat, NEW S, 0 \in S, \A i \in 0..(n - 1) : i \in S => i + 1 \in S
  PROVE  0..n \subseteq S
<1>1. SUFFICES ASSUME NEW j \in 0..n, j \notin S
               PROVE  FALSE
  OBVIOUS
<1> DEFINE T == {i \in 0..n : i \notin S}
<1>2. T \subseteq Nat /\ T # {}
  BY <1>1
<1>3. PICK m \in T : \A i \in T : m <= i
  BY <1>2, LeastNatural
<1>4. m # 0 /\ m - 1 \in 0..(n - 1) /\ m - 1 \notin T
  BY <1>3
<1>5. QED
  BY <1>3, <1>4

(* A set of integers that is bounded above has a greatest member.          *)
LEMMA Greatest ==
  ASSUME NEW S, S \subseteq Int, S # {}, NEW top \in Int, \A m \in S : m <= top
  PROVE  \E n \in S : \A m \in S : n >= m
<1> DEFINE T == {top - m : m \in S}
<1>1. \A m \in S : top - m \in Nat
  OBVIOUS
<1>2. T \subseteq Nat /\ T # {}
  BY <1>1
<1>3. PICK d \in T : \A e \in T : d <= e
  BY <1>2, LeastNatural
<1>4. PICK n \in S : d = top - n
  BY <1>3
<1>5. \A m \in S : top - n <= top - m
  BY <1>3, <1>4
<1>6. QED
  BY <1>5

(* What a function takes a range of numbers to is bounded.                 *)
LEMMA Bounded ==
  ASSUME NEW n \in Nat, NEW f \in [1..n -> Int]
  PROVE  \E top \in Int : \A i \in 1..n : f[i] <= top
<1> DEFINE S == {k \in 0..n : \E top \in Int : \A i \in 1..k : f[i] <= top}
<1>1. 0 \in S
  OBVIOUS
<1>2. ASSUME NEW k \in 0..(n - 1), k \in S
      PROVE  k + 1 \in S
  <2>1. PICK top \in Int : \A i \in 1..k : f[i] <= top
    BY <1>2
  <2>2. f[k + 1] \in Int
    OBVIOUS
  <2>3. \E v \in Int : v >= top /\ v >= f[k + 1]
    BY <2>2
  <2>4. PICK v \in Int : v >= top /\ v >= f[k + 1]
    BY <2>3
  <2>5. \A i \in 1..(k + 1) : f[i] <= v
    BY <2>1, <2>2, <2>4
  <2>6. k + 1 \in 0..n
    BY <1>2
  <2>7. QED
    BY <2>4, <2>5, <2>6
<1> HIDE DEF S
<1>3. 0..n \subseteq S
  BY <1>1, <1>2, UpTo, Zenon
<1>4. n \in S
  BY <1>3
<1>5. QED
  BY <1>4 DEF S

(* A function can be given by its first value and its steps.               *)
Recurses(f, n, X, base, g) ==
  f \in [0..n -> X] /\ f[0] = base /\ \A i \in 1..n : f[i] = g[i][f[i - 1]]

LEMMA RecursesIs ==
  ASSUME NEW n \in Nat, NEW X, NEW base, NEW g, NEW f, Recurses(f, n, X, base, g)
  PROVE  f \in [0..n -> X] /\ f[0] = base /\ \A i \in 1..n : f[i - 1] \in X /\ f[i] = g[i][f[i - 1]]
BY DEF Recurses

LEMMA Recursion ==
  ASSUME NEW n \in Nat, NEW X, NEW base \in X, NEW g \in [1..n -> [X -> X]]
  PROVE  \E f : Recurses(f, n, X, base, g)
<1> DEFINE Upto(k, f) == Recurses(f, k, X, base, g)
           S == {k \in 0..n : \E f : Upto(k, f)}
<1>1. 0 \in S
  <2> DEFINE h == [i \in 0..0 |-> base]
  <2>1. Upto(0, h)
    BY DEF Recurses
  <2> HIDE DEF h, Upto
  <2>2. 0 \in 0..n /\ \E f : Upto(0, f)
    BY <2>1
  <2>3. QED
    BY <2>2
<1>2. ASSUME NEW k \in 0..(n - 1), k \in S
      PROVE  k + 1 \in S
  <2>1. PICK f : Upto(k, f)
    BY <1>2
  <2> DEFINE v == g[k + 1][f[k]]
             h == [i \in 0..(k + 1) |-> IF i = k + 1 THEN v ELSE f[i]]
  <2>2. f[k] \in X /\ k + 1 \in 1..n
    BY <1>2, <2>1 DEF Recurses
  <2>3. v \in X
    BY <2>2
  <2>4. Upto(k + 1, h)
    <3> HIDE DEF v
    <3>1. /\ h \in [0..(k + 1) -> X]
          /\ h[k + 1] = v
          /\ \A i \in 0..k : h[i] = f[i]
      BY <1>2, <2>1, <2>3 DEF Recurses
    <3> HIDE DEF h
    <3>2. h[0] = base
      BY <1>2, <2>1, <3>1 DEF Recurses
    <3>3. ASSUME NEW i \in 1..(k + 1) PROVE h[i] = g[i][h[i - 1]]
      <4>1. CASE i = k + 1
        <5>1. h[i - 1] = f[k]
          BY <3>1, <4>1
        <5>2. QED
          BY <3>1, <4>1, <5>1 DEF v
      <4>2. CASE i # k + 1
        <5>1. i \in 1..k /\ i \in 0..k /\ i - 1 \in 0..k
          BY <4>2
        <5>2. QED
          BY <2>1, <3>1, <5>1 DEF Recurses
      <4>3. QED
        BY <4>1, <4>2
    <3>4. QED
      BY <3>1, <3>2, <3>3 DEF Recurses
  <2> HIDE DEF h, Upto
  <2>5. k + 1 \in 0..n /\ \E e : Upto(k + 1, e)
    BY <1>2, <2>4
  <2>6. QED
    BY <2>5
<1> HIDE DEF S
<1>3. 0..n \subseteq S
  BY <1>1, <1>2, UpTo, Zenon
<1>4. n \in S
  BY <1>3
<1>5. QED
  BY <1>4 DEF S

(* What a function has at 0 and keeps from each number to the next.        *)
LEMMA Stays ==
  ASSUME NEW n \in Nat, NEW X, NEW f, f[0] \in X, \A i \in 1..n : f[i - 1] \in X => f[i] \in X
  PROVE  \A i \in 0..n : f[i] \in X
<1> DEFINE S == {i \in 0..n : f[i] \in X}
<1>1. 0 \in S
  OBVIOUS
<1>2. \A i \in 0..(n - 1) : i \in S => i + 1 \in S
  <2> SUFFICES ASSUME NEW i \in 0..(n - 1), f[i] \in X PROVE f[i + 1] \in X
    OBVIOUS
  <2>1. i + 1 \in 1..n /\ (i + 1) - 1 = i
    OBVIOUS
  <2> QED
    BY <2>1
<1> HIDE DEF S
<1>3. 0..n \subseteq S
  BY <1>1, <1>2, UpTo, Zenon
<1> QED
  BY <1>3 DEF S

(* The same from the end: what is at i is made of what is at next[i].      *)
Descends(f, n, X, base, g, next) ==
  f \in [1..(n + 1) -> X] /\ f[n + 1] = base /\ \A i \in 1..n : f[i] = g[i][f[next[i]]]

LEMMA Descent ==
  ASSUME NEW n \in Nat, NEW X, NEW base \in X, NEW g \in [1..n -> [X -> X]],
         NEW next \in [1..n -> 1..(n + 1)], \A i \in 1..n : next[i] > i
  PROVE  \E f : Descends(f, n, X, base, g, next)
<1> DEFINE Upto(k, f) == /\ f \in [(n + 1 - k)..(n + 1) -> X] /\ f[n + 1] = base
                         /\ \A i \in (n + 1 - k)..n : f[i] = g[i][f[next[i]]]
           S == {k \in 0..n : \E f : Upto(k, f)}
<1>1. 0 \in S
  <2> DEFINE h == [i \in (n + 1)..(n + 1) |-> base]
  <2>1. Upto(0, h)
    OBVIOUS
  <2> HIDE DEF h, Upto
  <2>2. 0 \in 0..n /\ \E f : Upto(0, f)
    BY <2>1
  <2>3. QED
    BY <2>2
<1>2. ASSUME NEW k \in 0..(n - 1), k \in S
      PROVE  k + 1 \in S
  <2>1. PICK f : Upto(k, f)
    BY <1>2
  <2> DEFINE j == n - k
             v == g[j][f[next[j]]]
             h == [i \in j..(n + 1) |-> IF i = j THEN v ELSE f[i]]
  <2>2. j \in 1..n /\ next[j] \in (n + 1 - k)..(n + 1)
    BY <1>2
  <2>3. v \in X
    <3>1. f[next[j]] \in X
      BY <2>1, <2>2
    <3> QED
      BY <2>2, <3>1
  <2>4. Upto(k + 1, h)
    <3> HIDE DEF v
    <3>1. /\ h \in [j..(n + 1) -> X]
          /\ h[j] = v
          /\ \A i \in (n + 1 - k)..(n + 1) : h[i] = f[i]
      BY <1>2, <2>1, <2>2, <2>3
    <3> HIDE DEF h
    <3>2. h[n + 1] = base
      BY <1>2, <2>1, <3>1
    <3>3. ASSUME NEW i \in j..n PROVE h[i] = g[i][h[next[i]]]
      <4>1. CASE i = j
        <5>1. h[next[i]] = f[next[j]]
          BY <2>2, <3>1, <4>1
        <5>2. QED
          BY <3>1, <4>1, <5>1 DEF v
      <4>2. CASE i # j
        <5>1. i \in (n + 1 - k)..n /\ i \in 1..n
          BY <1>2, <4>2
        <5>2. next[i] \in (n + 1 - k)..(n + 1)
          BY <5>1
        <5>3. h[i] = f[i] /\ h[next[i]] = f[next[i]]
          BY <3>1, <5>1, <5>2
        <5>4. QED
          BY <2>1, <5>1, <5>3
      <4>3. QED
        BY <4>1, <4>2
    <3>4. n + 1 - (k + 1) = j
      BY <1>2
    <3>5. QED
      BY <3>1, <3>2, <3>3, <3>4
  <2> HIDE DEF h, Upto
  <2>5. k + 1 \in 0..n /\ \E e : Upto(k + 1, e)
    BY <1>2, <2>4
  <2>6. QED
    BY <2>5
<1> HIDE DEF S
<1>3. 0..n \subseteq S
  BY <1>1, <1>2, UpTo, Zenon
<1>4. n \in S
  BY <1>3
<1>5. PICK f : Upto(n, f)
  BY <1>4 DEF S
<1>6. n + 1 - n = 1
  OBVIOUS
<1>7. Descends(f, n, X, base, g, next)
  BY <1>5, <1>6 DEF Descends
<1>8. QED
  BY <1>7

LEMMA StaysBack ==
  ASSUME NEW n \in Nat, NEW X, NEW f, NEW next \in [1..n -> 1..(n + 1)], \A i \in 1..n : next[i] > i,
         f[n + 1] \in X, \A i \in 1..n : f[next[i]] \in X => f[i] \in X
  PROVE  \A i \in 1..(n + 1) : f[i] \in X
<1> DEFINE S == {i \in 1..(n + 1) : f[i] \notin X}
<1>1. SUFFICES ASSUME S # {} PROVE FALSE
  OBVIOUS
<1>2. S \subseteq Int /\ n + 1 \in Int /\ \A m \in S : m <= n + 1
  OBVIOUS
<1>3. PICK i \in S : \A m \in S : i >= m
  <2> HIDE DEF S
  <2>1. QED
    BY <1>1, <1>2, Greatest
<1>4. i \in 1..n
  BY <1>3
<1>5. next[i] \in S
  BY <1>3, <1>4
<1>6. QED
  BY <1>3, <1>4, <1>5

(* What can be shown of a number from those after it.                      *)
LEMMA Back ==
  ASSUME NEW n \in Nat, NEW S, n + 1 \in S,
         \A i \in 1..n : (\A j \in (i + 1)..(n + 1) : j \in S) => i \in S
  PROVE  \A i \in 1..(n + 1) : i \in S
<1> DEFINE T == {i \in 1..(n + 1) : i \notin S}
<1>1. SUFFICES ASSUME T # {} PROVE FALSE
  OBVIOUS
<1>2. T \subseteq Int /\ n + 1 \in Int /\ \A m \in T : m <= n + 1
  OBVIOUS
<1>3. PICK i \in T : \A m \in T : i >= m
  <2> HIDE DEF T
  <2> QED
    BY <1>1, <1>2, Greatest
<1>4. i \in 1..n
  BY <1>3
<1>5. \A j \in (i + 1)..(n + 1) : j \in S
  BY <1>3, <1>4
<1> QED
  BY <1>3, <1>4, <1>5
=============================================================================
