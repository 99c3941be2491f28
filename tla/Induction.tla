----------------------------- MODULE Induction -----------------------------
(***************************************************************************)
(* Induction over the natural numbers for the proofs about recursive       *)
(* functions: the induction theorem of the library takes an operator as    *)
(* its parameter, these take sets and functions.  Facts about division.    *)
(***************************************************************************)
EXTENDS Integers, WellFoundedInduction, TLAPS

\* A set that holds 0 and is closed under successor holds every number.
LEMMA NumbersFrom0 ==
    ASSUME NEW S, 0 \in S, \A n \in Nat : n \in S => n + 1 \in S
    PROVE  Nat \subseteq S
  <1> DEFINE R == OpToRel(<, Nat)
             T == Nat \ S
  <1> SUFFICES ASSUME T # {} PROVE FALSE
    OBVIOUS
  <1>1. IsWellFoundedOn(R, Nat)
    BY NatLessThanWellFounded
  <1>2. \A y, z \in Nat : y < z => <<y, z>> \in R
    BY DEF OpToRel
  <1>3. T \subseteq Nat
    OBVIOUS
  <1> HIDE DEF R
  <1>4. PICK m \in T : \A y \in T : ~(<<y, m>> \in R)
    <2> HIDE DEF T
    <2> QED
      BY <1>1, <1>3, WFMin
  <1>5. m \in Nat /\ m - 1 \in Nat /\ m - 1 \in T
    OBVIOUS
  <1>6. <<m - 1, m>> \in R
    BY <1>2, <1>5
  <1> QED
    BY <1>4, <1>5, <1>6

\* What holds at a and is handed from each number to the next holds up to b.
LEMMA UpFrom ==
    ASSUME NEW a \in Int, NEW b \in Int, NEW S, a <= b => a \in S,
           \A n \in a .. b - 1 : n \in S => n + 1 \in S
    PROVE  a .. b \subseteq S
  <1> DEFINE T == {n \in Nat : a + n <= b => a + n \in S}
  <1>1. 0 \in T
    OBVIOUS
  <1>2. ASSUME NEW n \in Nat, n \in T PROVE n + 1 \in T
    <2> SUFFICES ASSUME a + (n + 1) <= b PROVE a + (n + 1) \in S
      OBVIOUS
    <2>1. a + n \in a .. b - 1 /\ a + n \in S
      BY <1>2
    <2>2. (a + n) + 1 \in S
      BY <2>1
    <2>3. (a + n) + 1 = a + (n + 1)
      OBVIOUS
    <2> QED
      BY <2>2, <2>3
  <1>3. Nat \subseteq T
    <2> HIDE DEF T
    <2> QED
      BY <1>1, <1>2, NumbersFrom0
  <1>4. ASSUME NEW n \in a .. b PROVE n \in S
    <2>1. n - a \in Nat /\ a + (n - a) = n
      OBVIOUS
    <2>2. n - a \in T
      BY <1>3, <2>1
    <2> QED
      BY <2>1, <2>2
  <1> QED
    BY <1>4

\* A set of numbers that is not empty has a least one.
LEMMA LeastExists ==
    ASSUME NEW S, S \subseteq Nat, S # {}
    PROVE  \E m \in S : \A n \in S : m <= n
  <1> DEFINE T == {n \in Nat : \A m \in 0 .. n : m \notin S}
  <1> SUFFICES ASSUME ~\E m \in S : \A n \in S : m <= n PROVE FALSE
    OBVIOUS
  <1>1. 0 \in T
    OBVIOUS
  <1>2. ASSUME NEW n \in Nat, n \in T PROVE n + 1 \in T
    <2>1. \A m \in 0 .. n : m \notin S
      BY <1>2
    <2>2. \A m \in S : n + 1 <= m
      BY <2>1
    <2>3. n + 1 \notin S
      BY <2>2
    <2>4. \A m \in 0 .. n + 1 : m \in 0 .. n \/ m = n + 1
      OBVIOUS
    <2> QED
      BY <2>1, <2>3, <2>4
  <1>3. Nat \subseteq T
    <2> HIDE DEF T
    <2> QED
      BY <1>1, <1>2, NumbersFrom0
  <1>4. \A n \in Nat : n \notin S
    BY <1>3
  <1> QED
    BY <1>4

IsRecursive(a, b, c, H, f) ==
    f = [i \in a .. b |-> IF i = a THEN c ELSE H[<<i, f[i - 1]>>]]

\* A function with a first value and a step, both in D, exists up to any bound.
LEMMA RecursionExists ==
    ASSUME NEW a \in Int, NEW b \in Int, NEW D, NEW c \in D,
           NEW H, \A i \in a + 1 .. b, x \in D : H[<<i, x>>] \in D
    PROVE  \E f \in [a .. b -> D] : IsRecursive(a, b, c, H, f)
  <1> DEFINE S == {n \in a - 1 .. b : \E f \in [a .. n -> D] : IsRecursive(a, n, c, H, f)}
  <1>1. CASE b < a
    <2>1. a .. b = {}
      BY <1>1
    <2> DEFINE f == [i \in a .. b |-> c]
    <2>2. f \in [a .. b -> D]
      OBVIOUS
    <2>3. IsRecursive(a, b, c, H, f)
      BY <2>1 DEF IsRecursive
    <2> QED
      BY <2>2, <2>3
  <1>2. CASE a <= b
    <2>1. a \in S
      <3> DEFINE f == [i \in a .. a |-> c]
                 g == [i \in a .. a |-> IF i = a THEN c ELSE H[<<i, f[i - 1]>>]]
      <3>1. f \in [a .. a -> D]
        OBVIOUS
      <3>2. \A i \in a .. a : i = a
        OBVIOUS
      <3>3. f = g
        BY <3>2
      <3>4. IsRecursive(a, a, c, H, f)
        BY <3>3 DEF IsRecursive
      <3>5. a \in a - 1 .. b
        BY <1>2
      <3> QED
        BY <3>1, <3>4, <3>5
    <2>2. ASSUME NEW n \in a .. b - 1, n \in S PROVE n + 1 \in S
      <3>1. PICK f \in [a .. n -> D] : IsRecursive(a, n, c, H, f)
        BY <2>2
      <3> DEFINE g == [i \in a .. n + 1 |-> IF i = n + 1 THEN H[<<n + 1, f[n]>>] ELSE f[i]]
                 h == [i \in a .. n + 1 |-> IF i = a THEN c ELSE H[<<i, g[i - 1]>>]]
      <3>2. f[n] \in D /\ H[<<n + 1, f[n]>>] \in D
        <4>1. n \in a .. n /\ n + 1 \in a + 1 .. b
          OBVIOUS
        <4>2. f[n] \in D
          BY <4>1
        <4> QED
          BY <4>1, <4>2
      <3>3. g \in [a .. n + 1 -> D]
        <4>1. ASSUME NEW i \in a .. n + 1 PROVE g[i] \in D
          <5>1. CASE i = n + 1
            BY <3>2, <5>1
          <5>2. CASE i \in a .. n
            BY <5>2
          <5> QED
            BY <5>1, <5>2
        <4> QED
          BY <4>1
      <3>4. ASSUME NEW i \in a .. n + 1 PROVE g[i] = h[i]
        <4>1. CASE i = n + 1
          <5>1. n \in a .. n + 1 /\ n # n + 1 /\ i # a /\ i - 1 = n
            BY <4>1
          <5>2. g[n] = f[n]
            BY <5>1
          <5>3. h[i] = H[<<i, g[i - 1]>>]
            BY <5>1
          <5>4. g[i] = H[<<n + 1, f[n]>>]
            BY <4>1
          <5> QED
            BY <4>1, <5>1, <5>2, <5>3, <5>4
        <4>2. CASE i = a
          <5>1. f[a] = c
            BY <3>1 DEF IsRecursive
          <5> QED
            BY <4>2, <5>1
        <4>3. CASE i \in a + 1 .. n
          <5>1. f[i] = H[<<i, f[i - 1]>>]
            BY <3>1, <4>3 DEF IsRecursive
          <5>2. g[i] = f[i] /\ g[i - 1] = f[i - 1]
            BY <4>3
          <5>3. h[i] = H[<<i, g[i - 1]>>]
            BY <4>3
          <5> QED
            BY <5>1, <5>2, <5>3
        <4> QED
          BY <4>1, <4>2, <4>3
      <3>5. g = h
        BY <3>4
      <3>6. IsRecursive(a, n + 1, c, H, g)
        BY <3>5 DEF IsRecursive
      <3>7. n + 1 \in a - 1 .. b
        OBVIOUS
      <3> QED
        BY <3>3, <3>6, <3>7
    <2>3. a .. b \subseteq S
      <3> HIDE DEF S
      <3> QED
        BY <1>2, <2>1, <2>2, UpFrom
    <2>4. b \in S
      BY <1>2, <2>3
    <2> QED
      BY <2>4
  <1> QED
    BY <1>1, <1>2

-----------------------------------------------------------------------------
(* Arithmetic *)

LEMMA DivMod ==
    ASSUME NEW n \in Nat, NEW m \in Nat \ {0}
    PROVE  n \div m \in Nat /\ n % m \in 0 .. m - 1 /\ n = (n \div m) * m + (n % m)
  OBVIOUS

\* a greater factor makes a product greater by the other factor at least
LEMMA NextMultiple ==
    ASSUME NEW a \in Nat, NEW b \in Nat, NEW m \in Nat, a < b
    PROVE  a * m + m <= b * m
  <1>1. (b - (a + 1)) * m >= 0
    BY b - (a + 1) \in Nat, (b - (a + 1)) * m \in Nat
  <1> QED
    BY <1>1

\* quotient and remainder are the only numbers of their kind
LEMMA Quotient ==
    ASSUME NEW m \in Nat \ {0}, NEW y \in Nat, NEW r \in 0 .. m - 1,
           NEW n \in Nat, n = y * m + r
    PROVE  n \div m = y /\ n % m = r
  <1> DEFINE q == n \div m
             s == n % m
             qm == q * m
             ym == y * m
  <1>1. q \in Nat /\ s \in 0 .. m - 1 /\ n = qm + s
    BY DivMod
  <1>2. qm \in Nat /\ ym \in Nat /\ n = ym + r
    BY <1>1
  <1>3. (q < y => qm + m <= ym) /\ (y < q => ym + m <= qm)
    BY <1>1, NextMultiple
  <1>4. q = y => qm = ym
    OBVIOUS
  <1> HIDE DEF q, s, qm, ym
  <1>5. q = y
    BY <1>1, <1>2, <1>3
  <1>6. s = r
    BY <1>1, <1>2, <1>4, <1>5
  <1> QED
    BY <1>5, <1>6 DEF q, s

Nested(a, s, p) ==
    /\ a \div (s * p) = (a \div s) \div p
    /\ (a % (s * p)) \div s = (a \div s) % p
    /\ (a % (s * p)) % s = a % s

\* dividing by a product is dividing by one factor after the other
LEMMA NestedDivision ==
    ASSUME NEW a \in Nat, NEW s \in Nat \ {0}, NEW p \in Nat \ {0}
    PROVE  s * p \in Nat \ {0} /\ Nested(a, s, p)
  <1> DEFINE q == a \div s
             r == a % s
             q1 == q \div p
             r1 == q % p
             sp == s * p
             low == r1 * s + r
  <1>1. q \in Nat /\ r \in 0 .. s - 1 /\ a = q * s + r
    BY DivMod
  <1>2. q1 \in Nat /\ r1 \in 0 .. p - 1 /\ q = q1 * p + r1
    BY <1>1, DivMod
  <1>3. sp \in Nat \ {0}
    <2>1. s * 1 <= sp
      <3>1. (p - 1) * s >= 0
        BY p - 1 \in Nat, (p - 1) * s \in Nat
      <3>2. (p - 1) * s = sp - s * 1
        OBVIOUS
      <3> QED
        BY <3>1, <3>2
    <2> QED
      BY <2>1
  <1> HIDE DEF q, r, q1, r1
  <1>4. low \in 0 .. sp - 1
    <2> DEFINE x == r1 * s
    <2>1. x \in Nat
      BY <1>2
    <2>2. x + s <= p * s
      BY <1>2, NextMultiple
    <2>3. p * s = sp
      OBVIOUS
    <2> HIDE DEF x, sp
    <2>4. x + r \in 0 .. sp - 1
      BY <1>1, <1>3, <2>1, <2>2, <2>3
    <2> QED
      BY <2>4 DEF x
  <1>5. a = q1 * sp + low
    <2>1. q * s = (q1 * p + r1) * s
      BY <1>2
    <2>2. (q1 * p + r1) * s = q1 * sp + r1 * s
      BY <1>2
    <2>3. q * s \in Int /\ q1 * sp \in Int /\ r1 * s \in Int /\ r \in Int
      BY <1>1, <1>2, <1>3
    <2> QED
      BY <1>1, <2>1, <2>2, <2>3
  <1> HIDE DEF sp, low
  <1>6. a \div sp = q1 /\ a % sp = low
    BY <1>2, <1>3, <1>4, <1>5, Quotient
  <1>7. low \div s = r1 /\ low % s = r
    <2>1. low \in Nat /\ r1 \in Nat
      BY <1>2, <1>3, <1>4
    <2>2. low = r1 * s + r
      BY DEF low
    <2> QED
      BY <1>1, <2>1, <2>2, Quotient
  <1>8. a \div sp = (a \div s) \div p
    BY <1>6 DEF q, q1
  <1>9. (a % sp) \div s = (a \div s) % p /\ (a % sp) % s = a % s
    BY <1>6, <1>7 DEF q, r, r1
  <1> QED
    BY <1>3, <1>8, <1>9 DEF sp, Nested
=============================================================================
