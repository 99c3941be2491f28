------------------------------ MODULE Ext2Proofs ------------------------------
(***************************************************************************)
(* Proofs about Ext2, for every sequence of consistent volumes and every   *)
(* size of block, of sector and of inode: an index in a file leads to the  *)
(* block that comes at that place in the tree, and a directory is listed   *)
(* completely and in order.                                                *)
(***************************************************************************)
EXTENDS Ext2, Induction

-----------------------------------------------------------------------------
(* Joined sequences *)

\* the joined sequences up to each of them
JoinedTo(ss) ==
    CHOOSE f : f = [i \in 1 .. Len(ss) |-> IF i = 1 THEN ss[i] ELSE f[i - 1] \o ss[i]]

\* joining a sequence of sequences is a recursion over its length
LEMMA FlattenIs ==
    ASSUME NEW X, NEW ss \in Seq(Seq(X)), Len(ss) > 0
    PROVE  /\ FlattenSeq(ss) = JoinedTo(ss)[Len(ss)]
           /\ JoinedTo(ss) \in [1 .. Len(ss) -> Seq(X)]
           /\ JoinedTo(ss)[1] = ss[1]
           /\ \A n \in 2 .. Len(ss) : JoinedTo(ss)[n] = JoinedTo(ss)[n - 1] \o ss[n]
  <1> DEFINE N == Len(ss)
             D == Seq(X)
             c == ss[1]
             Step(n, x) == x \o ss[n]
             H == [y \in (2 .. N) \X D |-> Step(y[1], y[2])]
             R(f) == [n \in 1 .. N |-> IF n = 1 THEN ss[n] ELSE f[n - 1] \o ss[n]]
  <1>1. /\ N \in Nat /\ N > 0 /\ c \in D
        /\ \A n \in 1 .. N : ss[n] \in D
    OBVIOUS
  <1>2. \A n \in 2 .. N, x \in D : Step(n, x) \in D
    BY <1>1
  <1> HIDE DEF D, c, Step, N
  <1>3. ASSUME NEW n \in 1 + 1 .. N, NEW x \in D PROVE H[<<n, x>>] = Step(n, x)
    <2>1. n \in 2 .. N
      OBVIOUS
    <2>2. <<n, x>> \in (2 .. N) \X D /\ <<n, x>>[1] = n /\ <<n, x>>[2] = x
      BY <2>1
    <2> QED
      BY <2>2
  <1>4. \A n \in 1 + 1 .. N, x \in D : H[<<n, x>>] \in D
    <2>1. 1 + 1 = 2
      OBVIOUS
    <2> QED
      BY <1>2, <1>3, <2>1
  <1>5. N \in Int /\ 1 \in Int
    BY <1>1
  <1> HIDE DEF H
  <1>6. PICK f \in [1 .. N -> D] : IsRecursive(1, N, c, H, f)
    BY <1>1, <1>4, <1>5, RecursionExists
  <1>7. f = R(f)
    <2>1. ASSUME NEW n \in 1 .. N PROVE f[n] = R(f)[n]
      <3>1. CASE n = 1
        BY <1>6, <3>1 DEF IsRecursive, c
      <3>2. CASE n # 1
        <4>1. n \in 1 + 1 .. N /\ n - 1 \in 1 .. N
          BY <1>5, <3>2
        <4>2. f[n] = H[<<n, f[n - 1]>>]
          BY <1>6, <3>2 DEF IsRecursive
        <4> QED
          BY <1>3, <3>2, <4>1, <4>2 DEF Step
      <3> QED
        BY <3>1, <3>2
    <2>2. f = [n \in 1 .. N |-> f[n]]
      OBVIOUS
    <2> QED
      BY <2>1, <2>2
  <1>8. JoinedTo(ss) = CHOOSE g : g = R(g)
    BY DEF JoinedTo, N
  <1> DEFINE g == JoinedTo(ss)
  <1>9. g = R(g)
    <2> HIDE DEF R
    <2> QED
      BY <1>7, <1>8
  <1>10. FlattenSeq(ss) = g[N]
    <2>1. Len(ss) # 0
      OBVIOUS
    <2> QED
      BY <2>1 DEF FlattenSeq, JoinedTo, N
  <1> HIDE DEF g
  <1>11. \A n \in 1 .. N : g[n] = IF n = 1 THEN ss[n] ELSE g[n - 1] \o ss[n]
    <2>1. \A n \in 1 .. N : g[n] = R(g)[n]
      BY <1>9
    <2>2. \A n \in 1 .. N : R(g)[n] = IF n = 1 THEN ss[n] ELSE g[n - 1] \o ss[n]
      OBVIOUS
    <2> HIDE DEF R
    <2> QED
      BY <2>1, <2>2
  <1>12. /\ g[1] = ss[1]
         /\ \A n \in 2 .. N : g[n] = g[n - 1] \o ss[n]
    <2>1. 1 \in 1 .. N /\ 2 .. N \subseteq 1 .. N /\ 1 \notin 2 .. N
      BY <1>1
    <2> QED
      BY <1>11, <2>1
  <1>13. \A n \in 1 .. N : g[n] \in D
    <2> DEFINE S == {n \in 1 .. N : g[n] \in D}
    <2>1. 1 <= N => 1 \in S
      BY <1>1, <1>12 DEF c
    <2>2. ASSUME NEW n \in 1 .. N - 1, n \in S PROVE n + 1 \in S
      <3>1. n + 1 \in 2 .. N /\ n + 1 \in 1 .. N /\ (n + 1) - 1 = n
        BY <1>5
      <3>2. g[n + 1] = g[n] \o ss[n + 1]
        BY <1>12, <3>1
      <3>3. g[n] \in D /\ ss[n + 1] \in D
        BY <1>1, <2>2, <3>1
      <3>4. g[n + 1] \in D
        <4> DEFINE x == g[n]
                   y == ss[n + 1]
        <4>1. g[n + 1] = x \o y /\ x \in Seq(X) /\ y \in Seq(X)
          BY <3>2, <3>3 DEF D
        <4> HIDE DEF x, y
        <4>2. x \o y \in Seq(X)
          BY <4>1
        <4> QED
          BY <4>1, <4>2 DEF D
      <3> QED
        BY <3>1, <3>4
    <2>3. 1 .. N \subseteq S
      <3> HIDE DEF S
      <3> QED
        BY <1>5, <2>1, <2>2, UpFrom
    <2> QED
      BY <2>3
  <1>14. g = [n \in 1 .. N |-> g[n]]
    <2>1. R(g) = [n \in 1 .. N |-> R(g)[n]]
      OBVIOUS
    <2> HIDE DEF R
    <2> QED
      BY <1>9, <2>1
  <1> QED
    BY <1>10, <1>12, <1>13, <1>14 DEF N, D, g

\* place r of the sequence after q others that are all of length size
JoinedAt(joined, ss, size, q, r) == joined[q * size + r + 1] = ss[q + 1][r + 1]

\* z is x and behind it y
IsJoin(z, x, y) ==
    /\ Len(z) = Len(x) + Len(y)
    /\ \A i \in 1 .. Len(x) : z[i] = x[i]
    /\ \A i \in 1 .. Len(y) : z[Len(x) + i] = y[i]

\* an element keeps its place when another sequence is put behind
LEMMA AppendedAt ==
    ASSUME NEW X, NEW x \in Seq(X), NEW y \in Seq(X)
    PROVE  x \o y \in Seq(X) /\ IsJoin(x \o y, x, y)
  BY DEF IsJoin

\* sequences of the same length, and what is in them, before place q of the next
LEMMA InEarlier ==
    ASSUME NEW size \in Nat \ {0}, NEW n \in Nat, NEW q \in 0 .. n - 1, NEW r \in 0 .. size - 1
    PROVE  q * size + r + 1 \in 1 .. n * size
  <1>1. q * size \in Nat /\ n * size \in Nat
    OBVIOUS
  <1>2. (n - 1 - q) * size >= 0
    BY n - 1 - q \in Nat, (n - 1 - q) * size \in Nat
  <1>3. (n - 1 - q) * size = n * size - size - q * size
    OBVIOUS
  <1> QED
    BY <1>1, <1>2, <1>3

\* joined is made of sequences of one length, except for the last
PackedJoin(joined, ss, size) ==
    /\ Len(joined) = (Len(ss) - 1) * size + Len(ss[Len(ss)])
    /\ \A q \in 0 .. Len(ss) - 1 : \A r \in 0 .. Len(ss[q + 1]) - 1 :
         JoinedAt(joined, ss, size, q, r)

\* sequences of the same length are joined at the multiples of it
LEMMA PackedJoined ==
    ASSUME NEW X, NEW size \in Nat \ {0}, NEW ss \in Seq(Seq(X)), Len(ss) > 0,
           \A k \in 1 .. Len(ss) - 1 : Len(ss[k]) = size
    PROVE  FlattenSeq(ss) \in Seq(X) /\ PackedJoin(FlattenSeq(ss), ss, size)
  <1> DEFINE N == Len(ss)
             g == JoinedTo(ss)
             Upto(n) == /\ Len(g[n]) = (n - 1) * size + Len(ss[n])
                        /\ \A q \in 0 .. n - 1 : \A r \in 0 .. Len(ss[q + 1]) - 1 :
                             JoinedAt(g[n], ss, size, q, r)
             S == {n \in 1 .. N : Upto(n)}
  <1>1. N \in Nat /\ N > 0 /\ 1 \in Int /\ N \in Int
    OBVIOUS
  <1>2. /\ FlattenSeq(ss) = g[N]
        /\ g \in [1 .. N -> Seq(X)] /\ g[1] = ss[1]
        /\ \A n \in 2 .. N : g[n] = g[n - 1] \o ss[n]
    BY FlattenIs
  <1>3. \A n \in 1 .. N : ss[n] \in Seq(X) /\ Len(ss[n]) \in Nat
    OBVIOUS
  <1>4. \A n \in 1 .. N - 1 : Len(ss[n]) = size
    OBVIOUS
  <1> HIDE DEF g, N, Upto
  <1>5. 1 <= N => 1 \in S
    <2>1. Len(g[1]) = (1 - 1) * size + Len(ss[1])
      <3>1. (1 - 1) * size = 0 /\ 1 \in 1 .. N
        BY <1>1
      <3>2. Len(ss[1]) \in Nat /\ g[1] = ss[1]
        BY <1>2, <1>3, <3>1
      <3> DEFINE z == (1 - 1) * size
      <3>3. z = 0
        BY <3>1
      <3> HIDE DEF z
      <3>4. Len(g[1]) = z + Len(ss[1])
        BY <3>2, <3>3
      <3> QED
        BY <3>4 DEF z
    <2>2. ASSUME NEW q \in 0 .. 1 - 1, NEW r \in 0 .. Len(ss[q + 1]) - 1
          PROVE  JoinedAt(g[1], ss, size, q, r)
      <3>1. q = 0 /\ q + 1 = 1 /\ r \in Int
        BY <1>1, <1>3, <2>2
      <3>2. q * size + r + 1 = r + 1
        BY <3>1
      <3> QED
        BY <1>2, <3>1, <3>2 DEF JoinedAt
    <2>3. Upto(1)
      BY <2>1, <2>2 DEF Upto
    <2> QED
      BY <1>1, <2>3
  <1>6. ASSUME NEW n \in 1 .. N - 1, n \in S PROVE n + 1 \in S
    <2> DEFINE m == n + 1
    <2>1. n \in Nat /\ n \in 1 .. N /\ m \in 2 .. N /\ m \in 1 .. N /\ m - 1 = n
      BY <1>1
    <2>2. g[m] = g[n] \o ss[m]
      BY <1>2, <2>1
    <2>3. Upto(n)
      BY <1>6
    <2>4. Len(g[n]) = n * size
      <3>1. Len(g[n]) = (n - 1) * size + Len(ss[n]) /\ Len(ss[n]) = size
        BY <1>4, <2>3 DEF Upto
      <3>2. (n - 1) * size + size = n * size
        BY <2>1
      <3> QED
        BY <3>1, <3>2
    <2>5. g[n] \in Seq(X) /\ ss[m] \in Seq(X) /\ Len(ss[m]) \in Nat /\ n * size \in Nat
      <3>1. g[n] \in Seq(X)
        BY <1>2, <2>1
      <3>2. ss[m] \in Seq(X) /\ Len(ss[m]) \in Nat
        BY <1>3, <2>1
      <3>3. n * size \in Nat
        BY <2>1
      <3> QED
        BY <3>1, <3>2, <3>3
    <2>6. /\ Len(g[m]) = n * size + Len(ss[m])
          /\ \A i \in 1 .. n * size : g[m][i] = g[n][i]
          /\ \A i \in 1 .. Len(ss[m]) : g[m][n * size + i] = ss[m][i]
      <3> DEFINE x == g[n]
                 y == ss[m]
      <3>1. x \in Seq(X) /\ y \in Seq(X) /\ g[m] = x \o y /\ Len(x) = n * size
        BY <2>2, <2>4, <2>5
      <3> DEFINE z == n * size
      <3>2. z = Len(x)
        BY <3>1
      <3> HIDE DEF x, y, z
      <3>3. /\ Len(x \o y) = z + Len(y)
            /\ \A i \in 1 .. z : (x \o y)[i] = x[i]
            /\ \A i \in 1 .. Len(y) : (x \o y)[z + i] = y[i]
        <4>1. IsJoin(x \o y, x, y)
          BY <3>1, AppendedAt
        <4> QED
          BY <3>2, <4>1, Zenon DEF IsJoin
      <3> QED
        BY <3>1, <3>3 DEF x, y, z
    <2>7. ASSUME NEW q \in 0 .. m - 1, NEW r \in 0 .. Len(ss[q + 1]) - 1
          PROVE  JoinedAt(g[m], ss, size, q, r)
      <3>1. CASE q = n
        <4>1. q + 1 = m /\ r \in Nat /\ r + 1 \in 1 .. Len(ss[m])
          BY <2>1, <2>5, <2>7, <3>1
        <4>2. g[m][n * size + (r + 1)] = ss[m][r + 1]
          BY <2>6, <4>1
        <4>3. n * size + (r + 1) = q * size + r + 1
          BY <2>5, <3>1, <4>1
        <4> QED
          BY <4>1, <4>2, <4>3 DEF JoinedAt
      <3>2. CASE q # n
        <4>1. q \in 0 .. n - 1 /\ q + 1 \in 1 .. N - 1
          BY <1>1, <2>1, <3>2
        <4>2. Len(ss[q + 1]) = size
          BY <1>4, <4>1
        <4>3. r \in 0 .. size - 1
          BY <4>2
        <4>4. q * size + r + 1 \in 1 .. n * size
          BY <2>1, <4>1, <4>3, InEarlier
        <4>5. g[m][q * size + r + 1] = g[n][q * size + r + 1]
          <5> DEFINE i == q * size + r + 1
          <5>1. i \in 1 .. n * size
            BY <4>4
          <5> HIDE DEF i
          <5>2. g[m][i] = g[n][i]
            BY <2>6, <5>1
          <5> QED
            BY <5>2 DEF i
        <4>6. JoinedAt(g[n], ss, size, q, r)
          BY <2>3, <4>1 DEF Upto
        <4> QED
          BY <4>5, <4>6 DEF JoinedAt
      <3> QED
        BY <3>1, <3>2
    <2>8. Len(g[m]) = (m - 1) * size + Len(ss[m])
      BY <2>1, <2>6
    <2> HIDE DEF m
    <2>9. m \in S
      BY <2>1, <2>7, <2>8 DEF Upto
    <2> QED
      BY <2>9 DEF m
  <1>7. 1 .. N \subseteq S
    <2> HIDE DEF S
    <2> QED
      BY <1>1, <1>5, <1>6, UpFrom
  <1>8. N \in S
    <2>1. N \in 1 .. N
      BY <1>1
    <2> HIDE DEF S
    <2> QED
      BY <1>7, <2>1
  <1>9. g[N] \in Seq(X)
    <2>1. N \in 1 .. N
      BY <1>1
    <2> QED
      BY <1>2, <2>1
  <1> QED
    BY <1>2, <1>8, <1>9 DEF N, Upto, PackedJoin

-----------------------------------------------------------------------------
(* Trees of pointers *)

Ptrs(vol, b) == vol.disk[b].ptrs

Blocks(vol) == DOMAIN vol.disk

\* the powers of the pointers in a block
LEMMA PointersAre ==
    ASSUME Ext2Assumption, NEW vol, Consistent(vol)
    PROVE  /\ PointersOn(vol, 1) \in Nat \ {0}
           /\ PointersOn(vol, 0) = 1
           /\ \A n \in 0 .. 2 : /\ PointersOn(vol, n) \in Nat \ {0}
                                /\ PointersOn(vol, n + 1) = PointersOn(vol, n) * PointersOn(vol, 1)
           /\ PointersOn(vol, 3) \in Nat \ {0}
  <1> DEFINE p == vol.block_size \div PtrSize
  <1>1. p \in Nat \ {0}
    <2>1. /\ vol.block_size \in Nat \ {0} /\ PtrSize \in Nat \ {0}
          /\ PtrSize <= vol.block_size
      BY DEF Ext2Assumption, Consistent, GeometryOK
    <2> DEFINE b == vol.block_size
               r == b % PtrSize
               pp == p * PtrSize
    <2>2. p \in Nat /\ r \in 0 .. PtrSize - 1 /\ b = pp + r
      BY <2>1, DivMod
    <2>3. p = 0 => pp = 0
      BY <2>1
    <2> HIDE DEF p, b, r, pp
    <2>4. b \in Nat /\ PtrSize <= b
      BY <2>1 DEF b
    <2> QED
      BY <2>1, <2>2, <2>3, <2>4
  <1>2. /\ PointersOn(vol, 0) = 1 /\ PointersOn(vol, 1) = p
        /\ PointersOn(vol, 2) = p * p /\ PointersOn(vol, 3) = p * p * p
    BY DEF PointersOn
  <1> HIDE DEF p
  <1>3. p * p \in Nat \ {0}
    <2>1. p * 1 <= p * p
      <3>1. (p - 1) * p \in Nat
        BY <1>1, p - 1 \in Nat
      <3>2. (p - 1) * p = p * p - p * 1
        BY <1>1
      <3> QED
        BY <1>1, <3>1, <3>2
    <2> QED
      BY <1>1, <2>1
  <1>4. p * p * p \in Nat \ {0}
    <2> DEFINE s == p * p
    <2>1. s * 1 <= s * p
      <3> HIDE DEF s
      <3>1. (p - 1) * s \in Nat
        BY <1>1, <1>3, p - 1 \in Nat DEF s
      <3>2. (p - 1) * s = s * p - s * 1
        BY <1>1, <1>3 DEF s
      <3> QED
        BY <1>1, <1>3, <3>1, <3>2 DEF s
    <2> QED
      BY <1>1, <1>3, <2>1
  <1>5. 1 * p = p
    BY <1>1
  <1> QED
    BY <1>1, <1>2, <1>3, <1>4, <1>5

\* block j of the children is a child of the block that j / pointers leads to
ChildAt(vol, s, j) ==
    LET p == PointersOn(vol, 1)
        b == s[j \div p + 1]
    IN  /\ j \div p \in 0 .. Len(s) - 1
        /\ j % p \in 0 .. Len(Ptrs(vol, b)) - 1
        /\ Children(vol, s)[j + 1] = Ptrs(vol, b)[(j % p) + 1]

\* each child has its place below the block that division finds
LEMMA ChildrenPacked ==
    ASSUME Ext2Assumption, NEW vol, Consistent(vol), NEW s \in Seq(Blocks(vol)), Packed(vol, s)
    PROVE  /\ Children(vol, s) \in Seq(Blocks(vol))
           /\ Len(Children(vol, s)) <= Len(s) * PointersOn(vol, 1)
           /\ \A j \in 0 .. Len(Children(vol, s)) - 1 : ChildAt(vol, s, j)
  <1> DEFINE ss == [k \in 1 .. Len(s) |-> Ptrs(vol, s[k])]
             p == PointersOn(vol, 1)
             N == Len(s)
             c == Children(vol, s)
             X == Blocks(vol)
  <1>1. \A b \in X : Ptrs(vol, b) \in Seq(X) /\ Len(Ptrs(vol, b)) <= p
    BY DEF Consistent, PointersOK, Ptrs, Blocks
  <1>2. p \in Nat \ {0}
    BY PointersAre
  <1>3. N \in Nat /\ \A k \in 1 .. N : s[k] \in X
    OBVIOUS
  <1>4. c = FlattenSeq(ss)
    BY DEF Children, Ptrs
  <1>5. ss \in Seq(Seq(X)) /\ Len(ss) = N
    BY <1>1, <1>3
  <1>6. \A k \in 1 .. N : ss[k] = Ptrs(vol, s[k]) /\ Len(ss[k]) \in 0 .. p
    BY <1>1, <1>2, <1>3
  <1>7. \A k \in 1 .. N - 1 : Len(ss[k]) = p
    BY <1>6, <1>3 DEF Packed, Ptrs
  <1> HIDE DEF ss, c, X, p, N
  <1>8. CASE N = 0
    <2>1. c = <<>>
      BY <1>4, <1>5, <1>8 DEF FlattenSeq
    <2>2. 0 * p = 0
      BY <1>2
    <2>3. c \in Seq(X) /\ Len(c) = 0
      BY <2>1
    <2> QED
      BY <1>8, <2>2, <2>3 DEF c, X, p, N
  <1>9. CASE N # 0
    <2> DEFINE l == Len(ss[N])
    <2>1. /\ c \in Seq(X)
          /\ Len(c) = (N - 1) * p + l
          /\ \A q \in 0 .. N - 1 : \A r \in 0 .. Len(ss[q + 1]) - 1 : JoinedAt(c, ss, p, q, r)
      <3>1. Len(ss) > 0 /\ \A k \in 1 .. Len(ss) - 1 : Len(ss[k]) = p
        BY <1>3, <1>5, <1>7, <1>9
      <3>2. c \in Seq(X) /\ PackedJoin(c, ss, p)
        BY <1>2, <1>4, <1>5, <3>1, PackedJoined
      <3> QED
        BY <1>5, <3>2 DEF PackedJoin
    <2>2. l \in 0 .. p
      BY <1>3, <1>6, <1>9
    <2>3. (N - 1) * p = N * p - p /\ N * p \in Nat /\ (N - 1) * p \in Nat
      BY <1>2, <1>3, <1>9
    <2> HIDE DEF l
    <2>4. Len(c) <= N * p
      BY <1>2, <2>1, <2>2, <2>3
    <2>5. ASSUME NEW j \in 0 .. Len(c) - 1 PROVE ChildAt(vol, s, j)
      <3> DEFINE q == j \div p
                 r == j % p
                 qp == q * p
      <3>1. j \in Nat
        OBVIOUS
      <3>2. q \in Nat /\ r \in 0 .. p - 1 /\ j = qp + r
        BY <1>2, <3>1, DivMod
      <3>3. qp \in Nat
        BY <1>2, <3>2
      <3>4. N <= q => N * p <= qp
        <4>1. CASE N = q
          <5> HIDE DEF q
          <5> QED
            BY <2>3, <4>1
        <4>2. CASE N < q
          <5>1. N * p + p <= qp
            BY <1>2, <1>3, <3>2, <4>2, NextMultiple
          <5> QED
            BY <1>2, <2>3, <3>3, <5>1
        <4> QED
          BY <1>3, <3>2, <4>1, <4>2
      <3>5. q = N - 1 => qp = (N - 1) * p
        OBVIOUS
      <3> HIDE DEF q, r, qp
      <3>6. q \in 0 .. N - 1
        BY <1>2, <1>3, <2>1, <2>3, <2>4, <3>1, <3>2, <3>3, <3>4
      <3>7. r \in 0 .. Len(ss[q + 1]) - 1
        <4>1. CASE q = N - 1
          <5>1. q + 1 = N
            BY <1>3, <4>1
          <5>2. j <= Len(c) - 1 /\ j = (N - 1) * p + r
            BY <2>1, <3>1, <3>2, <3>5, <4>1
          <5>3. r < l
            <6>1. Len(c) = (N - 1) * p + l /\ l \in Nat
              BY <2>1, <2>2
            <6>2. (N - 1) * p \in Nat /\ r \in Nat
              BY <2>3, <3>2
            <6> DEFINE before == (N - 1) * p
            <6>3. j <= Len(c) - 1 /\ j = before + r /\ Len(c) = before + l
                  /\ before \in Nat /\ r \in Nat /\ l \in Nat /\ j \in Nat
              BY <3>1, <5>2, <6>1, <6>2
            <6> HIDE DEF before
            <6> QED
              BY <6>3
          <5> QED
            BY <3>2, <2>2, <5>1, <5>3 DEF l
        <4>2. CASE q # N - 1
          <5>1. q + 1 \in 1 .. N - 1
            BY <1>3, <3>6, <4>2
          <5> QED
            BY <1>7, <3>2, <5>1
        <4> QED
          BY <4>1, <4>2
      <3>8. JoinedAt(c, ss, p, q, r)
        BY <2>1, <3>6, <3>7
      <3>9. q * p + r + 1 = j + 1
        BY <3>2 DEF qp
      <3>10. q + 1 \in 1 .. N
        BY <1>3, <3>6
      <3>11. ss[q + 1] = Ptrs(vol, s[q + 1])
        BY <1>6, <3>10
      <3>12. c[j + 1] = Ptrs(vol, s[q + 1])[r + 1]
        BY <3>8, <3>9, <3>11 DEF JoinedAt
      <3> QED
        BY <3>6, <3>7, <3>11, <3>12 DEF ChildAt, q, r, p, N, c
    <2> QED
      BY <2>1, <2>4, <2>5 DEF c, X, p, N
  <1> QED
    BY <1>8, <1>9

\* the tree of blocks below b is packed down to this level
Tree(vol, b, level) ==
    /\ b \in Blocks(vol) /\ level \in 1 .. 3
    /\ \A n \in 0 .. level - 1 : Packed(vol, LevelBelow(vol, b, n))

\* a level has the children of the one above
LEMMA LevelIs ==
    ASSUME NEW vol, NEW b, NEW n \in 0 .. 2
    PROVE  LevelBelow(vol, b, n + 1) = Children(vol, LevelBelow(vol, b, n))
  <1>1. CASE n = 0
    BY <1>1 DEF LevelBelow
  <1>2. CASE n = 1
    BY <1>2 DEF LevelBelow
  <1>3. CASE n = 2
    BY <1>3 DEF LevelBelow
  <1> QED
    BY <1>1, <1>2, <1>3

LevelOK(vol, b, n) ==
    /\ LevelBelow(vol, b, n) \in Seq(Blocks(vol))
    /\ Len(LevelBelow(vol, b, n)) <= PointersOn(vol, n)

\* each level is of blocks of the volume, and no more than there are pointers
LEMMA LevelTypes ==
    ASSUME Ext2Assumption, NEW vol, Consistent(vol), NEW b, NEW level, Tree(vol, b, level)
    PROVE  \A n \in 0 .. level : LevelOK(vol, b, n)
  <1> DEFINE S == {n \in 0 .. level : LevelOK(vol, b, n)}
             p == PointersOn(vol, 1)
  <1>1. level \in 1 .. 3 /\ level \in Int /\ 0 \in Int /\ 0 \in 0 .. level
    BY DEF Tree
  <1>2. p \in Nat \ {0}
    BY PointersAre
  <1>3. 0 <= level => 0 \in S
    <2>1. LevelBelow(vol, b, 0) = <<b>>
      BY DEF LevelBelow
    <2>2. b \in Blocks(vol)
      BY DEF Tree
    <2>3. PointersOn(vol, 0) = 1
      BY PointersAre
    <2>4. <<b>> \in Seq(Blocks(vol)) /\ Len(<<b>>) = 1
      <3> DEFINE X == Blocks(vol)
      <3>1. b \in X
        BY <2>2
      <3> HIDE DEF X
      <3>2. <<b>> \in Seq(X) /\ Len(<<b>>) = 1
        BY <3>1
      <3> QED
        BY <3>2 DEF X
    <2>5. LevelOK(vol, b, 0)
      BY <2>1, <2>3, <2>4, 1 <= 1 DEF LevelOK
    <2> QED
      BY <1>1, <2>5
  <1>4. ASSUME NEW n \in 0 .. level - 1, n \in S PROVE n + 1 \in S
    <2> DEFINE s == LevelBelow(vol, b, n)
               m == n + 1
    <2>1. n \in 0 .. 2 /\ m \in 0 .. level
      BY <1>1
    <2>2. s \in Seq(Blocks(vol)) /\ Len(s) <= PointersOn(vol, n)
      BY <1>4 DEF LevelOK
    <2>3. Packed(vol, s)
      BY DEF Tree
    <2>4. LevelBelow(vol, b, m) = Children(vol, s)
      BY <2>1, LevelIs
    <2> HIDE DEF s
    <2>5. /\ Children(vol, s) \in Seq(Blocks(vol))
          /\ Len(Children(vol, s)) <= Len(s) * p
      BY <2>2, <2>3, ChildrenPacked
    <2>6. PointersOn(vol, n) \in Nat /\ PointersOn(vol, m) = PointersOn(vol, n) * p
      BY <2>1, PointersAre
    <2>7. Len(s) * p <= PointersOn(vol, n) * p
      <3> DEFINE x == PointersOn(vol, n)
                 y == Len(s)
      <3>1. x \in Nat /\ y \in Nat /\ y <= x
        BY <2>2, <2>6
      <3> HIDE DEF x, y, p
      <3>2. (x - y) * p \in Nat
        BY <1>2, <3>1, x - y \in Nat
      <3>3. (x - y) * p = x * p - y * p /\ x * p \in Nat /\ y * p \in Nat
        BY <1>2, <3>1
      <3>4. y * p <= x * p
        BY <3>2, <3>3
      <3> QED
        BY <3>4 DEF x, y
    <2>8. Len(Children(vol, s)) <= PointersOn(vol, n) * p
      <3> DEFINE x == Len(s) * p
                 y == PointersOn(vol, n) * p
                 z == Len(Children(vol, s))
      <3>1. x \in Int /\ y \in Int /\ z \in Int
        BY <1>2, <2>2, <2>5, <2>6
      <3>2. z <= x /\ x <= y
        BY <2>5, <2>7
      <3> HIDE DEF x, y, z
      <3>3. z <= y
        BY <3>1, <3>2
      <3> QED
        BY <3>3 DEF y, z
    <2> HIDE DEF m
    <2>9. LevelOK(vol, b, m)
      BY <2>4, <2>5, <2>6, <2>8 DEF LevelOK
    <2> QED
      BY <2>1, <2>9 DEF m
  <1>5. 0 .. level \subseteq S
    <2> HIDE DEF S
    <2> QED
      BY <1>1, <1>3, <1>4, UpFrom
  <1> QED
    BY <1>5

\* the block m levels above the e-th of a level, and the rest of the index there
OnWay(vol, b, level, m, e, block, index) ==
    LET above == LevelBelow(vol, b, level - m)
        k == e \div PointersOn(vol, m)
    IN  /\ k \in 0 .. Len(above) - 1
        /\ block = above[k + 1]
        /\ index = e % PointersOn(vol, m)

\* one turn of the walk: quotient and remainder stay on the way to the same block
LEMMA WayStep ==
    ASSUME Ext2Assumption, NEW vol, Consistent(vol), NEW b, NEW level, Tree(vol, b, level),
           NEW e \in Nat, NEW m \in 1 .. level, NEW block, NEW index,
           OnWay(vol, b, level, m, e, block, index),
           e \div PointersOn(vol, m - 1) \in 0 .. Len(LevelBelow(vol, b, level - (m - 1))) - 1
    PROVE  /\ block \in Blocks(vol)
           /\ index \in 0 .. PointersOn(vol, m) - 1
           /\ index \div PointersOn(vol, m - 1) \in 0 .. Len(Ptrs(vol, block)) - 1
           /\ OnWay(vol, b, level, m - 1, e,
                    Ptrs(vol, block)[index \div PointersOn(vol, m - 1) + 1],
                    index % PointersOn(vol, m - 1))
  <1> DEFINE below == m - 1
             n == level - m
             p == PointersOn(vol, 1)
             small == PointersOn(vol, below)
             s == LevelBelow(vol, b, n)
             j == e \div small
             k == e \div PointersOn(vol, m)
  <1>1. level \in 1 .. 3
    BY DEF Tree
  <1>2. below \in 0 .. 2 /\ n \in 0 .. 2 /\ n \in 0 .. level - 1 /\ n \in 0 .. level
    BY <1>1
  <1>3. below + 1 = m /\ n + 1 = level - below
    BY <1>1
  <1>4. p \in Nat \ {0} /\ small \in Nat \ {0} /\ PointersOn(vol, m) = small * p
    BY <1>2, <1>3, PointersAre
  <1>5. LevelBelow(vol, b, level - below) = Children(vol, s)
    BY <1>2, <1>3, LevelIs
  <1>6. s \in Seq(Blocks(vol)) /\ Packed(vol, s)
    <2>1. LevelOK(vol, b, n)
      BY <1>2, LevelTypes
    <2>2. Packed(vol, s)
      BY <1>2 DEF Tree
    <2> QED
      BY <2>1, <2>2 DEF LevelOK
  <1>7. j \in 0 .. Len(Children(vol, s)) - 1
    BY <1>5
  <1>8. k \in 0 .. Len(s) - 1 /\ block = s[k + 1] /\ index = e % PointersOn(vol, m)
    BY DEF OnWay
  <1>9. /\ k = j \div p
        /\ index \div small = j % p
        /\ index % small = e % small
    <2> HIDE DEF p, small
    <2>1. /\ e \div (small * p) = (e \div small) \div p
          /\ (e % (small * p)) \div small = (e \div small) % p
          /\ (e % (small * p)) % small = e % small
      <3>1. Nested(e, small, p)
        BY <1>4, NestedDivision
      <3> QED
        BY <3>1, Zenon DEF Nested
    <2> QED
      BY <1>4, <1>8, <2>1
  <1>10. index \in 0 .. PointersOn(vol, m) - 1
    <2>1. PointersOn(vol, m) \in Nat \ {0}
      <3>1. small * p \in Nat \ {0}
        <4> HIDE DEF p, small
        <4> QED
          BY <1>4, NestedDivision
      <3> QED
        BY <1>4, <3>1
    <2> QED
      BY <1>8, <2>1, DivMod
  <1> HIDE DEF s, p, j, k, small, below, n
  <1>11. ChildAt(vol, s, j)
    BY <1>6, <1>7, ChildrenPacked
  <1>12. /\ j % p \in 0 .. Len(Ptrs(vol, block)) - 1
         /\ Children(vol, s)[j + 1] = Ptrs(vol, block)[(j % p) + 1]
    BY <1>8, <1>9, <1>11 DEF ChildAt, p
  <1>13. block \in Blocks(vol)
    <2>1. k + 1 \in 1 .. Len(s)
      BY <1>6, <1>8
    <2> QED
      BY <1>6, <1>8, <2>1
  <1>14. OnWay(vol, b, level, below, e, Ptrs(vol, block)[index \div small + 1], index % small)
    BY <1>5, <1>7, <1>9, <1>12 DEF OnWay, j, small
  <1>15. index \div small \in 0 .. Len(Ptrs(vol, block)) - 1
    BY <1>9, <1>12
  <1> QED
    BY <1>10, <1>13, <1>14, <1>15 DEF small, below

\* the blocks above the e-th block of a level are there
LEMMA Ancestors ==
    ASSUME Ext2Assumption, NEW vol, Consistent(vol), NEW b, NEW level, Tree(vol, b, level),
           NEW e \in 0 .. Len(LevelBelow(vol, b, level)) - 1
    PROVE  \A m \in 0 .. level :
               e \div PointersOn(vol, m) \in 0 .. Len(LevelBelow(vol, b, level - m)) - 1
  <1> DEFINE Above(m) == e \div PointersOn(vol, m) \in 0 .. Len(LevelBelow(vol, b, level - m)) - 1
             S == {m \in 0 .. level : Above(m)}
             p == PointersOn(vol, 1)
  <1>1. level \in 1 .. 3 /\ level \in Int /\ 0 \in Int /\ 0 \in 0 .. level
    BY DEF Tree
  <1>2. p \in Nat \ {0} /\ PointersOn(vol, 0) = 1
    BY PointersAre
  <1>3. e \in Nat
    OBVIOUS
  <1>4. 0 <= level => 0 \in S
    <2>1. e \div 1 = e /\ level - 0 = level
      BY <1>1, <1>3
    <2>2. Above(0)
      BY <1>2, <2>1
    <2> QED
      BY <1>1, <2>2
  <1>5. ASSUME NEW m \in 0 .. level - 1, m \in S PROVE m + 1 \in S
    <2> DEFINE n == level - (m + 1)
               small == PointersOn(vol, m)
               s == LevelBelow(vol, b, n)
               j == e \div small
               up == m + 1
    <2>1. /\ n \in 0 .. 2 /\ n \in 0 .. level - 1 /\ n \in 0 .. level /\ n + 1 = level - m
          /\ m \in 0 .. 2 /\ up \in 0 .. level /\ level - up = n
      BY <1>1
    <2>2. small \in Nat \ {0} /\ PointersOn(vol, up) = small * p
      BY <2>1, PointersAre
    <2>3. LevelBelow(vol, b, level - m) = Children(vol, s)
      BY <2>1, LevelIs
    <2>4. s \in Seq(Blocks(vol)) /\ Packed(vol, s)
      <3>1. LevelOK(vol, b, n)
        BY <2>1, LevelTypes
      <3>2. Packed(vol, s)
        BY <2>1 DEF Tree
      <3> QED
        BY <3>1, <3>2 DEF LevelOK
    <2>5. j \in 0 .. Len(Children(vol, s)) - 1
      BY <1>5, <2>3
    <2> HIDE DEF s, j
    <2>6. ChildAt(vol, s, j)
      BY <2>4, <2>5, ChildrenPacked
    <2>7. e \div (small * p) = (e \div small) \div p
      <3> HIDE DEF p, small
      <3>1. Nested(e, small, p)
        BY <1>2, <1>3, <2>2, NestedDivision
      <3> QED
        BY <3>1, Zenon DEF Nested
    <2>8. e \div PointersOn(vol, up) \in 0 .. Len(s) - 1
      BY <2>2, <2>6, <2>7 DEF ChildAt, j, p
    <2> HIDE DEF up, n
    <2>9. Above(up)
      BY <2>1, <2>8 DEF s
    <2> QED
      BY <2>1, <2>9 DEF up
  <1>6. 0 .. level \subseteq S
    <2> HIDE DEF S
    <2> QED
      BY <1>1, <1>4, <1>5, UpFrom
  <1> QED
    BY <1>6

\* the way to the e-th block of a level begins at its root
LEMMA WayBegins ==
    ASSUME Ext2Assumption, NEW vol, Consistent(vol), NEW b, NEW level, Tree(vol, b, level),
           NEW e \in 0 .. Len(LevelBelow(vol, b, level)) - 1
    PROVE  OnWay(vol, b, level, level, e, b, e)
  <1> DEFINE size == PointersOn(vol, level)
  <1>1. level \in 1 .. 3 /\ level \in 0 .. level /\ level - level = 0 /\ e \in Nat
    BY DEF Tree
  <1> DEFINE root == LevelBelow(vol, b, 0)
  <1>2. Len(root) = 1 /\ root[0 + 1] = b
    <2>1. root = <<b>>
      BY DEF LevelBelow
    <2>2. Len(<<b>>) = 1 /\ <<b>>[0 + 1] = b
      OBVIOUS
    <2> QED
      BY <2>1, <2>2
  <1>3. size \in Nat \ {0}
    <2>1. level \in 0 .. 2 \/ level = 3
      BY <1>1
    <2> QED
      BY <2>1, PointersAre
  <1>4. e \div size \in 0 .. 0
    <2>1. e \div size \in 0 .. Len(LevelBelow(vol, b, level - level)) - 1
      BY <1>1, Ancestors
    <2>2. Len(LevelBelow(vol, b, level - level)) - 1 = 0
      BY <1>1, <1>2
    <2> QED
      BY <2>1, <2>2
  <1>5. e \div size = 0
    BY <1>4
  <1>6. e % size = e
    <2> HIDE DEF size
    <2>1. e = (e \div size) * size + (e % size) /\ e % size \in 0 .. size - 1
      BY <1>1, <1>3, DivMod
    <2>2. 0 * size = 0
      BY <1>3
    <2> QED
      BY <1>1, <1>3, <1>5, <2>1, <2>2
  <1> QED
    BY <1>1, <1>2, <1>5, <1>6 DEF OnWay

\* at the end of the way is the block
LEMMA WayEnds ==
    ASSUME NEW vol, NEW b, NEW level \in Int, NEW e \in Nat, NEW block, NEW index,
           OnWay(vol, b, level, 0, e, block, index)
    PROVE  block = LevelBelow(vol, b, level)[e + 1]
  <1>1. PointersOn(vol, 0) = 1 /\ e \div 1 = e /\ level - 0 = level
    BY DEF PointersOn
  <1> QED
    BY <1>1 DEF OnWay

\* the order of the levels
LEMMA FirstsAre ==
    ASSUME Ext2Assumption, NEW vol, Consistent(vol)
    PROVE  /\ FirstOn(vol, 0) = 0
           /\ \A level \in 0 .. 4 : FirstOn(vol, level) \in Nat
           /\ FirstOn(vol, 1) = Direct
           /\ FirstOn(vol, 1) <= FirstOn(vol, 2)
           /\ FirstOn(vol, 2) <= FirstOn(vol, 3)
           /\ FirstOn(vol, 3) <= FirstOn(vol, 4)
  <1>1. PointersOn(vol, 1) \in Nat /\ PointersOn(vol, 2) \in Nat /\ PointersOn(vol, 3) \in Nat
    BY PointersAre
  <1>2. Direct \in Nat
    BY DEF Ext2Assumption
  <1>3. /\ FirstOn(vol, 0) = 0 /\ FirstOn(vol, 1) = Direct
        /\ FirstOn(vol, 2) = Direct + PointersOn(vol, 1)
        /\ FirstOn(vol, 3) = Direct + PointersOn(vol, 1) + PointersOn(vol, 2)
        /\ FirstOn(vol, 4) = Direct + PointersOn(vol, 1) + PointersOn(vol, 2) + PointersOn(vol, 3)
    BY DEF FirstOn
  <1>4. \A level \in 0 .. 4 : level \in {0, 1, 2, 3, 4}
    OBVIOUS
  <1>5. \A level \in 0 .. 4 : FirstOn(vol, level) \in Nat
    <2>1. /\ FirstOn(vol, 0) \in Nat /\ FirstOn(vol, 1) \in Nat /\ FirstOn(vol, 2) \in Nat
          /\ FirstOn(vol, 3) \in Nat /\ FirstOn(vol, 4) \in Nat
      <3>1. ASSUME NEW d \in Nat, NEW p \in Nat, NEW q \in Nat, NEW r \in Nat
            PROVE  d + p \in Nat /\ d + p + q \in Nat /\ d + p + q + r \in Nat
        OBVIOUS
      <3>2. 0 \in Nat
        OBVIOUS
      <3> QED
        BY <1>1, <1>2, <1>3, <3>1, <3>2
    <2> QED
      BY <1>4, <2>1
  <1>6. /\ FirstOn(vol, 1) <= FirstOn(vol, 2) /\ FirstOn(vol, 2) <= FirstOn(vol, 3)
        /\ FirstOn(vol, 3) <= FirstOn(vol, 4)
    BY <1>1, <1>2, <1>3
  <1> QED
    BY <1>3, <1>5, <1>6

-----------------------------------------------------------------------------
(* The blocks of a file *)

\* part stands in whole from place first on
StandsAt(whole, part, first) == \A i \in 1 .. Len(part) : whole[first + i] = part[i]

\* the second part begins where the first ends
LEMMA TwoJoined ==
    ASSUME NEW X, NEW w \in Seq(X), NEW x \in Seq(X)
    PROVE  /\ w \o x \in Seq(X) /\ Len(w \o x) = Len(w) + Len(x)
           /\ StandsAt(w \o x, x, Len(w))
  BY DEF StandsAt

\* what is put behind moves nothing
LEMMA StaysThere ==
    ASSUME NEW X, NEW w \in Seq(X), NEW x \in Seq(X), NEW part \in Seq(X), NEW first \in Nat,
           StandsAt(w, part, first), first + Len(part) <= Len(w)
    PROVE  StandsAt(w \o x, part, first)
  BY DEF StandsAt

FourParts(f, w, x, y, z) ==
    /\ Len(f) = Len(w) + Len(x) + Len(y) + Len(z)
    /\ StandsAt(f, w, 0)
    /\ StandsAt(f, x, Len(w))
    /\ StandsAt(f, y, Len(w) + Len(x))
    /\ StandsAt(f, z, Len(w) + Len(x) + Len(y))

\* the four parts of a file one after the other
LEMMA FourJoined ==
    ASSUME NEW X, NEW w \in Seq(X), NEW x \in Seq(X), NEW y \in Seq(X), NEW z \in Seq(X)
    PROVE  w \o x \o y \o z \in Seq(X) /\ FourParts(w \o x \o y \o z, w, x, y, z)
  <1> DEFINE wx == w \o x
             wxy == wx \o y
             f == wxy \o z
             a == Len(w)
             ab == a + Len(x)
             abc == ab + Len(y)
  <1>1. /\ a \in Nat /\ ab \in Nat /\ abc \in Nat /\ Len(x) \in Nat /\ Len(y) \in Nat
        /\ 0 \in Nat
    OBVIOUS
  <1>2. wx \in Seq(X) /\ Len(wx) = ab /\ StandsAt(wx, x, a)
    BY TwoJoined
  <1>3. StandsAt(w, w, 0) /\ 0 + Len(w) <= Len(w)
    BY DEF StandsAt
  <1>4. StandsAt(wx, w, 0)
    BY <1>1, <1>3, StaysThere
  <1>5. 0 + Len(w) <= ab /\ a + Len(x) <= ab /\ 0 + Len(w) <= abc /\ a + Len(x) <= abc
        /\ ab + Len(y) <= abc
    BY <1>1
  <1> HIDE DEF wx, a, ab
  <1>6. wxy \in Seq(X) /\ Len(wxy) = abc /\ StandsAt(wxy, y, ab)
    <2>1. wxy \in Seq(X) /\ Len(wxy) = Len(wx) + Len(y) /\ StandsAt(wxy, y, Len(wx))
      BY <1>2, TwoJoined
    <2> QED
      BY <1>2, <2>1
  <1>7. StandsAt(wxy, w, 0) /\ StandsAt(wxy, x, a)
    BY <1>1, <1>2, <1>4, <1>5, StaysThere
  <1> HIDE DEF wxy, abc
  <1>8. f \in Seq(X) /\ Len(f) = abc + Len(z) /\ StandsAt(f, z, abc)
    <2>1. f \in Seq(X) /\ Len(f) = Len(wxy) + Len(z) /\ StandsAt(f, z, Len(wxy))
      BY <1>6, TwoJoined
    <2> QED
      BY <1>6, <2>1
  <1>9. StandsAt(f, w, 0) /\ StandsAt(f, x, a) /\ StandsAt(f, y, ab)
    BY <1>1, <1>5, <1>6, <1>7, StaysThere
  <1> HIDE DEF f
  <1>10. FourParts(f, w, x, y, z)
    BY <1>8, <1>9 DEF FourParts, a, ab, abc
  <1> QED
    BY <1>8, <1>10 DEF f, wxy, wx

\* the three trees of an inode are packed
LEMMA TreesOfInode ==
    ASSUME NEW vol, NEW i, InodeOK(vol, i)
    PROVE  \A level \in 1 .. 3 : Tree(vol, i.ibp[level], level)
  BY DEF InodeOK, Tree, Blocks

\* the leaves of the three trees are blocks of the volume
LEMMA LeavesOfInode ==
    ASSUME Ext2Assumption, NEW vol, Consistent(vol), NEW i, InodeOK(vol, i)
    PROVE  \A level \in 1 .. 3 : /\ Leaves(vol, i, level) \in Seq(Blocks(vol))
                                 /\ Len(Leaves(vol, i, level)) <= PointersOn(vol, level)
  <1> SUFFICES ASSUME NEW level \in 1 .. 3
               PROVE  /\ Leaves(vol, i, level) \in Seq(Blocks(vol))
                      /\ Len(Leaves(vol, i, level)) <= PointersOn(vol, level)
    OBVIOUS
  <1> DEFINE b == i.ibp[level]
  <1>1. Tree(vol, b, level)
    BY TreesOfInode
  <1> HIDE DEF b
  <1>2. level \in 0 .. level
    OBVIOUS
  <1>3. LevelOK(vol, b, level)
    BY <1>1, <1>2, LevelTypes
  <1> QED
    BY <1>3 DEF LevelOK, Leaves, b

\* an index that a level of pointers stands for, and the place in that level
AtLevel(vol, i, index, level) ==
    LET e == index - FirstOn(vol, level)
    IN  /\ e \in 0 .. Len(Leaves(vol, i, level)) - 1
        /\ FileBlocks(vol, i)[index + 1] = Leaves(vol, i, level)[e + 1]

\* each index of a file lies in one part, at the place that subtraction finds
LEMMA BlockOfIndex ==
    ASSUME Ext2Assumption, NEW vol, Consistent(vol), NEW i, InodeOK(vol, i)
    PROVE  /\ FileBlocks(vol, i) \in Seq(Blocks(vol))
           /\ Direct <= Len(FileBlocks(vol, i))
           /\ Len(FileBlocks(vol, i)) <= FirstOn(vol, 4)
           /\ \A index \in 0 .. Direct - 1 : FileBlocks(vol, i)[index + 1] = i.db[index + 1]
           /\ \A index \in 0 .. Len(FileBlocks(vol, i)) - 1, level \in 1 .. 3 :
                FirstOn(vol, level) <= index /\ index < FirstOn(vol, level + 1)
                    => AtLevel(vol, i, index, level)
  <1> DEFINE X == Blocks(vol)
             x == Leaves(vol, i, 1)
             y == Leaves(vol, i, 2)
             z == Leaves(vol, i, 3)
             p == PointersOn(vol, 1)
             pp == PointersOn(vol, 2)
             ppp == PointersOn(vol, 3)
             f == FileBlocks(vol, i)
             w == i.db
  <1>1. x \in Seq(X) /\ y \in Seq(X) /\ z \in Seq(X) /\ Len(x) <= p /\ Len(y) <= pp /\ Len(z) <= ppp
    BY LeavesOfInode
  <1>2. p \in Nat \ {0} /\ pp \in Nat \ {0} /\ ppp \in Nat \ {0}
    BY PointersAre
  <1>3. Direct \in Nat
    BY DEF Ext2Assumption
  <1>4. w \in Seq(X) /\ Len(w) = Direct
    <2>1. w \in [1 .. Direct -> X]
      BY DEF InodeOK, Blocks
    <2> HIDE DEF w, X
    <2> QED
      BY <1>3, <2>1
  <1>5. (y # <<>> => Len(x) = p) /\ (z # <<>> => Len(y) = pp)
    <2>1. 1 \in 1 .. 2 /\ 2 \in 1 .. 2 /\ 1 + 1 = 2 /\ 2 + 1 = 3
      OBVIOUS
    <2> QED
      BY <2>1 DEF InodeOK
  <1>6. f = w \o x \o y \o z
    BY DEF FileBlocks
  <1>7. /\ FirstOn(vol, 1) = Direct /\ FirstOn(vol, 2) = Direct + p
        /\ FirstOn(vol, 3) = Direct + p + pp /\ FirstOn(vol, 4) = Direct + p + pp + ppp
    BY DEF FirstOn
  <1> HIDE DEF X, x, y, z, p, pp, ppp, f, w
  <1>8. /\ f \in Seq(X) /\ Len(f) = Len(w) + Len(x) + Len(y) + Len(z)
        /\ StandsAt(f, w, 0) /\ StandsAt(f, x, Len(w)) /\ StandsAt(f, y, Len(w) + Len(x))
        /\ StandsAt(f, z, Len(w) + Len(x) + Len(y))
    <2>1. f \in Seq(X) /\ FourParts(f, w, x, y, z)
      BY <1>1, <1>4, <1>6, FourJoined
    <2> QED
      BY <2>1 DEF FourParts
  <1> DEFINE a == Len(x)
             b == Len(y)
             c == Len(z)
             d == Direct
  <1>9. /\ a \in 0 .. p /\ b \in 0 .. pp /\ c \in 0 .. ppp /\ Len(w) = d /\ d \in Nat
        /\ (b # 0 => a = p) /\ (c # 0 => b = pp) /\ Len(f) = d + a + b + c
    <2>1. a \in Nat /\ b \in Nat /\ c \in Nat /\ a <= p /\ b <= pp /\ c <= ppp
      BY <1>1
    <2>2. (b # 0 => a = p) /\ (c # 0 => b = pp)
      BY <1>1, <1>5
    <2>3. Len(w) = d /\ d \in Nat /\ Len(f) = d + a + b + c
      BY <1>3, <1>4, <1>8
    <2> HIDE DEF a, b, c, d
    <2> QED
      BY <1>2, <2>1, <2>2, <2>3
  <1>10. d <= Len(f) /\ Len(f) <= d + p + pp + ppp
    <2> HIDE DEF a, b, c, d
    <2> QED
      BY <1>2, <1>9
  <1>11. ASSUME NEW index \in 0 .. d - 1 PROVE f[index + 1] = w[index + 1]
    <2>1. index + 1 \in 1 .. Len(w) /\ 0 + (index + 1) = index + 1
      BY <1>9
    <2> QED
      BY <1>8, <2>1 DEF StandsAt
  <1>12. ASSUME NEW index \in 0 .. Len(f) - 1, d <= index, index < d + p
         PROVE  index - d \in 0 .. a - 1 /\ f[index + 1] = x[(index - d) + 1]
    <2>1. index - d \in 0 .. a - 1
      <3> HIDE DEF a, b, c, d
      <3> QED
        BY <1>2, <1>9, <1>12
    <2>2. (index - d) + 1 \in 1 .. a /\ Len(w) + ((index - d) + 1) = index + 1
      <3> HIDE DEF a, d
      <3> QED
        BY <1>9, <2>1
    <2> DEFINE k == (index - d) + 1
    <2>3. f[Len(w) + k] = x[k]
      <3>1. k \in 1 .. Len(x)
        BY <2>2
      <3> HIDE DEF k
      <3> QED
        BY <1>8, <3>1, Zenon DEF StandsAt
    <2> QED
      BY <2>1, <2>2, <2>3
  <1>13. ASSUME NEW index \in 0 .. Len(f) - 1, d + p <= index, index < d + p + pp
         PROVE  index - (d + p) \in 0 .. b - 1 /\ f[index + 1] = y[(index - (d + p)) + 1]
    <2>1. index - (d + p) \in 0 .. b - 1 /\ a = p
      <3> HIDE DEF a, b, c, d
      <3> QED
        BY <1>2, <1>9, <1>13
    <2>2. /\ (index - (d + p)) + 1 \in 1 .. b
          /\ Len(w) + Len(x) + ((index - (d + p)) + 1) = index + 1
      BY <1>2, <1>9, <2>1
    <2> DEFINE k == (index - (d + p)) + 1
    <2>3. f[Len(w) + Len(x) + k] = y[k]
      <3>1. k \in 1 .. Len(y)
        BY <2>2
      <3> HIDE DEF k
      <3> QED
        BY <1>8, <3>1, Zenon DEF StandsAt
    <2> QED
      BY <2>1, <2>2, <2>3
  <1>14. ASSUME NEW index \in 0 .. Len(f) - 1, d + p + pp <= index
         PROVE  /\ index - (d + p + pp) \in 0 .. c - 1
                /\ f[index + 1] = z[(index - (d + p + pp)) + 1]
    <2>1. index - (d + p + pp) \in 0 .. c - 1 /\ a = p /\ b = pp
      <3> HIDE DEF a, b, c, d
      <3> QED
        BY <1>2, <1>9, <1>14
    <2>2. /\ (index - (d + p + pp)) + 1 \in 1 .. c
          /\ Len(w) + Len(x) + Len(y) + ((index - (d + p + pp)) + 1) = index + 1
      BY <1>2, <1>9, <2>1
    <2> DEFINE k == (index - (d + p + pp)) + 1
    <2>3. f[Len(w) + Len(x) + Len(y) + k] = z[k]
      <3>1. k \in 1 .. Len(z)
        BY <2>2
      <3> HIDE DEF k
      <3> QED
        BY <1>8, <3>1, Zenon DEF StandsAt
    <2> QED
      BY <2>1, <2>2, <2>3
  <1>15. ASSUME NEW index \in 0 .. Len(f) - 1, NEW level \in 1 .. 3,
                FirstOn(vol, level) <= index, index < FirstOn(vol, level + 1)
         PROVE  AtLevel(vol, i, index, level)
    <2>1. CASE level = 1
      <3>1. level + 1 = 2
        BY <2>1
      <3>2. d <= index /\ index < d + p
        BY <1>7, <1>15, <2>1, <3>1
      <3> QED
        BY <1>7, <1>12, <2>1, <3>2 DEF AtLevel, f, x
    <2>2. CASE level = 2
      <3>1. level + 1 = 3
        BY <2>2
      <3>2. d + p <= index /\ index < d + p + pp
        BY <1>7, <1>15, <2>2, <3>1
      <3> QED
        BY <1>7, <1>13, <2>2, <3>2 DEF AtLevel, f, y
    <2>3. CASE level = 3
      <3>1. d + p + pp <= index
        BY <1>7, <1>15, <2>3
      <3> QED
        BY <1>7, <1>14, <2>3, <3>1 DEF AtLevel, f, z
    <2> QED
      BY <2>1, <2>2, <2>3
  <1> QED
    BY <1>7, <1>8, <1>10, <1>11, <1>15 DEF f, w, X

-----------------------------------------------------------------------------
(* Reading blocks and inodes *)

\* the volume that was chosen is one of the consistent ones
LEMMA VolumeIsConsistent ==
    ASSUME Ext2Assumption, v \in 1 .. Len(Volumes)
    PROVE  Consistent(V)
  BY DEF Ext2Assumption, V

\* the blocks of a volume are numbered from 0
LEMMA BlocksAre ==
    ASSUME NEW vol, Consistent(vol)
    PROVE  /\ vol.block_size \in Nat \ {0} /\ vol.total_blocks \in Nat \ {0}
           /\ Blocks(vol) = 0 .. vol.total_blocks - 1
           /\ 0 \in Blocks(vol)
  BY DEF Consistent, GeometryOK, Blocks

\* the numbers of inodes and the greatest index
LEMMA NumbersAre ==
    ASSUME NEW vol, Consistent(vol)
    PROVE  vol.files \cup vol.dirs \subseteq Nat /\ vol.max_index \in Nat
  <1>1. GeometryOK(vol)
    BY DEF Consistent
  <1>2. /\ vol.files \cup vol.dirs \subseteq 1 .. vol.total_inodes
        /\ vol.total_inodes \in Nat /\ vol.max_index \in Nat
    BY <1>1 DEF GeometryOK
  <1> QED
    BY <1>2

\* the number of a block, in blocks of the device and back, does not wrap
LEMMA ReadsTheBlock ==
    ASSUME Ext2Assumption, Consistent(V), NEW b \in Blocks(V)
    PROVE  read_block(b) = V.disk[b]
  <1> DEFINE size == V.block_size
             k == size \div Sector
             bytes == b * size
             total == V.total_blocks
  <1>1. size \in Nat \ {0} /\ Sector \in Nat \ {0} /\ Word \in Nat \ {0} /\ total \in Nat
        /\ b \in 0 .. total - 1 /\ total * size <= Word /\ size % Sector = 0
    <2>1. total * size <= Word /\ size % Sector = 0
      BY DEF Consistent, GeometryOK
    <2>2. Sector \in Nat \ {0} /\ Word \in Nat \ {0}
      BY DEF Ext2Assumption
    <2> QED
      BY <2>1, <2>2, BlocksAre
  <1> HIDE DEF size, total
  <1>2. k \in Nat /\ size = k * Sector
    <2>1. k \in Nat /\ size = k * Sector + (size % Sector)
      BY <1>1, DivMod, Zenon
    <2>2. k * Sector \in Nat
      BY <1>1, <2>1
    <2> HIDE DEF k
    <2> QED
      BY <1>1, <2>1, <2>2
  <1> HIDE DEF k
  <1>3. b \in Nat /\ bytes \in Nat /\ bytes < Word
    <2>1. b * size + size <= total * size
      BY <1>1, NextMultiple
    <2>2. b * size \in Nat /\ total * size \in Nat
      BY <1>1
    <2> QED
      BY <1>1, <2>1, <2>2
  <1>4. bytes = (b * k) * Sector /\ b * k \in Nat
    <2>1. b * (k * Sector) = (b * k) * Sector
      BY <1>1, <1>2, <1>3
    <2>2. b * k \in Nat
      BY <1>2, <1>3
    <2> QED
      BY <1>2, <2>1, <2>2
  <1>5. bytes % Word = bytes
    <2> HIDE DEF bytes
    <2> QED
      BY <1>1, <1>3
  <1>6. bytes \div Sector = b * k
    <2> DEFINE y == b * k
    <2>1. y \in Nat /\ bytes = y * Sector + 0 /\ 0 \in 0 .. Sector - 1
      <3>1. y * Sector \in Nat
        BY <1>1, <1>4
      <3> QED
        BY <1>1, <1>4, <3>1
    <2> HIDE DEF y, bytes
    <2>2. bytes \div Sector = y
      BY <1>1, <1>3, <2>1, Quotient
    <2> QED
      BY <2>2 DEF y
  <1>7. bytes \div size = b
    <2>1. bytes = b * size + 0 /\ 0 \in 0 .. size - 1
      BY <1>1, <1>3
    <2> HIDE DEF bytes
    <2> QED
      BY <1>1, <1>3, <2>1, Quotient
  <1>8. get_sector_num(b) = b * k
    BY <1>5, <1>6 DEF get_sector_num, size
  <1>9. get_sector_num(b) * Sector = bytes
    BY <1>4, <1>8
  <1> QED
    BY <1>7, <1>9 DEF read_block, size

\* ext2_read_inode finds the inode in the table of its group
LEMMA InodeIsOnVolume ==
    ASSUME Ext2Assumption, Consistent(V), NEW n \in V.files \cup V.dirs
    PROVE  /\ InodeAt(n) = InodeOn(V, n)
           /\ InodeOn(V, n).number = n
           /\ InodeOK(V, InodeOn(V, n))
           /\ n \in V.files => FileOK(V, InodeOn(V, n))
           /\ n \in V.dirs => LongEnough(V, InodeOn(V, n))
  <1> DEFINE p == InodePlace(V, n)
  <1>1. InTable(V, n) /\ InodeOK(V, InodeOn(V, n))
    BY DEF Consistent
  <1>2. /\ n \in V.files => FileOK(V, InodeOn(V, n))
        /\ n \in V.dirs => LongEnough(V, InodeOn(V, n))
    BY DEF Consistent
  <1>3. /\ BgdtBlock \in Blocks(V) /\ InodeOn(V, n).number = n
        /\ V.disk[BgdtOn(V)].bgd[p.group] + p.block \in Blocks(V)
        /\ BgdtBlock = BgdtOn(V)
    BY <1>1 DEF InTable, Blocks, BgdtBlock, BgdtOn
  <1>4. read_block(BgdtBlock) = V.disk[BgdtOn(V)]
    BY <1>3, ReadsTheBlock
  <1> DEFINE t == V.disk[BgdtOn(V)].bgd[p.group] + p.block
  <1>5. read_block(t) = V.disk[t]
    <2> HIDE DEF t
    <2> QED
      BY <1>3, ReadsTheBlock DEF t
  <1>6. InodeAt(n) = read_block(t).inodes[p.slot]
    BY <1>4 DEF InodeAt, InodePlace, InodesPerBlock, InodeIndex
  <1>7. InodeOn(V, n) = V.disk[t].inodes[p.slot]
    BY DEF InodeOn
  <1> QED
    BY <1>1, <1>2, <1>3, <1>5, <1>6, <1>7

\* the last block of a directory is one of its blocks
LEMMA CeilIs ==
    ASSUME NEW n \in Nat, NEW m \in Nat \ {0}
    PROVE  /\ Ceil(n, m) \in Nat
           /\ \A k \in Nat : k < Ceil(n, m) => k * m < n
           /\ n <= Ceil(n, m) * m
           /\ n > 0 => Ceil(n, m) > 0
  <1> DEFINE q == n \div m
             r == n % m
             c == Ceil(n, m)
  <1>1. q \in Nat /\ r \in 0 .. m - 1 /\ n = q * m + r
    BY DivMod
  <1>2. c = IF r # 0 THEN q + 1 ELSE q
    BY <1>1 DEF Ceil
  <1>3. q * m \in Nat /\ (q + 1) * m = q * m + m
    BY <1>1
  <1> HIDE DEF q, r, c
  <1>4. c \in Nat
    BY <1>1, <1>2
  <1>5. ASSUME NEW k \in Nat, k < c PROVE k * m < n
    <2>1. k * m \in Nat
      OBVIOUS
    <2>2. CASE k < q
      <3>1. k * m + m <= q * m
        BY <1>1, <2>2, NextMultiple
      <3> QED
        BY <1>1, <1>3, <2>1, <3>1
    <2>3. CASE k = q
      <3>1. r > 0 /\ k * m = q * m
        BY <1>1, <1>2, <1>5, <2>3
      <3> QED
        BY <1>1, <1>3, <3>1
    <2> QED
      BY <1>1, <1>2, <1>5, <2>2, <2>3
  <1>6. n <= c * m
    <2>1. CASE r = 0
      BY <1>1, <1>2, <1>3, <2>1
    <2>2. CASE r # 0
      <3>1. c * m = q * m + m
        BY <1>2, <1>3, <2>2
      <3> QED
        BY <1>1, <1>3, <3>1
    <2> QED
      BY <2>1, <2>2
  <1>7. n > 0 => c > 0
    <2>1. 0 * m = 0
      OBVIOUS
    <2>2. c = 0 => c * m = 0
      BY <2>1
    <2> QED
      BY <1>4, <1>6, <2>2
  <1> QED
    BY <1>4, <1>5, <1>6, <1>7 DEF c

-----------------------------------------------------------------------------
(* The inductive invariant *)

Tasks == [kind : {"none", "file", "dir"}, inum : Nat, last : Int]
Working == {"index", "walk", "found", "entries"}

TaskOK ==
    /\ task \in Tasks
    /\ task.kind = "none" => task = NoTask /\ stage = "idle"
    /\ task.kind = "file" => task.inum \in V.files /\ task.last \in 0 .. V.max_index
    /\ task.kind = "dir" => task.inum \in V.dirs
    /\ stage = "inode" /\ task.kind = "dir" => cur = 0 /\ task.last = 0
    /\ stage \in Working \cup {"idle"} /\ task.kind = "dir"
         => task.last = TotalBlocks(inode.size) - 1

InodeKnown ==
    /\ task.kind = "none" \/ stage = "inode" => inode = NoInode
    /\ stage \in Working \cup {"idle"} /\ task.kind # "none" => inode = InodeOn(V, task.inum)
    /\ inode = NoInode \/ inode = InodeOn(V, task.inum)

CurOK ==
    /\ cur \in 0 .. task.last + 1
    /\ stage \in Working \cup {"inode"} => cur <= task.last

AtOK ==
    IF stage = "walk"
    THEN \E level \in 1 .. 3 :
           /\ IsOf(cur, level) /\ at.level \in 1 .. level
           /\ OnWay(V, inode.ibp[level], level, at.level, cur - FirstOf(level), at.block, at.index)
    ELSE at = Nowhere

\* the block at an index of the file, 0 if it has none
BlockAt(index) ==
    IF index < Len(FileBlocks(V, inode)) THEN FileBlocks(V, inode)[index + 1] ELSE 0

FoundOK ==
    /\ found \in Blocks(V)
    /\ stage = "found" => found = BlockAt(cur) \/ (faulty /\ found = 0)
    /\ stage = "entries" => found = BlockAt(cur)

AnswerOK ==
    /\ stage = "inode" => answer = NoAnswer
    /\ ~faulty /\ answer # NoAnswer => answer.block = BlockAt(answer.index)

ScalarsOK ==
    /\ bgdt \in {"none", "read", "garbage"}
    /\ stage \in Working \cup {"idle", "inode", "wild"}
    /\ ptr \in 0 .. V.block_size

Ext2Inv ==
    /\ v \in 1 .. Len(Volumes)
    /\ ScalarsOK /\ faulty \in BOOLEAN
    /\ TaskOK /\ InodeKnown /\ CurOK /\ AtOK /\ FoundOK /\ AnswerOK

\* the volume stays
LEMMA SameVolume == ASSUME v' = v PROVE V' = V
  BY DEF V

\* what is known of the index while it is looked for
LEMMA IndexFacts ==
    ASSUME Ext2Assumption, Ext2Inv, stage \in Working
    PROVE  /\ Consistent(V) /\ InodeOK(V, inode) /\ cur \in Nat
           /\ cur < Len(FileBlocks(V, inode)) \/ FirstOn(V, 4) <= cur
           /\ task.kind = "dir" => cur < Len(FileBlocks(V, inode)) /\ cur * V.block_size < inode.size
           /\ inode.size \in Nat
  <1>1. Consistent(V)
    BY VolumeIsConsistent DEF Ext2Inv
  <1>2. /\ task.kind \in {"file", "dir"} /\ inode = InodeOn(V, task.inum)
        /\ task.last \in Int /\ cur \in 0 .. task.last
    BY DEF Ext2Inv, TaskOK, InodeKnown, CurOK, Working, Tasks
  <1>3. task.inum \in V.files \cup V.dirs
    BY <1>2 DEF Ext2Inv, TaskOK
  <1>4. InodeOK(V, inode)
    BY <1>1, <1>2, <1>3, InodeIsOnVolume
  <1>5. inode.size \in Nat
    BY <1>4 DEF InodeOK
  <1>6. CASE task.kind = "file"
    <2>1. FileOK(V, inode)
      BY <1>1, <1>2, <1>6, InodeIsOnVolume DEF Ext2Inv, TaskOK
    <2>2. cur \in 0 .. V.max_index /\ V.max_index \in Nat
      <3>1. V.max_index \in Nat
        BY <1>1, NumbersAre
      <3> QED
        BY <1>2, <1>6, <3>1 DEF Ext2Inv, TaskOK
    <2>3. cur < Len(FileBlocks(V, inode)) \/ cur >= FirstOn(V, 4)
      BY <2>1, <2>2 DEF FileOK
    <2>4. FirstOn(V, 4) \in Int
      <3>1. PointersOn(V, 1) \in Nat /\ PointersOn(V, 2) \in Nat /\ PointersOn(V, 3) \in Nat
        BY <1>1, PointersAre
      <3>2. Direct \in Nat
        BY DEF Ext2Assumption
      <3> QED
        BY <3>1, <3>2 DEF FirstOn
    <2> QED
      BY <1>1, <1>2, <1>4, <1>5, <1>6, <2>3, <2>4
  <1>7. CASE task.kind = "dir"
    <2> DEFINE n == inode.size
               m == V.block_size
               l == Len(FileBlocks(V, inode))
    <2>1. LongEnough(V, inode) /\ task.last = TotalBlocks(n) - 1
      BY <1>1, <1>2, <1>7, InodeIsOnVolume DEF Ext2Inv, TaskOK
    <2>2. m \in Nat \ {0}
      BY <1>1, BlocksAre
    <2>3. l \in Nat
      BY <1>1, <1>4, BlockOfIndex
    <2>4. n <= l * m
      BY <2>1 DEF LongEnough
    <2> HIDE DEF n, m, l
    <2>5. TotalBlocks(n) = Ceil(n, m)
      BY DEF TotalBlocks, m
    <2>6. cur \in Nat /\ cur < Ceil(n, m)
      <3>1. Ceil(n, m) \in Nat
        BY <1>5, <2>2, CeilIs DEF n
      <3> QED
        BY <1>2, <2>1, <2>5, <3>1
    <2>7. cur * m < n
      BY <1>5, <2>2, <2>6, CeilIs DEF n
    <2>8. cur < l
      <3>1. cur * m < l * m
        <4> DEFINE x == cur * m
                   y == l * m
        <4>1. x < n /\ n <= y /\ n \in Nat
          BY <1>5, <2>4, <2>7 DEF n
        <4>2. x \in Nat /\ y \in Nat
          BY <2>2, <2>3, <2>6
        <4> HIDE DEF x, y
        <4>3. x < y
          BY <4>1, <4>2
        <4> QED
          BY <4>3 DEF x, y
      <3>2. l <= cur => l * m <= cur * m
        <4>1. CASE l = cur
          BY <2>2, <2>3, <4>1
        <4>2. CASE l < cur
          <5>1. l * m + m <= cur * m
            BY <2>2, <2>3, <2>6, <4>2, NextMultiple
          <5>2. l * m \in Nat /\ cur * m \in Nat
            BY <2>2, <2>3, <2>6
          <5> QED
            BY <2>2, <5>1, <5>2
        <4> QED
          BY <2>3, <2>6, <4>1, <4>2
      <3>3. l * m \in Nat /\ cur * m \in Nat
        BY <2>2, <2>3, <2>6
      <3> QED
        BY <2>3, <2>6, <3>1, <3>2, <3>3
    <2> QED
      BY <1>1, <1>4, <1>5, <2>6, <2>7, <2>8 DEF n, m, l
  <1> QED
    BY <1>2, <1>6, <1>7

\* nothing has been asked for at the start
LEMMA Ext2InitInv == Ext2Assumption /\ Ext2Init => Ext2Inv
  <1> SUFFICES ASSUME Ext2Assumption, Ext2Init PROVE Ext2Inv
    OBVIOUS
  <1>1. v \in 1 .. Len(Volumes)
    BY DEF Ext2Init
  <1>2. Consistent(V)
    BY <1>1, VolumeIsConsistent
  <1>3. 0 \in Blocks(V) /\ V.block_size \in Nat
    BY <1>2, BlocksAre
  <1>4. TaskOK /\ InodeKnown /\ CurOK
    BY DEF Ext2Init, TaskOK, InodeKnown, CurOK, NoTask, Tasks, Working
  <1>5. AtOK /\ FoundOK /\ AnswerOK
    BY <1>3 DEF Ext2Init, AtOK, FoundOK, AnswerOK, NoTask
  <1>6. ScalarsOK
    BY <1>3 DEF Ext2Init, ScalarsOK
  <1>7. faulty \in BOOLEAN
    BY Zenon DEF Ext2Init
  <1> QED
    BY <1>1, <1>4, <1>5, <1>6, <1>7 DEF Ext2Inv

\* a task begins with nothing loaded
LEMMA BeginInv ==
    ASSUME Ext2Assumption, Ext2Inv, NEW kind \in {"file", "dir"}, NEW n, NEW first, NEW last,
           Begin(kind, n, first, last), n \in Nat,
           kind = "file" => n \in V.files /\ last \in 0 .. V.max_index /\ first \in 0 .. last,
           kind = "dir" => n \in V.dirs /\ first = 0 /\ last = 0
    PROVE  Ext2Inv'
  <1>1. /\ stage = "idle" /\ v' = v /\ bgdt' = bgdt
        /\ task' = [kind |-> kind, inum |-> n, last |-> last]
        /\ stage' = "inode" /\ cur' = first
        /\ inode' = NoInode /\ at' = Nowhere /\ found' = 0 /\ ptr' = 0
        /\ answer' = NoAnswer /\ faulty' = FALSE
    BY DEF Begin
  <1>2. V' = V
    BY <1>1, SameVolume
  <1>3. Consistent(V)
    BY VolumeIsConsistent DEF Ext2Inv
  <1>4. 0 \in Blocks(V) /\ V.block_size \in Nat /\ V.max_index \in Nat
    BY <1>3, BlocksAre, NumbersAre
  <1>5. first \in Nat /\ last \in Nat /\ first <= last
    BY <1>4
  <1>6. TaskOK'
    BY <1>1, <1>2, <1>5 DEF TaskOK, Tasks, NoTask, Working
  <1>7. InodeKnown' /\ CurOK'
    BY <1>1, <1>2, <1>5 DEF InodeKnown, CurOK, Working
  <1>8. AtOK' /\ FoundOK' /\ AnswerOK'
    BY <1>1, <1>2, <1>4 DEF AtOK, FoundOK, AnswerOK
  <1>9. ScalarsOK'
    BY <1>1, <1>2, <1>4 DEF Ext2Inv, ScalarsOK
  <1>10. v' \in 1 .. Len(Volumes) /\ faulty' \in BOOLEAN
    BY <1>1, Zenon DEF Ext2Inv
  <1> QED
    BY <1>6, <1>7, <1>8, <1>9, <1>10, Zenon DEF Ext2Inv

-----------------------------------------------------------------------------
(* What each step does to it *)

\* the inode that is loaded is the one that was asked for
LEMMA ReadInodeInv ==
    ASSUME Ext2Assumption, Ext2Inv, ext2_read_inode
    PROVE  Ext2Inv'
  <1> DEFINE n == InodeOn(V, task.inum)
  <1>1. /\ stage = "inode" /\ inode' = InodeAt(task.inum)
        /\ v' = v /\ bgdt' = bgdt /\ cur' = cur /\ at' = at /\ found' = found /\ ptr' = ptr
        /\ answer' = answer /\ faulty' = faulty
    BY DEF ext2_read_inode
  <1>2. V' = V
    BY <1>1, SameVolume
  <1>3. Consistent(V)
    BY VolumeIsConsistent DEF Ext2Inv
  <1>4. task \in Tasks /\ task.kind \in {"file", "dir"} /\ task.inum \in V.files \cup V.dirs
    BY <1>1 DEF Ext2Inv, TaskOK, Tasks
  <1>5. inode' = n /\ InodeOK(V, n)
    BY <1>1, <1>3, <1>4, InodeIsOnVolume
  <1>6. n.size \in Nat /\ V.block_size \in Nat \ {0}
    BY <1>3, <1>5, BlocksAre DEF InodeOK
  <1> HIDE DEF n
  <1> DEFINE c == TotalBlocks(n.size)
  <1>7. c \in Nat /\ (n.size > 0 => c > 0)
    BY <1>6, CeilIs DEF TotalBlocks
  <1>8. (cur \in 0 .. task.last + 1) /\ cur <= task.last /\ at = Nowhere /\ answer = NoAnswer
    BY <1>1 DEF Ext2Inv, CurOK, AtOK, AnswerOK, Working
  <1>9. CASE task.kind = "file"
    <2>1. task' = task /\ stage' = "index"
      BY <1>9 DEF ext2_read_inode
    <2>2. TaskOK'
      BY <1>2, <1>9, <2>1 DEF Ext2Inv, TaskOK, Working
    <2>3. InodeKnown'
      BY <1>2, <1>5, <1>9, <2>1 DEF InodeKnown, Working, n
    <2>4. CurOK'
      BY <1>1, <1>8, <2>1 DEF CurOK, Working
    <2>5. AtOK' /\ FoundOK' /\ AnswerOK'
      BY <1>1, <1>2, <1>8, <2>1 DEF Ext2Inv, AtOK, FoundOK, AnswerOK
    <2>6. ScalarsOK'
      BY <1>1, <1>2, <2>1 DEF Ext2Inv, ScalarsOK, Working
    <2> QED
      BY <1>1, <2>2, <2>3, <2>4, <2>5, <2>6, Zenon DEF Ext2Inv
  <1>10. CASE task.kind = "dir"
    <2> DEFINE t == [task EXCEPT !.last = c - 1]
    <2>1. task' = t
      <3>1. TotalBlocks(inode'.size) = c
        BY <1>5
      <3> QED
        BY <1>10, <3>1 DEF ext2_read_inode
    <2>2. stage' = IF n.size = 0 THEN "idle" ELSE "index"
      BY <1>5, <1>10 DEF ext2_read_inode
    <2>3. t = [kind |-> "dir", inum |-> task.inum, last |-> c - 1]
      BY <1>4, <1>10 DEF Tasks
    <2>4. cur = 0 /\ task.inum \in V.dirs /\ task.inum \in Nat
      BY <1>1, <1>4, <1>10 DEF Ext2Inv, TaskOK, Tasks
    <2> HIDE DEF t
    <2>5. /\ task'.kind = "dir" /\ task'.inum = task.inum /\ task'.last = c - 1
          /\ task' \in Tasks
      BY <1>7, <2>1, <2>3, <2>4 DEF Tasks
    <2>6. stage' \in {"idle", "index"} /\ (stage' = "index" => c > 0)
      BY <1>6, <1>7, <2>2
    <2> HIDE DEF c
    <2>8. TaskOK'
      <3>1. (TotalBlocks(inode.size))' = c
        BY <1>2, <1>5 DEF TotalBlocks, Ceil, c
      <3> QED
        BY <1>2, <2>4, <2>5, <2>6, <3>1 DEF TaskOK, Working
    <2>9. InodeKnown'
      BY <1>2, <1>5, <2>5, <2>6 DEF InodeKnown, Working, n
    <2>10. CurOK'
      BY <1>1, <1>7, <2>4, <2>5, <2>6 DEF CurOK, Working
    <2>11. AtOK' /\ FoundOK' /\ AnswerOK'
      BY <1>1, <1>2, <1>8, <2>6 DEF Ext2Inv, AtOK, FoundOK, AnswerOK
    <2>12. ScalarsOK'
      BY <1>1, <1>2, <2>6 DEF Ext2Inv, ScalarsOK, Working
    <2> QED
      BY <1>1, <2>8, <2>9, <2>10, <2>11, <2>12, Zenon DEF Ext2Inv
  <1> QED
    BY <1>4, <1>9, <1>10

\* where nothing is known any more, only what was loaded is kept
LEMMA WildInv ==
    ASSUME Ext2Assumption, Ext2Inv, GoesWild, stage \in {"inode", "found", "entries"}
    PROVE  Ext2Inv'
  <1>1. /\ stage' = "wild" /\ faulty' = TRUE
        /\ v' = v /\ bgdt' = bgdt /\ task' = task /\ inode' = inode /\ cur' = cur
        /\ at' = at /\ found' = found /\ ptr' = ptr /\ answer' = answer
    BY DEF GoesWild
  <1>2. V' = V
    BY <1>1, SameVolume
  <1>3. task.kind # "none"
    BY DEF Ext2Inv, TaskOK
  <1>4. TaskOK'
    BY <1>1, <1>2, <1>3 DEF Ext2Inv, TaskOK, Working
  <1>5. InodeKnown' /\ CurOK'
    BY <1>1, <1>2, <1>3 DEF Ext2Inv, InodeKnown, CurOK, Working
  <1>6. AtOK' /\ FoundOK' /\ AnswerOK'
    BY <1>1, <1>2 DEF Ext2Inv, AtOK, FoundOK, AnswerOK
  <1>7. ScalarsOK'
    BY <1>1, <1>2 DEF Ext2Inv, ScalarsOK
  <1>8. faulty' \in BOOLEAN /\ v' \in 1 .. Len(Volumes)
    BY <1>1, Zenon DEF Ext2Inv
  <1> QED
    BY <1>4, <1>5, <1>6, <1>7, <1>8, Zenon DEF Ext2Inv

\* a restart forgets everything
LEMMA RestartInv ==
    ASSUME Ext2Assumption, Ext2Inv, Restart
    PROVE  Ext2Inv'
  <1>1. /\ v' = v /\ bgdt' = "none" /\ task' = NoTask /\ stage' = "idle" /\ inode' = NoInode
        /\ cur' = 0 /\ at' = Nowhere /\ found' = 0 /\ ptr' = 0
        /\ answer' = NoAnswer /\ faulty' = FALSE
    BY DEF Restart
  <1>2. V' = V
    BY <1>1, SameVolume
  <1>3. Consistent(V)
    BY VolumeIsConsistent DEF Ext2Inv
  <1>4. 0 \in Blocks(V) /\ V.block_size \in Nat
    BY <1>3, BlocksAre
  <1>5. TaskOK' /\ InodeKnown' /\ CurOK'
    BY <1>1 DEF TaskOK, InodeKnown, CurOK, NoTask, Tasks, Working
  <1>6. AtOK' /\ FoundOK' /\ AnswerOK'
    BY <1>1, <1>2, <1>4 DEF AtOK, FoundOK, AnswerOK
  <1>7. ScalarsOK'
    BY <1>1, <1>2, <1>4 DEF ScalarsOK
  <1>8. faulty' \in BOOLEAN /\ v' \in 1 .. Len(Volumes)
    BY <1>1, Zenon DEF Ext2Inv
  <1> QED
    BY <1>5, <1>6, <1>7, <1>8, Zenon DEF Ext2Inv

\* the way begins at the root of the tree of its level, or is over
LEMMA IndexInv ==
    ASSUME Ext2Assumption, Ext2Inv, Index
    PROVE  Ext2Inv'
  <1> DEFINE f == FileBlocks(V, inode)
  <1>1. /\ stage = "index"
        /\ v' = v /\ bgdt' = bgdt /\ task' = task /\ inode' = inode /\ cur' = cur
        /\ ptr' = ptr /\ answer' = answer /\ faulty' = faulty
    BY DEF Index
  <1>2. V' = V
    BY <1>1, SameVolume
  <1>3. /\ Consistent(V) /\ InodeOK(V, inode) /\ cur \in Nat
        /\ cur < Len(f) \/ FirstOn(V, 4) <= cur
    BY <1>1, IndexFacts DEF Working
  <1>4. /\ f \in Seq(Blocks(V)) /\ Direct <= Len(f) /\ Len(f) <= FirstOn(V, 4)
        /\ \A index \in 0 .. Direct - 1 : f[index + 1] = inode.db[index + 1]
        /\ \A index \in 0 .. Len(f) - 1, level \in 1 .. 3 :
             FirstOn(V, level) <= index /\ index < FirstOn(V, level + 1)
                 => AtLevel(V, inode, index, level)
    BY <1>3, BlockOfIndex
  <1>5. at = Nowhere /\ found \in Blocks(V) /\ 0 \in Blocks(V) /\ task.kind # "none"
    BY <1>1, <1>3, BlocksAre DEF Ext2Inv, AtOK, FoundOK, TaskOK
  <1> HIDE DEF f
  <1>6. \/ stage' = "found" /\ at' = Nowhere /\ found' = BlockAt(cur) /\ found' \in Blocks(V)
        \/ stage' = "walk" /\ found' = found /\ (AtOK)'
    <2>1. CASE IsOf(cur, 0) /\ found' = inode.db[cur + 1] /\ stage' = "found" /\ at' = at
      <3>1. Direct \in Nat /\ cur < Direct
        <4>1. 0 + 1 = 1 /\ FirstOn(V, 1) = Direct /\ Direct \in Nat
          BY DEF FirstOn, Ext2Assumption
        <4> QED
          BY <2>1, <4>1 DEF IsOf, FirstOf
      <3>2. cur \in 0 .. Direct - 1 /\ cur < Len(f) /\ cur + 1 \in 1 .. Len(f)
        BY <1>3, <1>4, <3>1
      <3>3. found' = f[cur + 1] /\ found' \in Blocks(V)
        BY <1>4, <2>1, <3>2
      <3> QED
        BY <1>5, <2>1, <3>2, <3>3 DEF BlockAt, f
    <2>2. ASSUME NEW level \in 1 .. 3, IsOf(cur, level),
                 at' = [block |-> inode.ibp[level], level |-> level, index |-> cur - FirstOf(level)],
                 stage' = "walk", found' = found
          PROVE  AtOK'
      <3> DEFINE e == cur - FirstOf(level)
                 b == inode.ibp[level]
      <3>1. FirstOn(V, level) <= cur /\ cur < FirstOn(V, level + 1)
        BY <2>2 DEF IsOf, FirstOf
      <3>2. cur < FirstOn(V, 4) /\ FirstOn(V, 4) \in Nat
        <4>1. level + 1 \in {2, 3, 4} /\ level + 1 \in 0 .. 4
          OBVIOUS
        <4>2. /\ FirstOn(V, 2) \in Nat /\ FirstOn(V, 3) \in Nat /\ FirstOn(V, 4) \in Nat
              /\ FirstOn(V, 2) <= FirstOn(V, 3) /\ FirstOn(V, 3) <= FirstOn(V, 4)
          BY <1>3, FirstsAre
        <4> QED
          BY <1>3, <3>1, <4>1, <4>2
      <3>3. cur \in 0 .. Len(f) - 1
        BY <1>3, <1>4, <3>2
      <3>4. AtLevel(V, inode, cur, level)
        BY <1>4, <3>1, <3>3
      <3>5. e \in 0 .. Len(LevelBelow(V, b, level)) - 1
        BY <3>4 DEF AtLevel, Leaves, FirstOf
      <3>6. Tree(V, b, level)
        BY <1>3, TreesOfInode
      <3> HIDE DEF e, b
      <3>7. OnWay(V, b, level, level, e, b, e)
        BY <1>3, <3>5, <3>6, WayBegins
      <3>8. at'.block = b /\ at'.level = level /\ at'.index = e
        BY <2>2 DEF e, b
      <3>9. OnWay(V, b, level, at'.level, e, at'.block, at'.index) /\ at'.level \in 1 .. level
        BY <3>7, <3>8
      <3> QED
        BY <1>1, <1>2, <2>2, <3>9 DEF AtOK, IsOf, FirstOf, e, b
    <2>3. CASE cur >= FirstOf(4) /\ found' = 0 /\ stage' = "found" /\ at' = at
      <3>1. FirstOn(V, 4) \in Nat /\ Len(f) \in Nat
        BY <1>3, <1>4, FirstsAre
      <3>2. ~(cur < Len(f))
        BY <1>3, <1>4, <2>3, <3>1 DEF FirstOf
      <3> QED
        BY <1>5, <2>3, <3>2 DEF BlockAt, f
    <2> QED
      BY <2>1, <2>2, <2>3 DEF Index
  <1>7. BlockAt(cur)' = BlockAt(cur) /\ \A index : BlockAt(index)' = BlockAt(index)
    BY <1>1, <1>2 DEF BlockAt
  <1>8. AtOK'
    BY <1>6 DEF AtOK
  <1>9. FoundOK'
    <2>1. found' \in Blocks(V)'
      BY <1>2, <1>5, <1>6
    <2>2. stage' = "found" => found' = BlockAt(cur)'
      BY <1>6, <1>7
    <2> QED
      BY <1>6, <2>1, <2>2 DEF FoundOK
  <1>10. TaskOK'
    BY <1>1, <1>2, <1>5, <1>6 DEF Ext2Inv, TaskOK, Working, TotalBlocks, Ceil
  <1>11. InodeKnown' /\ CurOK'
    BY <1>1, <1>2, <1>5, <1>6 DEF Ext2Inv, InodeKnown, CurOK, Working
  <1>12. AnswerOK'
    BY <1>1, <1>2, <1>6 DEF Ext2Inv, AnswerOK, BlockAt
  <1>13. ScalarsOK'
    BY <1>1, <1>2, <1>6 DEF Ext2Inv, ScalarsOK, Working
  <1>14. faulty' \in BOOLEAN /\ v' \in 1 .. Len(Volumes)
    BY <1>1, Zenon DEF Ext2Inv
  <1> QED
    BY <1>8, <1>9, <1>10, <1>11, <1>12, <1>13, <1>14, Zenon DEF Ext2Inv

\* what a step that stays with the inode and the task keeps
LEMMA KeptInv ==
    ASSUME Ext2Assumption, Ext2Inv, stage \in Working,
           v' = v, bgdt' = bgdt, task' = task, inode' = inode,
           stage' \in Working \cup {"idle"}
    PROVE  /\ V' = V /\ TaskOK' /\ InodeKnown'
           /\ \A index : BlockAt(index)' = BlockAt(index)
           /\ bgdt' \in {"none", "read", "garbage"}
           /\ stage' \in Working \cup {"idle", "inode", "wild"}
           /\ v' \in 1 .. Len(Volumes)
           /\ cur \in Nat /\ task.last \in Int /\ cur <= task.last
           /\ task.kind \in {"file", "dir"}
  <1>1. V' = V
    BY SameVolume
  <1>2. task.kind \in {"file", "dir"} /\ task.last \in Int
    BY DEF Ext2Inv, TaskOK, Working, Tasks
  <1>3. TaskOK'
    BY <1>1, <1>2 DEF Ext2Inv, TaskOK, Working, TotalBlocks, Ceil
  <1>4. InodeKnown'
    BY <1>1, <1>2 DEF Ext2Inv, InodeKnown, Working
  <1>5. \A index : BlockAt(index)' = BlockAt(index)
    BY <1>1 DEF BlockAt
  <1>6. cur \in Nat /\ cur <= task.last
    BY <1>2 DEF Ext2Inv, CurOK
  <1> QED
    BY <1>1, <1>2, <1>3, <1>4, <1>5, <1>6 DEF Ext2Inv, ScalarsOK

\* the walk stays on the way, and ends at the block
LEMMA WalkInv ==
    ASSUME Ext2Assumption, Ext2Inv, Walk
    PROVE  Ext2Inv'
  <1>1. /\ stage = "walk" /\ stage \in Working
        /\ v' = v /\ bgdt' = bgdt /\ task' = task /\ inode' = inode /\ cur' = cur
        /\ ptr' = ptr /\ answer' = answer /\ faulty' = faulty
    BY DEF Walk, Working
  <1>2. stage' \in {"walk", "found"}
    BY <1>1 DEF Walk
  <1>3. /\ V' = V /\ TaskOK' /\ InodeKnown'
        /\ \A index : BlockAt(index)' = BlockAt(index)
        /\ bgdt' \in {"none", "read", "garbage"}
        /\ stage' \in Working \cup {"idle", "inode", "wild"}
        /\ v' \in 1 .. Len(Volumes)
        /\ cur \in Nat /\ task.last \in Int /\ cur <= task.last
    <2>1. stage' \in Working \cup {"idle"}
      BY <1>2 DEF Working
    <2> QED
      BY <1>1, <2>1, KeptInv
  <1>4. /\ Consistent(V) /\ InodeOK(V, inode)
        /\ cur < Len(FileBlocks(V, inode)) \/ FirstOn(V, 4) <= cur
    BY <1>1, IndexFacts
  <1>5. PICK level \in 1 .. 3 :
          /\ IsOf(cur, level) /\ at.level \in 1 .. level
          /\ OnWay(V, inode.ibp[level], level, at.level, cur - FirstOf(level), at.block, at.index)
    BY <1>1 DEF Ext2Inv, AtOK
  <1> DEFINE e == cur - FirstOf(level)
             b == inode.ibp[level]
             f == FileBlocks(V, inode)
             m == at.level
             below == m - 1
             small == PointersOn(V, below)
             k == at.index \div small
             r == at.index % small
             p == Ptrs(V, at.block)[k + 1]
  <1>6. m \in 1 .. level /\ OnWay(V, b, level, m, e, at.block, at.index)
    BY <1>5
  <1>7. FirstOn(V, level) <= cur /\ cur < FirstOn(V, level + 1)
    BY <1>5 DEF IsOf, FirstOf
  <1>8. cur \in 0 .. Len(f) - 1
    <2>1. level + 1 \in {2, 3, 4} /\ level + 1 \in 0 .. 4
      OBVIOUS
    <2>2. /\ FirstOn(V, 2) \in Nat /\ FirstOn(V, 3) \in Nat /\ FirstOn(V, 4) \in Nat
          /\ FirstOn(V, 2) <= FirstOn(V, 3) /\ FirstOn(V, 3) <= FirstOn(V, 4)
      BY <1>4, FirstsAre
    <2>3. Len(f) \in Nat
      BY <1>4, BlockOfIndex
    <2> HIDE DEF f
    <2>4. cur < Len(f)
      <3>1. cur < Len(f) \/ FirstOn(V, 4) <= cur
        BY <1>4 DEF f
      <3>2. FirstOn(V, level + 1) <= FirstOn(V, 4) /\ FirstOn(V, level + 1) \in Nat
        BY <2>1, <2>2
      <3>3. cur < FirstOn(V, 4)
        BY <1>3, <1>7, <2>2, <3>2
      <3> QED
        BY <1>3, <2>2, <3>1, <3>3
    <2> QED
      BY <1>3, <2>3, <2>4
  <1>9. AtLevel(V, inode, cur, level)
    BY <1>4, <1>7, <1>8, BlockOfIndex
  <1>10. /\ e \in 0 .. Len(LevelBelow(V, b, level)) - 1
         /\ f[cur + 1] = LevelBelow(V, b, level)[e + 1]
    BY <1>9 DEF AtLevel, Leaves, FirstOf
  <1>11. Tree(V, b, level)
    BY <1>4, TreesOfInode
  <1>12. below \in 0 .. level /\ below \in 0 .. 2 /\ e \in Nat
    <2> HIDE DEF e, b, f, m
    <2>1. level \in 1 .. 3 /\ m \in 1 .. level
      BY <1>6
    <2>2. e \in Nat
      BY <1>10
    <2> QED
      BY <2>1, <2>2
  <1> HIDE DEF e, b, f, m
  <1>13. e \div small \in 0 .. Len(LevelBelow(V, b, level - below)) - 1
    BY <1>4, <1>10, <1>11, <1>12, Ancestors
  <1>14. /\ at.block \in Blocks(V) /\ k \in 0 .. Len(Ptrs(V, at.block)) - 1
         /\ OnWay(V, b, level, below, e, p, r)
    BY <1>4, <1>6, <1>11, <1>12, <1>13, WayStep
  <1>15. read_block(at.block).ptrs = Ptrs(V, at.block)
    BY <1>4, <1>14, ReadsTheBlock DEF Ptrs
  <1>16. p \in Blocks(V)
    <2>1. Ptrs(V, at.block) \in Seq(Blocks(V))
      BY <1>4, <1>14 DEF Consistent, PointersOK, Ptrs, Blocks
    <2>2. k + 1 \in 1 .. Len(Ptrs(V, at.block))
      BY <1>14, <2>1
    <2> HIDE DEF k
    <2> QED
      BY <2>1, <2>2
  <1>17. read_block(at.block).ptrs[at.index \div Span + 1] = p /\ at.index % Span = r
    <2>1. Span = small
      BY DEF Span, Pointers, m
    <2> QED
      BY <1>15, <2>1
  <1> HIDE DEF p, k, r
  <1>18. ASSUME m = 1 PROVE AtOK' /\ FoundOK'
    <2>1. found' = p /\ stage' = "found" /\ at' = Nowhere
      BY <1>17, <1>18 DEF Walk, LastLevel, m
    <2>2. p = f[cur + 1]
      <3>1. below = 0 /\ level \in Int
        BY <1>18
      <3>2. p = LevelBelow(V, b, level)[e + 1]
        BY <1>12, <1>14, <3>1, WayEnds
      <3> QED
        BY <1>10, <3>2
    <2>3. p = BlockAt(cur)
      <3>1. Len(f) \in Nat
        BY <1>4, BlockOfIndex DEF f
      <3> QED
        BY <1>8, <2>2, <3>1 DEF BlockAt, f
    <2>4. AtOK'
      BY <2>1 DEF AtOK
    <2>5. FoundOK'
      BY <1>1, <1>3, <1>16, <2>1, <2>3 DEF FoundOK
    <2> QED
      BY <2>1, <2>4, <2>5
  <1>19. ASSUME m # 1 PROVE AtOK' /\ FoundOK'
    <2> DEFINE next == [block |-> p, level |-> below, index |-> r]
    <2>1. at' = next /\ found' = found /\ stage' = stage
      BY <1>17, <1>19 DEF Walk, LastLevel, m
    <2>2. next.block = p /\ next.level = below /\ next.index = r
      OBVIOUS
    <2> HIDE DEF next
    <2>3. below \in 1 .. level
      BY <1>6, <1>19
    <2> HIDE DEF below
    <2>4. /\ IsOf(cur, level) /\ at'.level \in 1 .. level
          /\ OnWay(V, b, level, at'.level, e, at'.block, at'.index)
      BY <1>5, <1>14, <2>1, <2>2, <2>3
    <2>5. AtOK'
      BY <1>1, <1>3, <2>1, <2>4 DEF AtOK, IsOf, FirstOf, e, b
    <2>6. FoundOK'
      BY <1>1, <1>3, <2>1 DEF Ext2Inv, FoundOK
    <2> QED
      BY <2>5, <2>6
  <1>20. AtOK' /\ FoundOK'
    BY <1>18, <1>19
  <1>21. CurOK'
    BY <1>1, <1>2, <1>3 DEF CurOK, Working
  <1>22. AnswerOK'
    BY <1>1, <1>2, <1>3 DEF Ext2Inv, AnswerOK
  <1>23. ScalarsOK' /\ v' \in 1 .. Len(Volumes)
    BY <1>1, <1>3 DEF Ext2Inv, ScalarsOK
  <1>24. faulty' \in BOOLEAN
    BY <1>1, Zenon DEF Ext2Inv
  <1> QED
    BY <1>3, <1>20, <1>21, <1>22, <1>23, <1>24, Zenon DEF Ext2Inv

\* a failure is remembered
LEMMA WalkFailsInv ==
    ASSUME Ext2Assumption, Ext2Inv, WalkFails
    PROVE  Ext2Inv'
  <1>1. /\ stage = "walk" /\ stage \in Working /\ stage' = "found" /\ stage' \in Working
        /\ found' = 0 /\ at' = Nowhere /\ faulty' = TRUE
        /\ v' = v /\ bgdt' = bgdt /\ task' = task /\ inode' = inode /\ cur' = cur
        /\ ptr' = ptr /\ answer' = answer
    BY DEF WalkFails, Working
  <1>2. /\ V' = V /\ TaskOK' /\ InodeKnown'
        /\ bgdt' \in {"none", "read", "garbage"}
        /\ stage' \in Working \cup {"idle", "inode", "wild"}
        /\ v' \in 1 .. Len(Volumes)
        /\ cur \in Nat /\ task.last \in Int /\ cur <= task.last
    BY <1>1, KeptInv
  <1>3. 0 \in Blocks(V)
    BY VolumeIsConsistent, BlocksAre DEF Ext2Inv
  <1>4. AtOK' /\ FoundOK' /\ CurOK' /\ AnswerOK'
    BY <1>1, <1>2, <1>3 DEF AtOK, FoundOK, CurOK, AnswerOK
  <1>5. ScalarsOK'
    BY <1>1, <1>2 DEF Ext2Inv, ScalarsOK
  <1>6. faulty' \in BOOLEAN
    BY <1>1, Zenon
  <1> QED
    BY <1>2, <1>4, <1>5, <1>6, Zenon DEF Ext2Inv

\* a turn ends: with the next block or with the task
LEMMA EndTurnInv ==
    ASSUME Ext2Assumption, Ext2Inv, stage \in Working \ {"walk"}, EndTurn,
           v' = v, bgdt' = bgdt, task' = task, inode' = inode, at' = at, found' = found,
           ptr' = ptr, faulty' = faulty, AnswerOK'
    PROVE  Ext2Inv'
  <1>1. cur' = cur + 1 /\ stage' = IF cur + 1 <= task.last THEN "index" ELSE "idle"
    BY DEF EndTurn, NextBlock
  <1>2. stage' \in {"index", "idle"}
    BY <1>1
  <1>3. /\ V' = V /\ TaskOK' /\ InodeKnown'
        /\ bgdt' \in {"none", "read", "garbage"}
        /\ stage' \in Working \cup {"idle", "inode", "wild"}
        /\ v' \in 1 .. Len(Volumes)
        /\ cur \in Nat /\ task.last \in Int /\ cur <= task.last
    <2>1. stage \in Working /\ stage' \in Working \cup {"idle"}
      BY <1>2 DEF Working
    <2> QED
      BY <2>1, KeptInv
  <1>4. CurOK'
    <2>1. cur' \in 0 .. task.last + 1 /\ (stage' # "idle" => cur' <= task.last)
      BY <1>1, <1>3
    <2> QED
      BY <1>2, <2>1 DEF CurOK, Working
  <1>5. AtOK' /\ FoundOK'
    BY <1>2, <1>3 DEF Ext2Inv, AtOK, FoundOK
  <1>6. ScalarsOK'
    BY <1>3 DEF Ext2Inv, ScalarsOK
  <1>7. faulty' \in BOOLEAN
    BY Zenon DEF Ext2Inv
  <1> QED
    BY <1>3, <1>4, <1>5, <1>6, <1>7, Zenon DEF Ext2Inv

\* fs_fread is given the block of its index
LEMMA FileBlockInv ==
    ASSUME Ext2Assumption, Ext2Inv, FileBlock
    PROVE  Ext2Inv'
  <1>1. /\ stage = "found" /\ stage \in Working \ {"walk"} /\ stage \in Working /\ EndTurn
        /\ answer' = [index |-> cur, block |-> found]
        /\ v' = v /\ bgdt' = bgdt /\ task' = task /\ inode' = inode
        /\ at' = at /\ found' = found /\ ptr' = ptr /\ faulty' = faulty
    BY DEF FileBlock, Working
  <1>2. stage' \in {"index", "idle"}
    BY <1>1 DEF EndTurn
  <1>3. \A index : BlockAt(index)' = BlockAt(index)
    <2>1. stage' \in Working \cup {"idle"}
      BY <1>2 DEF Working
    <2> QED
      BY <1>1, <2>1, KeptInv
  <1>4. found = BlockAt(cur) \/ faulty
    BY <1>1 DEF Ext2Inv, FoundOK
  <1>5. answer'.index = cur /\ answer'.block = found
    BY <1>1
  <1>6. AnswerOK'
    BY <1>1, <1>2, <1>3, <1>4, <1>5 DEF AnswerOK
  <1> QED
    BY <1>1, <1>6, EndTurnInv

\* the next block of a directory comes next
LEMMA DirBlockDoneInv ==
    ASSUME Ext2Assumption, Ext2Inv, DirBlockDone
    PROVE  Ext2Inv'
  <1>1. /\ stage = "entries" /\ stage \in Working \ {"walk"} /\ stage \in Working /\ EndTurn
        /\ answer' = answer
        /\ v' = v /\ bgdt' = bgdt /\ task' = task /\ inode' = inode
        /\ at' = at /\ found' = found /\ ptr' = ptr /\ faulty' = faulty
    BY DEF DirBlockDone, Working
  <1>2. stage' \in {"index", "idle"}
    BY <1>1 DEF EndTurn
  <1>3. \A index : BlockAt(index)' = BlockAt(index)
    <2>1. stage' \in Working \cup {"idle"}
      BY <1>2 DEF Working
    <2> QED
      BY <1>1, <2>1, KeptInv
  <1>4. AnswerOK'
    BY <1>1, <1>2, <1>3 DEF Ext2Inv, AnswerOK
  <1> QED
    BY <1>1, <1>4, EndTurnInv

\* a step that stays at its index
LEMMA SameIndexInv ==
    ASSUME Ext2Assumption, Ext2Inv, stage \in {"found", "entries"}, stage' = "entries",
           found = BlockAt(cur), ptr' \in 0 .. V.block_size,
           v' = v, bgdt' = bgdt, task' = task, inode' = inode, at' = at, found' = found,
           cur' = cur, faulty' = faulty, answer' = answer
    PROVE  Ext2Inv'
  <1>1. stage \in Working /\ stage' \in Working \cup {"idle"} /\ stage' \in Working
    BY DEF Working
  <1>2. /\ V' = V /\ TaskOK' /\ InodeKnown'
        /\ \A index : BlockAt(index)' = BlockAt(index)
        /\ bgdt' \in {"none", "read", "garbage"}
        /\ stage' \in Working \cup {"idle", "inode", "wild"}
        /\ v' \in 1 .. Len(Volumes)
        /\ cur \in Nat /\ task.last \in Int /\ cur <= task.last
    BY <1>1, KeptInv
  <1>3. AtOK' /\ CurOK' /\ AnswerOK'
    BY <1>2 DEF Ext2Inv, AtOK, CurOK, AnswerOK
  <1>4. FoundOK'
    BY <1>2 DEF Ext2Inv, FoundOK
  <1>5. ScalarsOK'
    BY <1>2 DEF Ext2Inv, ScalarsOK
  <1>6. faulty' \in BOOLEAN
    BY Zenon DEF Ext2Inv
  <1> QED
    BY <1>2, <1>3, <1>4, <1>5, <1>6, Zenon DEF Ext2Inv

\* entries are looked for in the block of the index
LEMMA DirBlockInv ==
    ASSUME Ext2Assumption, Ext2Inv, DirBlock
    PROVE  Ext2Inv'
  <1>1. /\ stage = "found" /\ stage' = "entries" /\ found # 0 /\ ptr' = 0
        /\ v' = v /\ bgdt' = bgdt /\ task' = task /\ inode' = inode /\ at' = at
        /\ found' = found /\ cur' = cur /\ faulty' = faulty /\ answer' = answer
    BY DEF DirBlock
  <1>2. found = BlockAt(cur)
    BY <1>1 DEF Ext2Inv, FoundOK
  <1>3. V.block_size \in Nat
    BY VolumeIsConsistent, BlocksAre DEF Ext2Inv
  <1> QED
    BY <1>1, <1>2, <1>3, SameIndexInv

\* what is known of the entry at which the code is
LEMMA EntryFacts ==
    ASSUME Ext2Assumption, Ext2Inv, stage = "entries", task.kind = "dir", ptr < TotalBlockSize
    PROVE  /\ found = FileBlocks(V, inode)[cur + 1] /\ found \in Blocks(V)
           /\ read_block(found).dir = V.disk[found].dir
           /\ DirOK(V, found)
           /\ ptr \in 0 .. V.block_size - 1
           /\ V.disk[found].dir[ptr].size \in 0 .. V.block_size - ptr
  <1>1. stage \in Working
    BY DEF Working
  <1>2. Consistent(V) /\ cur < Len(FileBlocks(V, inode)) /\ inode.size \in Nat
    BY <1>1, IndexFacts
  <1>3. found = FileBlocks(V, inode)[cur + 1] /\ found \in Blocks(V) /\ ptr \in Nat
    BY <1>2 DEF Ext2Inv, FoundOK, BlockAt, ScalarsOK
  <1>4. DirOK(V, found)
    BY <1>2, <1>3 DEF Consistent, Blocks
  <1>5. ptr \in 0 .. V.block_size - 1
    <2>1. V.block_size \in Nat \ {0}
      BY <1>2, BlocksAre
    <2>2. inode.size % V.block_size \in 0 .. V.block_size - 1
      BY <1>2, <2>1, DivMod
    <2> QED
      BY <1>3, <2>1, <2>2 DEF TotalBlockSize
  <1>6. read_block(found) = V.disk[found]
    BY <1>2, <1>3, ReadsTheBlock
  <1> QED
    BY <1>3, <1>4, <1>5, <1>6 DEF DirOK

\* entries are read for directories only
KindOK == stage = "entries" => task.kind = "dir"

\* the next entry begins in the block, or at its end
LEMMA DirEntryInv ==
    ASSUME Ext2Assumption, Ext2Inv, KindOK, DirEntry
    PROVE  Ext2Inv'
  <1> DEFINE size == V.disk[found].dir[ptr].size
  <1>1. /\ stage = "entries" /\ stage' = "entries" /\ ptr < TotalBlockSize
        /\ ptr' = ptr + read_block(found).dir[ptr].size
        /\ v' = v /\ bgdt' = bgdt /\ task' = task /\ inode' = inode /\ at' = at
        /\ found' = found /\ cur' = cur /\ faulty' = faulty /\ answer' = answer
    BY DEF DirEntry
  <1>2. /\ read_block(found).dir = V.disk[found].dir
        /\ ptr \in 0 .. V.block_size - 1
        /\ size \in 0 .. V.block_size - ptr
    BY <1>1, EntryFacts DEF KindOK
  <1>3. found = BlockAt(cur)
    BY <1>1 DEF Ext2Inv, FoundOK
  <1>4. ptr' = ptr + size
    BY <1>1, <1>2
  <1>5. V.block_size \in Nat
    BY VolumeIsConsistent, BlocksAre DEF Ext2Inv
  <1> HIDE DEF size
  <1>6. ptr' \in 0 .. V.block_size
    BY <1>2, <1>4, <1>5
  <1> QED
    BY <1>1, <1>3, <1>6, SameIndexInv

-----------------------------------------------------------------------------
(* The index and the types *)

\* starting the file system disturbs nothing
LEMMA Ext2StutterInv ==
    ASSUME Ext2Inv, v' = v, bgdt' \in {"none", "read", "garbage"}, task' = task, stage' = stage,
           inode' = inode, cur' = cur, at' = at, found' = found, ptr' = ptr, answer' = answer,
           faulty' = faulty
    PROVE  Ext2Inv'
  <1>1. V' = V
    BY SameVolume
  <1>2. TaskOK'
    BY <1>1 DEF Ext2Inv, TaskOK, TotalBlocks, Ceil
  <1>3. InodeKnown' /\ CurOK' /\ FoundOK'
    BY <1>1 DEF Ext2Inv, InodeKnown, CurOK, FoundOK, BlockAt
  <1>4. AtOK'
    BY <1>1 DEF Ext2Inv, AtOK, IsOf, FirstOf
  <1>5. AnswerOK' /\ ScalarsOK' /\ v' \in 1 .. Len(Volumes)
    BY <1>1 DEF Ext2Inv, AnswerOK, BlockAt, ScalarsOK
  <1>6. faulty' \in BOOLEAN
    BY Zenon DEF Ext2Inv
  <1> QED
    BY <1>2, <1>3, <1>4, <1>5, <1>6, Zenon DEF Ext2Inv

\* entries are read for directories only, in every step
LEMMA KindNext ==
    ASSUME Ext2Next, KindOK, task.kind \in {"none", "file", "dir"}
    PROVE  KindOK'
  <1>1. \/ stage' = stage /\ task' = task
        \/ stage' # "entries"
        \/ stage' = "entries" /\ task' = task /\ task.kind = "dir"
    <2>1. CASE ext2_init \/ DirBlock \/ DirEntry
      BY <2>1 DEF ext2_init, DirBlock, DirEntry
    <2>2. CASE ext2_read_inode
      BY <2>2 DEF ext2_read_inode
    <2>3. CASE \/ InodeOfGarbage \/ DirOfBootBlock \/ InodeFails \/ DirBlockFails
               \/ EntryInodeFails \/ Restart
      BY <2>3 DEF InodeOfGarbage, DirOfBootBlock, InodeFails, DirBlockFails, EntryInodeFails,
                  GoesWild, Restart
    <2>4. CASE Index
      BY <2>4 DEF Index
    <2>5. CASE Walk \/ WalkFails
      BY <2>5 DEF Walk, WalkFails
    <2>6. CASE FileBlock \/ DirBlockDone
      BY <2>6 DEF FileBlock, DirBlockDone, EndTurn
    <2>7. CASE \/ \E n \in V.files : \E first, last \in 0 .. V.max_index :
                      first <= last /\ ext2_fread(n, first, last)
               \/ \E n \in V.dirs : ext2_read_dir(n)
      BY <2>7 DEF ext2_fread, ext2_read_dir, Begin
    <2> QED
      BY <2>1, <2>2, <2>3, <2>4, <2>5, <2>6, <2>7 DEF Ext2Next, Work
  <1> QED
    BY <1>1 DEF KindOK

\* every step keeps the invariant
LEMMA Ext2NextInv ==
    ASSUME Ext2Assumption, Ext2Inv, KindOK, [Ext2Next]_ext2Vars
    PROVE  Ext2Inv' /\ KindOK'
  <1>1. CASE UNCHANGED ext2Vars
    <2>1. /\ v' = v /\ bgdt' = bgdt /\ task' = task /\ stage' = stage /\ inode' = inode
          /\ cur' = cur /\ at' = at /\ found' = found /\ ptr' = ptr /\ answer' = answer
          /\ faulty' = faulty
      BY <1>1 DEF ext2Vars
    <2>2. bgdt' \in {"none", "read", "garbage"}
      BY <2>1 DEF Ext2Inv, ScalarsOK
    <2>3. Ext2Inv'
      BY <2>1, <2>2, Ext2StutterInv
    <2>4. KindOK'
      BY <2>1 DEF KindOK
    <2> QED
      BY <2>3, <2>4
  <1>2. CASE Ext2Next
    <2>1. KindOK'
      <3>1. task.kind \in {"none", "file", "dir"}
        BY DEF Ext2Inv, TaskOK, Tasks
      <3> QED
        BY <1>2, <3>1, KindNext
    <2>2. CASE ext2_init
      <3>1. /\ v' = v /\ bgdt' \in {"none", "read", "garbage"} /\ task' = task /\ stage' = stage
            /\ inode' = inode /\ cur' = cur /\ at' = at /\ found' = found /\ ptr' = ptr
            /\ answer' = answer /\ faulty' = faulty
        BY <2>2 DEF ext2_init
      <3>2. Ext2Inv'
        BY <3>1, Ext2StutterInv
      <3> QED
        BY <2>1, <3>2
    <2>3. CASE \E n \in V.files : \E first, last \in 0 .. V.max_index :
                    first <= last /\ ext2_fread(n, first, last)
      <3>1. PICK n \in V.files, first \in 0 .. V.max_index, last \in 0 .. V.max_index :
                first <= last /\ Begin("file", n, first, last)
        BY <2>3 DEF ext2_fread
      <3>2. n \in Nat /\ first \in 0 .. last
        <4>1. n \in Nat /\ V.max_index \in Nat
          BY VolumeIsConsistent, NumbersAre DEF Ext2Inv
        <4> QED
          BY <3>1, <4>1
      <3>3. Ext2Inv'
        BY <3>1, <3>2, BeginInv
      <3> QED
        BY <2>1, <3>3
    <2>4. CASE \E n \in V.dirs : ext2_read_dir(n)
      <3>1. PICK n \in V.dirs : Begin("dir", n, 0, 0)
        BY <2>4 DEF ext2_read_dir
      <3>2. n \in Nat
        BY VolumeIsConsistent, NumbersAre DEF Ext2Inv
      <3>3. Ext2Inv'
        BY <3>1, <3>2, BeginInv
      <3> QED
        BY <2>1, <3>3
    <2>5. CASE ext2_read_inode
      BY <2>1, <2>5, ReadInodeInv
    <2>6. CASE Index
      BY <2>1, <2>6, IndexInv
    <2>7. CASE Walk
      BY <2>1, <2>7, WalkInv
    <2>8. CASE WalkFails
      BY <2>1, <2>8, WalkFailsInv
    <2>9. CASE FileBlock
      BY <2>1, <2>9, FileBlockInv
    <2>10. CASE DirBlock
      BY <2>1, <2>10, DirBlockInv
    <2>11. CASE DirEntry
      BY <2>1, <2>11, DirEntryInv
    <2>12. CASE DirBlockDone
      BY <2>1, <2>12, DirBlockDoneInv
    <2>13. CASE \/ InodeFails \/ InodeOfGarbage \/ DirOfBootBlock \/ DirBlockFails
                \/ EntryInodeFails
      <3>1. GoesWild /\ stage \in {"inode", "found", "entries"}
        BY <2>13 DEF InodeFails, InodeOfGarbage, DirOfBootBlock, DirBlockFails, EntryInodeFails
      <3>2. Ext2Inv'
        BY <3>1, WildInv
      <3> QED
        BY <2>1, <3>2
    <2>14. CASE Restart
      BY <2>1, <2>14, RestartInv
    <2> QED
      BY <1>2, <2>2, <2>3, <2>4, <2>5, <2>6, <2>7, <2>8, <2>9, <2>10, <2>11, <2>12, <2>13, <2>14
         DEF Ext2Next, Work
  <1> QED
    BY <1>1, <1>2

\* the invariant holds in every state
LEMMA Ext2SpecInv == Ext2Spec => [](Ext2Inv /\ KindOK)
  <1>1. Ext2Init => Ext2Inv /\ KindOK
    <2>1. Ext2Init => Ext2Inv
      BY Ext2Assumption, Ext2InitInv
    <2>2. Ext2Init => KindOK
      BY DEF Ext2Init, KindOK
    <2> QED
      BY <2>1, <2>2
  <1>2. Ext2Inv /\ KindOK /\ [Ext2Next]_ext2Vars => (Ext2Inv /\ KindOK)'
    <2>1. Ext2Inv /\ KindOK /\ [Ext2Next]_ext2Vars => Ext2Inv' /\ KindOK'
      BY Ext2Assumption, Ext2NextInv
    <2> QED
      BY <2>1
  <1> QED
    BY <1>1, <1>2, PTL DEF Ext2Spec

\* On every consistent volume, whatever its sizes of blocks, each index in a file
\* leads to the block that comes at that place when the tree is read from left to
\* right: the cases, quotients and remainders of get_block_no_from_inode agree.
THEOREM IndexFollowsTreeHolds == Ext2Spec => []IndexFollowsTree
  <1>1. Ext2Inv => IndexFollowsTree
    BY DEF Ext2Inv, AnswerOK, BlockAt, IndexFollowsTree
  <1> QED
    BY <1>1, Ext2SpecInv, PTL

\* the walk is at a block of the volume
LEMMA AtIsTyped ==
    ASSUME Ext2Assumption, Ext2Inv
    PROVE  /\ at.level \in 0 .. 3 /\ at.index \in 0 .. Pointers(at.level) - 1
           /\ at.block \in Blocks(V)
  <1>1. Consistent(V)
    BY VolumeIsConsistent DEF Ext2Inv
  <1>2. CASE stage # "walk"
    <2>1. at = Nowhere
      BY <1>2 DEF Ext2Inv, AtOK
    <2>2. PointersOn(V, 0) = 1 /\ 0 \in Blocks(V)
      BY <1>1, PointersAre, BlocksAre
    <2>3. at.block = 0 /\ at.level = 0 /\ at.index = 0
      BY <2>1 DEF Nowhere
    <2> QED
      BY <2>2, <2>3 DEF Pointers
  <1>3. CASE stage = "walk"
    <2>1. PICK level \in 1 .. 3 :
            /\ IsOf(cur, level) /\ at.level \in 1 .. level
            /\ OnWay(V, inode.ibp[level], level, at.level, cur - FirstOf(level), at.block, at.index)
      BY <1>3 DEF Ext2Inv, AtOK
    <2> DEFINE e == cur - FirstOf(level)
               b == inode.ibp[level]
               m == at.level
               size == PointersOn(V, m)
               above == LevelBelow(V, b, level - m)
    <2>2. stage \in Working
      BY <1>3 DEF Working
    <2>3. InodeOK(V, inode) /\ cur \in Nat
      BY <2>2, IndexFacts
    <2>4. e \in Nat
      <3>1. level \in 0 .. 4
        OBVIOUS
      <3>2. FirstOn(V, level) \in Nat
        BY <1>1, <3>1, FirstsAre
      <3> QED
        BY <2>1, <2>3, <3>2 DEF IsOf, FirstOf
    <2>5. m \in 1 .. 3 /\ size \in Nat \ {0}
      <3>1. m \in 1 .. 3
        BY <2>1
      <3> HIDE DEF m
      <3>2. m \in 0 .. 2 \/ m = 3
        BY <3>1
      <3>3. size \in Nat \ {0}
        BY <1>1, <3>2, PointersAre
      <3> QED
        BY <3>1, <3>3
    <2>6. Tree(V, b, level)
      BY <2>3, TreesOfInode
    <2>7. level - m \in 0 .. level
      BY <2>1
    <2> HIDE DEF e, b, m
    <2>8. above \in Seq(Blocks(V))
      BY <1>1, <2>6, <2>7, LevelTypes DEF LevelOK
    <2> DEFINE k == e \div size
    <2>9. k \in 0 .. Len(above) - 1 /\ at.block = above[k + 1] /\ at.index = e % size
      BY <2>1 DEF OnWay, e, b, m
    <2> HIDE DEF k, above
    <2>10. at.block \in Blocks(V)
      <3>1. k + 1 \in 1 .. Len(above)
        BY <2>8, <2>9
      <3> QED
        BY <2>8, <2>9, <3>1
    <2>11. e % size \in 0 .. size - 1
      BY <2>4, <2>5, DivMod
    <2> QED
      BY <2>5, <2>9, <2>10, <2>11 DEF Pointers, m
  <1> QED
    BY <1>2, <1>3

\* On every consistent volume the code of ext2.c stays in the blocks that are there
\* and in the pointers and entries of a block.
THEOREM Ext2TypeCorrect == Ext2Spec => []Ext2TypeOK
  <1>1. Ext2Inv => Ext2TypeOK
    <2> SUFFICES ASSUME Ext2Inv PROVE Ext2TypeOK
      OBVIOUS
    <2>1. Consistent(V)
      BY Ext2Assumption, VolumeIsConsistent DEF Ext2Inv
    <2>2. bgdt \in {"none", "read", "garbage"} /\ ptr \in 0 .. V.block_size
      BY DEF Ext2Inv, ScalarsOK
    <2>3. stage \in {"idle", "inode", "index", "walk", "found", "entries", "wild"}
      BY DEF Ext2Inv, ScalarsOK, Working
    <2>4. task.kind \in {"none", "file", "dir"}
      BY DEF Ext2Inv, TaskOK, Tasks
    <2>5. inode = NoInode \/ inode.number = task.inum
      <3>1. CASE task.kind = "none"
        BY <3>1 DEF Ext2Inv, InodeKnown
      <3>2. CASE task.kind # "none"
        <4>1. task.inum \in V.files \cup V.dirs
          BY <2>4, <3>2 DEF Ext2Inv, TaskOK
        <4>2. InodeOn(V, task.inum).number = task.inum
          BY Ext2Assumption, <2>1, <4>1, InodeIsOnVolume
        <4> QED
          BY <4>2 DEF Ext2Inv, InodeKnown
      <3> QED
        BY <3>1, <3>2
    <2>6. cur \in 0 .. task.last + 1
      BY DEF Ext2Inv, CurOK
    <2>7. /\ at.level \in 0 .. 3 /\ at.index \in 0 .. Pointers(at.level) - 1
          /\ at.block \in Blocks(V)
      BY Ext2Assumption, AtIsTyped
    <2>8. {at.block, found} \subseteq DOMAIN V.disk
      BY <2>7 DEF Ext2Inv, FoundOK, Blocks
    <2>9. faulty \in BOOLEAN
      BY Zenon DEF Ext2Inv
    <2> QED
      BY <2>2, <2>3, <2>4, <2>5, <2>6, <2>7, <2>8, <2>9, Zenon DEF Ext2TypeOK
  <1> QED
    BY <1>1, Ext2SpecInv, PTL

-----------------------------------------------------------------------------
(* The list of a directory *)

\* the entries of a list that were not freed
Live(l) == {k \in 1 .. Len(l) : ~l[k].freed}

\* the entries before a place that are to be listed
Used(vol, i, here) == {p \in 0 .. i.size - 1 : p < here /\ InUse(EntryAt(vol, i, p))}

Listed(vol, i, l, here) ==
    /\ {l[k].place : k \in Live(l)} = Used(vol, i, here)
    /\ \A k \in Live(l) : LET e == EntryAt(vol, i, l[k].place)
                          IN  l[k].name = e.name /\ l[k].inum = e.inum
    /\ \A j, k \in Live(l) : j < k => l[j].place < l[k].place

\* r is the last entry of the list, behind all that were not freed
Added(l0, l1, r) ==
    LET n == Len(l1)
    IN  /\ n \in Nat \ {0} /\ n - 1 <= Len(l0)
        /\ l1[n] = r
        /\ \A k \in 1 .. n - 1 : l1[k] = l0[k]
        /\ \A k \in Live(l0) : k < n

\* a new entry goes to the end of the list, or in the place of a freed one at the end
LEMMA LinkedAdds ==
    ASSUME NEW X, NEW l0 \in Seq(X), NEW r, NEW l1 \in Linked(l0, r)
    PROVE  l1 \in Seq(X \cup {r}) /\ Added(l0, l1, r)
  <1> DEFINE n == Len(l0)
             Y == X \cup {r}
  <1>1. n \in Nat /\ l0 \in Seq(Y)
    OBVIOUS
  <1>2. CASE l1 = Append(l0, r)
    <2>1. /\ l1 \in Seq(Y) /\ Len(l1) = n + 1 /\ l1[n + 1] = r
          /\ \A k \in 1 .. n : l1[k] = l0[k]
      BY <1>1, <1>2
    <2>2. \A k \in Live(l0) : k < n + 1
      BY <1>1 DEF Live
    <2> QED
      BY <1>1, <2>1, <2>2 DEF Added
  <1>3. CASE n > 0 /\ l0[n].freed /\ l1 = [l0 EXCEPT ![n] = r]
    <2>1. /\ l1 \in Seq(Y) /\ Len(l1) = n /\ l1[n] = r
          /\ \A k \in 1 .. n - 1 : l1[k] = l0[k]
      BY <1>1, <1>3
    <2>2. \A k \in Live(l0) : k < n
      BY <1>1, <1>3 DEF Live
    <2>3. n \in Nat \ {0} /\ n - 1 <= n
      BY <1>1, <1>3
    <2> QED
      BY <2>1, <2>2, <2>3 DEF Added
  <1> QED
    BY <1>2, <1>3 DEF Linked

\* the new entry comes after all that are listed
LEMMA AddedListed ==
    ASSUME NEW vol, NEW i, i.size \in Nat, NEW here \in Nat, here < i.size, NEW next \in Nat,
           here <= next, NEW l0, NEW l1, NEW r, Len(l0) \in Nat, Added(l0, l1, r),
           Listed(vol, i, l0, here), r.place = here,
           r.name = EntryAt(vol, i, here).name, r.inum = EntryAt(vol, i, here).inum,
           r.freed <=> ~InUse(EntryAt(vol, i, here)),
           InUse(EntryAt(vol, i, here)) => here < next,
           \A q \in here + 1 .. next - 1 : ~InUse(EntryAt(vol, i, q))
    PROVE  Listed(vol, i, l1, next)
  <1> DEFINE n == Len(l1)
             e == EntryAt(vol, i, here)
             new == IF InUse(e) THEN {n} ELSE {}
  <1>1. /\ n \in Nat \ {0} /\ n - 1 <= Len(l0) /\ l1[n] = r
        /\ \A k \in 1 .. n - 1 : l1[k] = l0[k]
        /\ \A k \in Live(l0) : k < n
    BY DEF Added
  <1>2. \A k \in Live(l0) : k \in 1 .. n - 1
    BY <1>1 DEF Live
  <1>3. Live(l1) = Live(l0) \cup new
    <2>1. ASSUME NEW k \in Live(l1) PROVE k \in Live(l0) \cup new
      <3>1. k \in 1 .. n /\ ~l1[k].freed
        BY <2>1 DEF Live
      <3>2. CASE k = n
        BY <1>1, <3>1, <3>2
      <3>3. CASE k # n
        <4>1. k \in 1 .. n - 1 /\ k \in 1 .. Len(l0)
          BY <1>1, <3>1, <3>3
        <4>2. ~l0[k].freed
          BY <1>1, <3>1, <4>1
        <4> QED
          BY <4>1, <4>2 DEF Live
      <3> QED
        BY <3>2, <3>3
    <2>2. ASSUME NEW k \in Live(l0) PROVE k \in Live(l1)
      <3>1. k \in 1 .. n - 1 /\ ~l0[k].freed
        BY <1>2 DEF Live
      <3>2. k \in 1 .. n /\ ~l1[k].freed
        BY <1>1, <3>1
      <3> QED
        BY <3>2 DEF Live
    <2>3. ASSUME NEW k \in new PROVE k \in Live(l1)
      <3>1. InUse(e) /\ k = n
        OBVIOUS
      <3>2. ~l1[n].freed
        BY <1>1, <3>1
      <3>3. n \in 1 .. n
        BY <1>1
      <3> QED
        BY <3>1, <3>2, <3>3 DEF Live
    <2> QED
      BY <2>1, <2>2, <2>3
  <1>4. \A k \in Live(l0) : l1[k] = l0[k]
    BY <1>1, <1>2
  <1>5. \A k \in Live(l0) : l0[k].place \in Used(vol, i, here)
    BY DEF Listed
  <1>6. \A k \in Live(l0) : l0[k].place < here
    BY <1>5 DEF Used
  <1>7. Used(vol, i, next) = Used(vol, i, here) \cup (IF InUse(e) THEN {here} ELSE {})
    <2>1. ASSUME NEW p \in 0 .. i.size - 1, InUse(EntryAt(vol, i, p))
          PROVE  p < next <=> p < here \/ p = here
      <3>1. here < p /\ p < next => FALSE
        BY <2>1
      <3>2. p = here => here < next
        BY <2>1
      <3> QED
        BY <2>1, <3>1, <3>2
    <2>2. here \in 0 .. i.size - 1
      OBVIOUS
    <2> HIDE DEF e
    <2>3. InUse(e) => here \in Used(vol, i, next)
      BY <2>1, <2>2 DEF Used, e
    <2>4. Used(vol, i, here) \subseteq Used(vol, i, next)
      BY <2>1 DEF Used
    <2>5. ASSUME NEW p \in Used(vol, i, next)
          PROVE  p \in Used(vol, i, here) \/ (p = here /\ InUse(e))
      BY <2>1 DEF Used, e
    <2> QED
      BY <2>3, <2>4, <2>5
  <1>8. {l1[k].place : k \in Live(l1)} = Used(vol, i, next)
    <2>1. {l1[k].place : k \in Live(l0)} = Used(vol, i, here)
      BY <1>4 DEF Listed
    <2>2. {l1[k].place : k \in new} = IF InUse(e) THEN {here} ELSE {}
      BY <1>1
    <2> HIDE DEF new, e
    <2>3. {l1[k].place : k \in Live(l1)}
            = {l1[k].place : k \in Live(l0)} \cup {l1[k].place : k \in new}
      BY <1>3
    <2> QED
      BY <1>7, <2>1, <2>2, <2>3
  <1>9. ASSUME NEW k \in Live(l1)
        PROVE  /\ l1[k].name = EntryAt(vol, i, l1[k].place).name
               /\ l1[k].inum = EntryAt(vol, i, l1[k].place).inum
    <2>1. CASE k \in Live(l0)
      BY <1>4, <2>1 DEF Listed
    <2>2. CASE k = n
      BY <1>1, <2>2
    <2> QED
      BY <1>3, <2>1, <2>2
  <1>10. ASSUME NEW j \in Live(l1), NEW k \in Live(l1), j < k
         PROVE  l1[j].place < l1[k].place
    <2>1. j \in 1 .. n /\ k \in 1 .. n
      BY DEF Live
    <2>2. j < n
      BY <1>1, <1>10, <2>1
    <2>3. j \in Live(l0)
      BY <1>1, <1>3, <2>1, <2>2
    <2>4. CASE k \in Live(l0)
      BY <1>4, <1>10, <2>3, <2>4 DEF Listed
    <2>5. CASE k = n
      BY <1>1, <1>4, <1>6, <2>3, <2>5
    <2> QED
      BY <1>3, <2>4, <2>5
  <1> QED
    BY <1>8, <1>9, <1>10 DEF Listed

\* nothing was used in between
LEMMA SkippedListed ==
    ASSUME NEW vol, NEW i, i.size \in Nat, NEW here \in Nat, NEW next \in Nat,
           here <= next, NEW l, Listed(vol, i, l, here),
           \A q \in here .. next - 1 : q < i.size => ~InUse(EntryAt(vol, i, q))
    PROVE  Listed(vol, i, l, next)
  <1>1. Used(vol, i, next) = Used(vol, i, here)
    <2>1. ASSUME NEW p \in 0 .. i.size - 1, InUse(EntryAt(vol, i, p))
          PROVE  p < next <=> p < here
      BY <2>1
    <2> QED
      BY <2>1 DEF Used
  <1> QED
    BY <1>1 DEF Listed

\* the byte of the directory up to which it has been read
Here ==
    CASE stage = "entries" -> Place
      [] stage = "idle" -> inode.size
      [] OTHER -> cur * V.block_size

ListOK ==
    /\ \E X : list \in Seq(X)
    /\ stage = "inode" => list = <<>>
    /\ task.kind = "dir" /\ stage \in Working \cup {"idle"} => Listed(V, inode, list, Here)

\* where a byte of a directory is
LEMMA EntryAtPlace ==
    ASSUME NEW vol, vol.block_size \in Nat \ {0}, NEW i, NEW c \in Nat,
           NEW p \in 0 .. vol.block_size - 1
    PROVE  EntryAt(vol, i, c * vol.block_size + p) = vol.disk[FileBlocks(vol, i)[c + 1]].dir[p]
  <1> DEFINE m == vol.block_size
             n == c * m + p
  <1>1. m \in Nat \ {0} /\ n \in Nat /\ p \in 0 .. m - 1
    OBVIOUS
  <1> HIDE DEF m
  <1>2. n = c * m + p
    OBVIOUS
  <1> HIDE DEF n
  <1>3. n \div m = c /\ n % m = p
    BY <1>1, <1>2, Quotient
  <1>4. EntryAt(vol, i, n) = vol.disk[FileBlocks(vol, i)[n \div m + 1]].dir[n % m]
    BY DEF EntryAt, m
  <1> QED
    BY <1>3, <1>4 DEF n, m

\* where the blocks of a directory end
LEMMA TurnFacts ==
    ASSUME Ext2Assumption, Ext2Inv, stage = "entries", task.kind = "dir"
    PROVE  /\ Place \in Nat /\ inode.size \in Nat /\ cur \in Nat /\ V.block_size \in Nat \ {0}
           /\ task.last \in Int /\ cur <= task.last
           /\ ptr < TotalBlockSize => Place < inode.size
           /\ ~(ptr < TotalBlockSize) /\ cur < task.last => Place = (cur + 1) * V.block_size
           /\ ~(ptr < TotalBlockSize) /\ cur = task.last => inode.size <= Place
  <1> DEFINE m == V.block_size
             s == inode.size
             q == s \div m
             r == s % m
             qm == q * m
             cm == cur * m
             c == Ceil(s, m)
             next == (cur + 1) * m
             t == TotalBlockSize
  <1>1. stage \in Working
    BY DEF Working
  <1>2. Consistent(V) /\ cur \in Nat /\ s \in Nat
    BY <1>1, IndexFacts
  <1>3. m \in Nat \ {0}
    BY <1>2, BlocksAre
  <1>4. ptr \in 0 .. m /\ task.last = c - 1 /\ cur <= task.last
    BY <1>1 DEF Ext2Inv, ScalarsOK, TaskOK, CurOK, TotalBlocks
  <1>5. Place = cm + ptr
    BY DEF Place
  <1> HIDE DEF m, s
  <1>6. q \in Nat /\ r \in 0 .. m - 1 /\ s = qm + r
    BY <1>2, <1>3, DivMod
  <1>7. c = IF r # 0 THEN q + 1 ELSE q
    BY <1>6 DEF Ceil
  <1>8. c \in Nat
    <2> HIDE DEF q, r, c
    <2> QED
      BY <1>6, <1>7
  <1>9. t = IF cur = task.last /\ r # 0 THEN r ELSE m
    BY DEF TotalBlockSize, m, s
  <1>10. cm \in Nat /\ next = cm + m /\ qm \in Nat
    <2> HIDE DEF q
    <2> QED
      BY <1>2, <1>3, <1>6
  <1>11. cur < task.last => next < s
    <2>1. cur < task.last => cur + 1 < c /\ cur + 1 \in Nat
      <3> HIDE DEF c
      <3> QED
        BY <1>2, <1>4, <1>8
    <2> QED
      BY <1>2, <1>3, <2>1, CeilIs
  <1>12. cur = task.last => IF r # 0 THEN cm = qm ELSE next = qm
    <2>1. cur = task.last => IF r # 0 THEN cur = q ELSE cur + 1 = q
      <3> HIDE DEF q, r, c
      <3> QED
        BY <1>2, <1>4, <1>6, <1>7, <1>8
    <2> QED
      BY <2>1
  <1> HIDE DEF q, r, c, cm, next, t, qm
  <1>13. ptr < t => Place < s
    <2>1. CASE cur < task.last
      BY <1>2, <1>3, <1>4, <1>5, <1>8, <1>9, <1>10, <1>11, <2>1
    <2>2. CASE cur = task.last
      BY <1>2, <1>3, <1>4, <1>5, <1>6, <1>9, <1>10, <1>12, <2>2
    <2> QED
      BY <1>2, <1>4, <1>8, <2>1, <2>2
  <1>14. ~(ptr < t) /\ cur < task.last => Place = next
    BY <1>2, <1>3, <1>4, <1>5, <1>8, <1>9, <1>10
  <1>15. ~(ptr < t) /\ cur = task.last => s <= Place
    BY <1>2, <1>3, <1>4, <1>5, <1>6, <1>9, <1>10, <1>12
  <1>16. Place \in Nat /\ task.last \in Int
    BY <1>4, <1>5, <1>8, <1>10
  <1> QED
    BY <1>2, <1>3, <1>4, <1>13, <1>14, <1>15, <1>16 DEF next, m, s, t

\* Listed depends on nothing else
LEMMA ListedPrime ==
    ASSUME v' = v, Listed(V, inode', list', Here')
    PROVE  Listed(V, inode, list, Here)'
  <1>1. V' = V
    BY SameVolume
  <1> QED
    BY <1>1 DEF Listed

\* a step that does not come on in the directory
LEMMA SameListed ==
    ASSUME ListOK, v' = v, task' = task, inode' = inode, list' = list,
           stage' # "inode",
           task.kind = "dir" /\ stage' \in Working \cup {"idle"}
             => stage \in Working \cup {"idle"} /\ Here' = Here
    PROVE  ListOK'
  <1>1. V' = V
    BY SameVolume
  <1>2. (\E X : list \in Seq(X))'
    BY DEF ListOK
  <1>3. ASSUME task'.kind = "dir", stage' \in Working \cup {"idle"}
        PROVE  Listed(V, inode, list, Here)'
    <2>1. Listed(V, inode, list, Here) /\ Here' = Here
      BY <1>3 DEF ListOK
    <2>2. Listed(V, inode', list', Here')
      BY <2>1
    <2> QED
      BY <2>2, ListedPrime
  <1> QED
    BY <1>2, <1>3 DEF ListOK

\* looking for a block lists nothing
LEMMA SameTurnListed ==
    ASSUME Ext2Assumption, Ext2Inv, KindOK, ListOK,
           Index \/ Walk \/ WalkFails \/ FileBlock \/ DirBlock
    PROVE  ListOK'
  <1>1. v' = v /\ task' = task /\ inode' = inode /\ list' = list /\ stage \in Working
    BY DEF Index, Walk, WalkFails, FileBlock, DirBlock, Working
  <1>2. V' = V
    BY <1>1, SameVolume
  <1>3. CASE Index \/ Walk \/ WalkFails
    <2>1. /\ stage \in {"index", "walk"} /\ stage' \in {"walk", "found"} /\ cur' = cur
      <3>1. CASE Index
        BY <3>1 DEF Index
      <3>2. CASE Walk
        BY <3>2 DEF Walk
      <3>3. CASE WalkFails
        BY <3>3 DEF WalkFails
      <3> QED
        BY <1>3, <3>1, <3>2, <3>3
    <2>2. Here' = Here
      BY <1>2, <2>1 DEF Here
    <2> QED
      BY <1>1, <2>1, <2>2, SameListed
  <1>4. CASE DirBlock
    <2>1. stage = "found" /\ stage' = "entries" /\ cur' = cur /\ ptr' = 0
      BY <1>4 DEF DirBlock
    <2>2. Consistent(V) /\ cur \in Nat
      BY <1>1, IndexFacts
    <2>3. cur * V.block_size \in Nat
      <3>1. V.block_size \in Nat
        BY <2>2, BlocksAre
      <3> QED
        BY <2>2, <3>1
    <2>4. Here = cur * V.block_size
      BY <2>1 DEF Here
    <2>5. Here' = cur * V.block_size + 0
      BY <1>2, <2>1 DEF Here, Place
    <2>6. Here' = Here
      BY <2>3, <2>4, <2>5
    <2> QED
      BY <1>1, <2>1, <2>6, SameListed
  <1>5. CASE FileBlock
    <2>1. task.kind = "file" /\ stage' \in {"index", "idle"}
      BY <1>5 DEF FileBlock, EndTurn
    <2> QED
      BY <1>1, <2>1, SameListed
  <1> QED
    BY <1>3, <1>4, <1>5

\* the list is empty before anything was read
LEMMA EmptyListed ==
    ASSUME NEW vol, NEW i, i.size \in Nat
    PROVE  Listed(vol, i, <<>>, 0)
  <1>1. Live(<<>>) = {}
    BY DEF Live
  <1>2. Used(vol, i, 0) = {}
    BY DEF Used
  <1> QED
    BY <1>1, <1>2 DEF Listed

\* the list begins empty
LEMMA ReadInodeListed ==
    ASSUME Ext2Assumption, Ext2Inv, ListOK, ext2_read_inode, Ext2Inv'
    PROVE  ListOK'
  <1>1. stage = "inode" /\ v' = v /\ list' = list /\ cur' = cur /\ stage' # "inode"
    BY DEF ext2_read_inode
  <1>2. list' = <<>>
    BY <1>1 DEF ListOK
  <1>3. <<>> \in Seq({})
    OBVIOUS
  <1>4. ASSUME task'.kind = "dir"
        PROVE  Listed(V, inode, list, Here)'
    <2>1. task.kind = "dir" /\ stage' = IF inode'.size = 0 THEN "idle" ELSE "index"
      BY <1>4 DEF ext2_read_inode, Ext2Inv, TaskOK, Tasks
    <2>2. cur = 0
      BY <1>1, <2>1 DEF Ext2Inv, TaskOK
    <2>3. V' = V
      BY <1>1, SameVolume
    <2>4. inode' = InodeOn(V, task.inum) /\ Consistent(V) /\ task.inum \in V.dirs
      <3>1. inode' = InodeAt(task.inum)
        BY DEF ext2_read_inode
      <3>2. task.inum \in V.dirs /\ Consistent(V)
        BY <2>1, VolumeIsConsistent DEF Ext2Inv, TaskOK
      <3> QED
        BY <3>1, <3>2, InodeIsOnVolume
    <2>5. inode'.size \in Nat /\ V.block_size \in Nat
      <3>1. InodeOK(V, InodeOn(V, task.inum))
        BY <2>4, InodeIsOnVolume
      <3> QED
        BY <2>4, <3>1, BlocksAre DEF InodeOK
    <2>6. Here' = 0
      <3>1. 0 * V.block_size = 0
        BY <2>5
      <3> QED
        BY <1>1, <2>1, <2>2, <2>3, <3>1 DEF Here
    <2>7. Listed(V, inode', <<>>, 0)
      BY <2>5, EmptyListed
    <2> QED
      BY <1>1, <1>2, <2>6, <2>7, ListedPrime
  <1> QED
    BY <1>1, <1>2, <1>3, <1>4 DEF ListOK

\* the whole block was read, or the directory is at its end
LEMMA DirBlockDoneListed ==
    ASSUME Ext2Assumption, Ext2Inv, KindOK, ListOK, DirBlockDone
    PROVE  ListOK'
  <1>1. /\ stage = "entries" /\ ~(ptr < TotalBlockSize) /\ v' = v /\ task' = task
        /\ inode' = inode /\ list' = list /\ cur' = cur + 1
        /\ stage' = IF cur + 1 <= task.last THEN "index" ELSE "idle"
    <2>1. ptr \in Int /\ TotalBlockSize \in Int /\ stage = "entries"
      <3>1. stage = "entries" /\ stage \in Working
        BY DEF DirBlockDone, Working
      <3>2. Consistent(V) /\ inode.size \in Nat
        BY <3>1, IndexFacts
      <3>3. V.block_size \in Nat \ {0}
        BY <3>2, BlocksAre
      <3> DEFINE m == V.block_size
                 s == inode.size
      <3>4. s % m \in Nat
        <4>1. s \in Nat /\ m \in Nat \ {0}
          BY <3>2, <3>3
        <4> HIDE DEF s, m
        <4> QED
          BY <4>1
      <3> QED
        BY <3>1, <3>3, <3>4 DEF TotalBlockSize, Ext2Inv, ScalarsOK
    <2>2. ptr >= TotalBlockSize
      BY DEF DirBlockDone
    <2>3. ~(ptr < TotalBlockSize)
      BY <2>1, <2>2
    <2> QED
      BY <2>3 DEF DirBlockDone, EndTurn, NextBlock
  <1>2. V' = V
    BY <1>1, SameVolume
  <1>3. task.kind = "dir" /\ stage \in Working
    BY <1>1 DEF KindOK, Working
  <1>4. /\ Place \in Nat /\ inode.size \in Nat /\ cur \in Nat
        /\ task.last \in Int /\ cur <= task.last
        /\ cur < task.last => Place = (cur + 1) * V.block_size
        /\ cur = task.last => inode.size <= Place
    BY <1>1, <1>3, TurnFacts
  <1>5. Listed(V, inode, list, Place)
    BY <1>1, <1>3 DEF ListOK, Here
  <1>6. Listed(V, inode, list, Here')
    <2>1. CASE cur < task.last
      <3>1. stage' = "index"
        BY <1>1, <1>4, <2>1
      <3>2. Here' = (cur + 1) * V.block_size
        BY <1>1, <1>2, <3>1 DEF Here
      <3> QED
        BY <1>4, <1>5, <2>1, <3>2
    <2>2. CASE cur = task.last
      <3>1. stage' = "idle"
        BY <1>1, <1>4, <2>2
      <3>2. Here' = inode.size
        BY <1>1, <3>1 DEF Here
      <3>3. Used(V, inode, inode.size) = Used(V, inode, Place)
        BY <1>4, <2>2 DEF Used
      <3> QED
        BY <1>5, <3>2, <3>3 DEF Listed
    <2> QED
      BY <1>4, <2>1, <2>2
  <1>7. Listed(V, inode, list, Here)'
    BY <1>1, <1>6, ListedPrime
  <1>8. (\E X : list \in Seq(X))'
    BY <1>1 DEF ListOK
  <1>9. stage' # "inode"
    BY <1>1
  <1> QED
    BY <1>7, <1>8, <1>9 DEF ListOK

\* an entry of a directory is listed if it is to be, and nothing begins in it
LEMMA DirEntryListed ==
    ASSUME Ext2Assumption, Ext2Inv, KindOK, ListOK, DirEntry
    PROVE  ListOK'
  <1> DEFINE e == EntryAt(V, inode, Place)
             next == Place + e.size
             Entry(x) ==
                [name |-> x.name, inum |-> x.inum, freed |-> x.name \in Special,
                 is_dir |-> x.name \notin Special /\ IsDir(x), place |-> Place]
             r == Entry(e)
  <1>1. /\ stage = "entries" /\ stage' = "entries" /\ ptr < TotalBlockSize
        /\ v' = v /\ task' = task /\ inode' = inode /\ cur' = cur
    BY DEF DirEntry
  <1>2. V' = V
    BY <1>1, SameVolume
  <1>3. task.kind = "dir" /\ stage \in Working
    BY <1>1 DEF KindOK, Working
  <1>4. /\ Place \in Nat /\ inode.size \in Nat /\ cur \in Nat /\ Place < inode.size
        /\ V.block_size \in Nat \ {0}
    BY <1>1, <1>3, TurnFacts
  <1>5. /\ found = FileBlocks(V, inode)[cur + 1]
        /\ read_block(found).dir = V.disk[found].dir
        /\ DirOK(V, found)
        /\ ptr \in 0 .. V.block_size - 1
        /\ V.disk[found].dir[ptr].size \in 0 .. V.block_size - ptr
    BY <1>1, <1>3, EntryFacts
  <1>6. e = V.disk[found].dir[ptr]
    <2>1. EntryAt(V, inode, cur * V.block_size + ptr)
            = V.disk[FileBlocks(V, inode)[cur + 1]].dir[ptr]
      BY <1>4, <1>5, EntryAtPlace
    <2> QED
      BY <1>5, <2>1 DEF Place
  <1>7. /\ ptr' = ptr + e.size
        /\ \/ list' = list /\ e.inum = 0
           \/ list' \in Linked(list, r) /\ e.inum # 0
    <2> DEFINE x == read_block(found).dir[ptr]
    <2>1. x = e
      BY <1>5, <1>6
    <2>2. ptr' = ptr + x.size
      BY DEF DirEntry
    <2>3. IF x.inum = 0 THEN list' = list ELSE list' \in Linked(list, Entry(x))
      BY Zenon DEF DirEntry
    <2> HIDE DEF x, e, Entry
    <2>4. ptr' = ptr + e.size
      BY <2>1, <2>2
    <2>5. IF e.inum = 0 THEN list' = list ELSE list' \in Linked(list, Entry(e))
      BY <2>1, <2>3, Zenon
    <2>6. \/ list' = list /\ e.inum = 0
          \/ list' \in Linked(list, Entry(e)) /\ e.inum # 0
      BY <2>5
    <2> QED
      BY <2>4, <2>6
  <1>8. e.size \in 0 .. V.block_size - ptr
    BY <1>5, <1>6
  <1> HIDE DEF e
  <1>9. next \in Nat /\ Place <= next /\ Here' = next /\ Here = Place
    <2>1. Here' = cur * V.block_size + (ptr + e.size)
      BY <1>1, <1>2, <1>7 DEF Here, Place
    <2>2. cur * V.block_size \in Nat
      BY <1>4
    <2>3. Place = cur * V.block_size + ptr
      BY DEF Place
    <2> DEFINE cm == cur * V.block_size
               s == e.size
    <2>4. cm \in Nat /\ s \in Nat /\ ptr \in Nat /\ Place = cm + ptr /\ Here' = cm + (ptr + s)
      BY <1>4, <1>5, <1>8, <2>1, <2>2, <2>3
    <2> HIDE DEF cm, s
    <2>5. Place + s \in Nat /\ Place <= Place + s /\ Here' = Place + s
      BY <2>4
    <2>6. Here = Place
      BY <1>1 DEF Here
    <2> QED
      BY <2>5, <2>6 DEF s
  <1>10. ASSUME NEW q \in Place + 1 .. next - 1
         PROVE  ~InUse(EntryAt(V, inode, q))
    <2> DEFINE p == q - Place + ptr
               m == V.block_size
               s == e.size
    <2>1. s \in 0 .. m - ptr /\ m \in Nat \ {0} /\ ptr \in 0 .. m - 1
          /\ q \in Place + 1 .. (Place + s) - 1
      BY <1>4, <1>5, <1>8
    <2> HIDE DEF m, s
    <2>2. p \in 0 .. m - 1 /\ p \in ptr + 1 .. ptr + s - 1
      <3>1. Place \in Int /\ s \in Int /\ m \in Int /\ ptr \in Int
        BY <1>4, <2>1
      <3> HIDE DEF next
      <3>2. q \in Int /\ Place + 1 <= q /\ q <= (Place + s) - 1
        BY <2>1, <3>1
      <3> QED
        BY <2>1, <3>1, <3>2
    <2>3. q = cur * m + p
      <3>1. Place = cur * m + ptr /\ cur * m \in Nat
        BY <1>4 DEF Place, m
      <3> QED
        BY <1>4, <2>1, <3>1
    <2> HIDE DEF p
    <2>4. EntryAt(V, inode, q) = V.disk[found].dir[p]
      <3>1. p \in 0 .. V.block_size - 1
        BY <2>2 DEF m
      <3>2. EntryAt(V, inode, cur * V.block_size + p)
              = V.disk[FileBlocks(V, inode)[cur + 1]].dir[p]
        <4>1. V.block_size \in Nat \ {0} /\ cur \in Nat
          BY <1>4
        <4> QED
          BY <3>1, <4>1, EntryAtPlace
      <3> QED
        BY <1>5, <2>3, <3>2 DEF m
    <2>5. V.disk[found].dir[p].inum = 0
      BY <1>5, <1>6, <2>2 DEF DirOK, m, s
    <2> QED
      BY <2>4, <2>5 DEF InUse
  <1>11. Listed(V, inode, list, Place)
    BY <1>1, <1>3, <1>9 DEF ListOK
  <1>12. PICK X : list \in Seq(X)
    BY DEF ListOK
  <1>13. (\E Y : list' \in Seq(Y)) /\ Listed(V, inode, list', next)
    <2>1. CASE list' = list /\ e.inum = 0
      <3>1. ~InUse(e)
        BY <2>1 DEF InUse
      <3>2. \A q \in Place .. next - 1 : q < inode.size => ~InUse(EntryAt(V, inode, q))
        <4>1. \A q \in Place .. next - 1 : q = Place \/ q \in Place + 1 .. next - 1
          BY <1>4, <1>9
        <4> QED
          BY <1>10, <3>1, <4>1 DEF e
      <3> HIDE DEF next
      <3>3. Listed(V, inode, list, next)
        BY <1>4, <1>9, <1>11, <3>2, SkippedListed
      <3> QED
        BY <1>12, <2>1, <3>3
    <2>2. CASE list' \in Linked(list, r) /\ e.inum # 0
      <3>1. /\ r.place = Place /\ r.name = e.name /\ r.inum = e.inum
            /\ r.freed <=> ~InUse(e)
        BY <2>2 DEF InUse
      <3>2. InUse(e) => Place < next
        <4>1. e.size > 0
          <5>1. read_block(found).dir[ptr] = e
            BY <1>5, <1>6
          <5> QED
            BY <5>1 DEF DirEntry
        <4> QED
          BY <1>4, <1>8, <4>1
      <3> HIDE DEF r, next
      <3>3. list' \in Seq(X \cup {r}) /\ Added(list, list', r)
        BY <1>12, <2>2, LinkedAdds
      <3>4. Len(list) \in Nat
        BY <1>12
      <3>5. Listed(V, inode, list', next)
        BY <1>4, <1>9, <1>10, <1>11, <3>1, <3>2, <3>3, <3>4, AddedListed DEF e
      <3> QED
        BY <3>3, <3>5
    <2> QED
      BY <1>7, <2>1, <2>2
  <1>14. Listed(V, inode, list, Here)'
    BY <1>1, <1>9, <1>13, ListedPrime
  <1> QED
    BY <1>1, <1>13, <1>14 DEF ListOK

\* a new task has a new list
LEMMA EmptyListOK ==
    ASSUME list' = <<>>, stage' = "inode" \/ (stage' = "idle" /\ task' = NoTask)
    PROVE  ListOK'
  <1>1. <<>> \in Seq({})
    OBVIOUS
  <1>2. ~(task'.kind = "dir" /\ stage' \in Working \cup {"idle"})
    BY DEF NoTask, Working
  <1> QED
    BY <1>1, <1>2 DEF ListOK

\* every step keeps the list true to the directory
LEMMA ListNext ==
    ASSUME Ext2Assumption, Ext2Inv, KindOK, ListOK, [Ext2Next]_ext2Vars
    PROVE  ListOK'
  <1>1. CASE UNCHANGED ext2Vars \/ ext2_init
    <2>1. /\ v' = v /\ task' = task /\ stage' = stage /\ inode' = inode
          /\ cur' = cur /\ ptr' = ptr /\ list' = list
      BY <1>1 DEF ext2Vars, ext2_init
    <2>2. V' = V
      BY <2>1, SameVolume
    <2>3. Here' = Here
      BY <2>1, <2>2 DEF Here, Place
    <2>4. CASE stage = "inode"
      <3>1. list' = <<>>
        BY <2>1, <2>4 DEF ListOK
      <3> QED
        BY <2>1, <2>4, <3>1, EmptyListOK
    <2>5. CASE stage # "inode"
      BY <2>1, <2>3, <2>5, SameListed
    <2> QED
      BY <2>4, <2>5
  <1>2. CASE \/ \E n \in V.files : \E first, last \in 0 .. V.max_index :
                    first <= last /\ ext2_fread(n, first, last)
             \/ \E n \in V.dirs : ext2_read_dir(n)
    <2>1. list' = <<>> /\ stage' = "inode"
      BY <1>2 DEF ext2_fread, ext2_read_dir, Begin
    <2> QED
      BY <2>1, EmptyListOK
  <1>3. CASE ext2_read_inode
    <2>1. Ext2Inv'
      BY <1>3, ReadInodeInv
    <2> QED
      BY <1>3, <2>1, ReadInodeListed
  <1>4. CASE Index \/ Walk \/ WalkFails \/ FileBlock \/ DirBlock
    BY <1>4, SameTurnListed
  <1>5. CASE DirEntry
    BY <1>5, DirEntryListed
  <1>6. CASE DirBlockDone
    BY <1>6, DirBlockDoneListed
  <1>7. CASE InodeFails \/ InodeOfGarbage \/ DirOfBootBlock \/ DirBlockFails \/ EntryInodeFails
    <2>1. GoesWild
      BY <1>7 DEF InodeFails, InodeOfGarbage, DirOfBootBlock, DirBlockFails, EntryInodeFails
    <2>2. v' = v /\ task' = task /\ inode' = inode /\ list' = list /\ stage' = "wild"
      BY <2>1 DEF GoesWild
    <2>3. stage' # "inode" /\ stage' \notin Working \cup {"idle"}
      BY <2>2 DEF Working
    <2> QED
      BY <2>2, <2>3, SameListed
  <1>8. CASE Restart
    BY <1>8, EmptyListOK DEF Restart
  <1> QED
    BY <1>1, <1>2, <1>3, <1>4, <1>5, <1>6, <1>7, <1>8 DEF Ext2Next, Work

\* On every consistent volume ext2_read_dir lists the entries that are in use and are
\* not special, each once and in their order, whatever was deleted around them and
\* whatever memory the list is given.
THEOREM DirListsEntriesHolds == Ext2Spec => []DirListsEntries
  <1>1. Ext2Init => ListOK
    <2>1. <<>> \in Seq({})
      OBVIOUS
    <2> QED
      BY <2>1 DEF Ext2Init, ListOK, NoTask
  <1>2. Ext2Inv /\ KindOK /\ ListOK /\ [Ext2Next]_ext2Vars => ListOK'
    BY Ext2Assumption, ListNext
  <1>3. Ext2Inv /\ ListOK => DirListsEntries
    <2> SUFFICES ASSUME Ext2Inv, ListOK, stage = "idle", task.kind = "dir"
                 PROVE  DirListsEntries
      BY DEF DirListsEntries
    <2>1. Listed(V, inode, list, inode.size)
      BY DEF ListOK, Here
    <2>2. inode.size \in Nat
      <3>1. Consistent(V)
        BY Ext2Assumption, VolumeIsConsistent DEF Ext2Inv
      <3>2. inode = InodeOn(V, task.inum) /\ task.inum \in V.dirs
        BY DEF Ext2Inv, InodeKnown, TaskOK
      <3>3. InodeOK(V, inode)
        BY Ext2Assumption, <3>1, <3>2, InodeIsOnVolume
      <3> QED
        BY <3>3 DEF InodeOK
    <2>3. Used(V, inode, inode.size)
            = {p \in 0 .. inode.size - 1 : InUse(EntryAt(V, inode, p))}
      BY <2>2 DEF Used
    <2>4. Live(list) = {k \in 1 .. Len(list) : ~list[k].freed}
      BY DEF Live
    <2> QED
      BY <2>1, <2>3, <2>4, Zenon DEF Listed, DirListsEntries
  <1>4. Ext2Spec => []ListOK
    BY <1>1, <1>2, Ext2SpecInv, PTL DEF Ext2Spec
  <1> QED
    BY <1>3, <1>4, Ext2SpecInv, PTL
=============================================================================
