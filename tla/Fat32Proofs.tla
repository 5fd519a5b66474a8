----------------------------- MODULE Fat32Proofs -----------------------------
(* Proofs about Fat32, for every disk, every tree of directories on it and   *)
(* every size of sectors and clusters.                                       *)
EXTENDS Fat32Disks, FiniteSetTheorems, NaturalsInduction, WellFoundedInduction, TLAPS
-----------------------------------------------------------------------------
(* Numbers *)

\* A set of naturals that is not empty has a least member.
LEMMA LeastNat ==
    ASSUME NEW T \in SUBSET Nat, T # {}
    PROVE  \E n \in T : \A m \in T : n <= m
  <1>1. OpToRel(<, Nat) = {ss \in Nat \X Nat : ss[1] < ss[2]}
    BY Zenon DEF OpToRel
  <1>2. PICK n \in T : \A m \in T : ~(<<m, n>> \in OpToRel(<, Nat))
    BY WFMin, NatLessThanWellFounded
  <1>3. \A m \in T : ~(<<m, n>> \in {ss \in Nat \X Nat : ss[1] < ss[2]})
    BY <1>1, <1>2, Zenon
  <1>4. ASSUME NEW m \in T, m < n PROVE FALSE
    <2>1. <<m, n>> \in {ss \in Nat \X Nat : ss[1] < ss[2]}
      BY <1>4
    <2>2. QED
      BY <1>3, <2>1
  <1>5. \A m \in T : m \in Nat /\ n \in Nat
    OBVIOUS
  <1>6. QED
    BY <1>4, <1>5

\* Induction from a to b, for a set.
LEMMA UpTo ==
    ASSUME NEW a \in Nat, NEW b \in Nat, NEW T, a \in T,
           \A i \in a .. b - 1 : i \in T => i + 1 \in T
    PROVE  \A i \in a .. b : i \in T
  <1> DEFINE U == {i \in a .. b : i \notin T}
  <1>1. SUFFICES ASSUME U # {} PROVE FALSE
    OBVIOUS
  <1>2. PICK n \in U : \A m \in U : n <= m
    <2>1. U \in SUBSET Nat
      OBVIOUS
    <2> HIDE DEF U
    <2>2. QED
      BY <1>1, <2>1, LeastNat
  <1>3. n \in a .. b /\ n \notin T /\ n # a
    BY <1>2
  <1>4. n - 1 \in a .. b - 1 /\ n - 1 \in Nat /\ (n - 1) + 1 = n /\ n - 1 \in a .. b
    BY <1>3
  <1>5. n - 1 \in T
    BY <1>2, <1>4
  <1>6. QED
    BY <1>3, <1>4, <1>5

\* Item j of block i, in blocks of m items.
LEMMA InBlock ==
    ASSUME NEW n \in Nat, NEW m \in Nat, NEW i \in 1 .. n, NEW j \in 1 .. m
    PROVE  (i - 1) * m + j \in 1 .. n * m
  <1>1. (i - 1) * m >= 0
    OBVIOUS
  <1>2. (i - 1) * m + m = i * m
    OBVIOUS
  <1>3. i * m <= n * m
    OBVIOUS
  <1>4. i * m \in Nat /\ n * m \in Nat /\ (i - 1) * m \in Nat
    OBVIOUS
  <1> DEFINE x == (i - 1) * m
             y == i * m
             z == n * m
  <1> HIDE DEF x, y, z
  <1>5. x \in Nat /\ y \in Nat /\ z \in Nat /\ x + m = y /\ y <= z
    BY <1>2, <1>3, <1>4 DEF x, y, z
  <1>6. x + j \in 1 .. z
    BY <1>5
  <1>7. QED
    BY <1>6 DEF x, z

LEMMA DivMod ==
    ASSUME NEW q \in Int, NEW m \in Nat, NEW r \in 0 .. m - 1
    PROVE  (q * m + r) \div m = q /\ (q * m + r) % m = r
  <1>1. m > 0 /\ q * m \in Int
    OBVIOUS
  <1>2. (q + 1) * m = q * m + m
    OBVIOUS
  <1> DEFINE a == q * m + r
  <1>3. a \in Int /\ q * m <= a /\ a < (q + 1) * m
    BY <1>1, <1>2
  <1> HIDE DEF a
  <1>4. a \div m = q
    BY <1>1, <1>3
  <1>5. a = m * (a \div m) + (a % m)
    BY <1>1, <1>3
  <1>6. a % m = r
    BY <1>1, <1>4, <1>5 DEF a
  <1>7. QED
    BY <1>4, <1>6 DEF a

LEMMA BlockOf ==
    ASSUME NEW n \in Nat, NEW m \in Nat, NEW x \in 1 .. n * m
    PROVE  \E i \in 1 .. n, j \in 1 .. m : x = (i - 1) * m + j
  <1>1. n * m \in Nat /\ m > 0
    <2>1. n * m \in Nat
      OBVIOUS
    <2>2. m = 0 => n * m = 0
      OBVIOUS
    <2>3. QED
      BY <2>1, <2>2
  <1> DEFINE q == (x - 1) \div m
             r == (x - 1) % m
  <1>2. q \in Int /\ r \in 0 .. m - 1 /\ x - 1 = m * q + r
    BY <1>1
  <1> HIDE DEF q, r
  <1>3. q * m = m * q /\ q * m \in Int
    BY <1>1, <1>2
  <1>4. q >= 0
    <2>1. SUFFICES ASSUME q <= -1 PROVE FALSE
      BY <1>2
    <2>2. q * m <= (-1) * m
      BY <1>1, <1>2, <2>1
    <2>3. QED
      BY <1>1, <1>2, <1>3, <2>2
  <1>5. q < n
    <2>1. SUFFICES ASSUME q >= n PROVE FALSE
      BY <1>2
    <2>2. q * m >= n * m
      BY <1>1, <1>2, <2>1
    <2>3. QED
      BY <1>1, <1>2, <1>3, <2>2
  <1>6. q + 1 \in 1 .. n /\ r + 1 \in 1 .. m /\ x = ((q + 1) - 1) * m + (r + 1)
    BY <1>1, <1>2, <1>3, <1>4, <1>5
  <1>7. QED
    BY <1>6

\* Two sequences of blocks that agree block by block.
BlocksAgree(s, t, n, m) ==
    /\ Len(s) = n * m /\ Len(t) = n * m
    /\ \A i \in 1 .. n, j \in 1 .. m : s[(i - 1) * m + j] = t[(i - 1) * m + j]
LEMMA SameBlocks ==
    ASSUME NEW S, NEW s \in Seq(S), NEW t \in Seq(S), NEW n \in Nat, NEW m \in Nat,
           BlocksAgree(s, t, n, m)
    PROVE  s = t
  <1>1. n * m \in Nat /\ DOMAIN s = 1 .. n * m /\ DOMAIN t = 1 .. n * m
    BY DEF BlocksAgree
  <1>2. ASSUME NEW x \in 1 .. n * m
        PROVE  s[x] = t[x]
    <2>1. PICK i \in 1 .. n, j \in 1 .. m : x = (i - 1) * m + j
      BY BlockOf
    <2>2. QED
      BY <2>1 DEF BlocksAgree
  <1>3. s = [x \in 1 .. n * m |-> s[x]] /\ t = [x \in 1 .. n * m |-> t[x]]
    BY <1>1
  <1>4. QED
    BY <1>2, <1>3
-----------------------------------------------------------------------------
(* Sequences built in a loop *)

LEMMA ConcatSeq ==
    ASSUME NEW S, NEW s \in Seq(S), NEW t \in Seq(S)
    PROVE  /\ s \o t \in Seq(S) /\ Len(s \o t) = Len(s) + Len(t)
           /\ \A k \in 1 .. Len(s) : (s \o t)[k] = s[k]
           /\ \A k \in 1 .. Len(t) : (s \o t)[Len(s) + k] = t[k]
  OBVIOUS

\* The concatenations of the first sequences of ss.
Flat(ss, n, f) == f = [i \in 1 .. n |-> IF i = 1 THEN ss[i] ELSE f[i - 1] \o ss[i]]

LEMMA FlatExists ==
    ASSUME NEW S, NEW ss \in Seq(Seq(S)), Len(ss) # 0
    PROVE  \E f : Flat(ss, Len(ss), f)
  <1> DEFINE T == {n \in Nat : \E f : Flat(ss, n, f)}
  <1>1. Len(ss) \in Nat /\ Len(ss) >= 1
    OBVIOUS
  <1>2. 1 \in T
    <2>1. Flat(ss, 1, [i \in 1 .. 1 |-> ss[i]])
      BY DEF Flat
    <2>2. QED
      BY <2>1
  <1>3. ASSUME NEW n \in 1 .. Len(ss) - 1, n \in T
        PROVE  n + 1 \in T
    <2>1. PICK f : Flat(ss, n, f)
      BY <1>3
    <2> DEFINE g == [i \in 1 .. n + 1 |-> IF i <= n THEN f[i] ELSE f[n] \o ss[n + 1]]
    <2>2. n \in Nat /\ n + 1 \in Nat
      BY <1>1
    <2>3. ASSUME NEW i \in 1 .. n + 1
          PROVE  g[i] = IF i = 1 THEN ss[i] ELSE g[i - 1] \o ss[i]
      <3>1. CASE i <= n
        <4>1. i \in 1 .. n /\ (i # 1 => i - 1 \in 1 .. n + 1 /\ i - 1 <= n)
          BY <2>2, <3>1
        <4>2. f[i] = IF i = 1 THEN ss[i] ELSE f[i - 1] \o ss[i]
          BY <2>1, <4>1 DEF Flat
        <4>3. g[i] = f[i] /\ (i # 1 => g[i - 1] = f[i - 1])
          BY <3>1, <4>1
        <4>4. QED
          BY <4>2, <4>3
      <3>2. CASE i = n + 1
        <4>1. i # 1 /\ i - 1 = n /\ n \in 1 .. n + 1 /\ ~(i <= n)
          BY <2>2, <3>2
        <4>2. g[i] = f[n] \o ss[n + 1] /\ g[n] = f[n]
          <5> DEFINE x == f[n] \o ss[n + 1]
          <5> HIDE DEF x
          <5>1. g = [k \in 1 .. n + 1 |-> IF k <= n THEN f[k] ELSE x]
            BY DEF x
          <5> HIDE DEF g
          <5>2. g[i] = x /\ g[n] = f[n]
            BY <2>2, <4>1, <5>1
          <5>3. QED
            BY <5>2 DEF x
        <4>3. QED
          BY <3>2, <4>1, <4>2
      <3>3. QED
        BY <2>2, <3>1, <3>2
    <2>4. g = [i \in 1 .. n + 1 |-> g[i]]
      OBVIOUS
    <2> HIDE DEF g
    <2>5. Flat(ss, n + 1, g)
      BY <2>3, <2>4 DEF Flat
    <2>6. QED
      BY <2>2, <2>5
  <1> HIDE DEF T
  <1>4. \A n \in 1 .. Len(ss) : n \in T
    BY <1>1, <1>2, <1>3, UpTo
  <1>5. Len(ss) \in T
    BY <1>1, <1>4
  <1>6. QED
    BY <1>5 DEF T

LEMMA FlattenDef ==
    ASSUME NEW S, NEW ss \in Seq(Seq(S)), Len(ss) # 0
    PROVE  \E f : Flat(ss, Len(ss), f) /\ FlattenSeq(ss) = f[Len(ss)]
  <1> DEFINE fl[i \in 1 .. Len(ss)] == IF i = 1 THEN ss[i] ELSE fl[i - 1] \o ss[i]
  <1>1. FlattenSeq(ss) = fl[Len(ss)]
    BY DEF FlattenSeq
  <1>2. fl = CHOOSE f : Flat(ss, Len(ss), f)
    BY DEF Flat
  <1> HIDE DEF fl
  <1>3. PICK f : Flat(ss, Len(ss), f)
    BY FlatExists
  <1>4. Flat(ss, Len(ss), fl)
    BY <1>2, <1>3, Zenon
  <1>5. QED
    BY <1>1, <1>4, Zenon

\* FlattenSeq of sequences of one length: their items, block by block.
LEMMA FlattenBlocks ==
    ASSUME NEW S, NEW ss \in Seq(Seq(S)), NEW m \in Nat, \A i \in 1 .. Len(ss) : Len(ss[i]) = m
    PROVE  /\ FlattenSeq(ss) \in Seq(S) /\ Len(FlattenSeq(ss)) = Len(ss) * m
           /\ \A i \in 1 .. Len(ss), j \in 1 .. m : FlattenSeq(ss)[(i - 1) * m + j] = ss[i][j]
  <1>1. Len(ss) \in Nat
    OBVIOUS
  <1>2. CASE Len(ss) = 0
    <2>1. ss = <<>> /\ FlattenSeq(ss) = ss
      BY <1>2 DEF FlattenSeq
    <2>2. <<>> \in Seq(S) /\ Len(<<>>) = 0 /\ Len(ss) * m = 0 /\ 1 .. Len(ss) = {}
      BY <1>2
    <2>3. FlattenSeq(ss) \in Seq(S) /\ Len(FlattenSeq(ss)) = Len(ss) * m
      BY <2>1, <2>2
    <2>4. QED
      BY <2>2, <2>3
  <1>3. CASE Len(ss) # 0
    <2>1. PICK f : Flat(ss, Len(ss), f) /\ FlattenSeq(ss) = f[Len(ss)]
      BY <1>3, FlattenDef
    <2> DEFINE n == Len(ss)
               Q(i) == /\ f[i] \in Seq(S) /\ Len(f[i]) = i * m
                       /\ \A k \in 1 .. i, j \in 1 .. m : f[i][(k - 1) * m + j] = ss[k][j]
               T == {i \in 1 .. n : Q(i)}
    <2>2. \A i \in 1 .. n : ss[i] \in Seq(S) /\ Len(ss[i]) = m
      OBVIOUS
    <2>3. n \in Nat /\ 1 \in 1 .. n
      BY <1>1, <1>3
    <2>4. \A i \in 1 .. n : f[i] = IF i = 1 THEN ss[i] ELSE f[i - 1] \o ss[i]
      BY <2>1 DEF Flat
    <2> HIDE DEF n
    <2>5. 1 \in T
      <3>1. f[1] = ss[1]
        BY <2>3, <2>4
      <3>2. 1 * m = m /\ (1 - 1) * m = 0
        OBVIOUS
      <3>3. \A k \in 1 .. 1, j \in 1 .. m : f[1][(k - 1) * m + j] = ss[k][j]
        <4>1. SUFFICES ASSUME NEW j \in 1 .. m PROVE f[1][(1 - 1) * m + j] = ss[1][j]
          OBVIOUS
        <4>2. (1 - 1) * m + j = j
          OBVIOUS
        <4>3. QED
          BY <3>1, <4>2
      <3>4. QED
        BY <2>2, <2>3, <3>1, <3>2, <3>3
    <2>6. ASSUME NEW i \in 1 .. n - 1, i \in T
          PROVE  i + 1 \in T
      <3>1. i + 1 \in 1 .. n /\ i \in 1 .. n /\ i + 1 # 1 /\ (i + 1) - 1 = i
        BY <2>3
      <3>2. f[i + 1] = f[i] \o ss[i + 1]
        BY <2>4, <3>1
      <3>3. f[i] \in Seq(S) /\ ss[i + 1] \in Seq(S) /\ Len(f[i]) = i * m /\ Len(ss[i + 1]) = m
        BY <2>2, <2>6, <3>1
      <3> DEFINE a == f[i]
                 b == ss[i + 1]
      <3> HIDE DEF a, b
      <3>4. /\ a \o b \in Seq(S) /\ Len(a \o b) = Len(a) + Len(b)
            /\ \A k \in 1 .. Len(a) : (a \o b)[k] = a[k]
            /\ \A k \in 1 .. Len(b) : (a \o b)[Len(a) + k] = b[k]
        <4>1. a \in Seq(S) /\ b \in Seq(S)
          BY <3>3 DEF a, b
        <4>2. QED
          BY ONLY <4>1, ConcatSeq
      <3>5. Len(a) = i * m /\ Len(b) = m /\ f[i + 1] = a \o b
        BY <3>2, <3>3 DEF a, b
      <3>6. i * m \in Nat /\ (i + 1) * m = i * m + m
        BY <3>1
      <3>7. f[i + 1] \in Seq(S) /\ Len(f[i + 1]) = (i + 1) * m
        BY <3>4, <3>5, <3>6
      <3>8. ASSUME NEW k \in 1 .. i + 1, NEW j \in 1 .. m
            PROVE  f[i + 1][(k - 1) * m + j] = ss[k][j]
        <4>1. CASE k <= i
          <5>1. k \in 1 .. i /\ i \in Nat
            BY <3>1, <4>1
          <5>2. (k - 1) * m + j \in 1 .. i * m
            BY <5>1, InBlock
          <5>3. (a \o b)[(k - 1) * m + j] = a[(k - 1) * m + j]
            BY <3>4, <3>5, <5>2
          <5>4. a[(k - 1) * m + j] = ss[k][j]
            BY <2>6, <5>1 DEF a
          <5>5. QED
            BY <3>5, <5>3, <5>4
        <4>2. CASE k = i + 1
          <5>1. (k - 1) * m + j = Len(a) + j
            BY <3>1, <3>5, <4>2
          <5>2. (a \o b)[Len(a) + j] = b[j]
            BY <3>4, <3>5
          <5>3. QED
            BY <3>5, <4>2, <5>1, <5>2 DEF b
        <4>3. QED
          BY <3>1, <4>1, <4>2
      <3>9. QED
        BY <3>1, <3>7, <3>8
    <2>7. \A i \in 1 .. n : i \in T
      <3> HIDE DEF T
      <3>1. QED
        BY <2>3, <2>5, <2>6, UpTo
    <2>8. Q(n)
      BY <2>3, <2>7
    <2>9. QED
      BY <2>1, <2>8 DEF n
  <1>4. QED
    BY <1>2, <1>3

\* The entries that the first slots of a directory give.
Upto(d, n, f) ==
    f = [j \in 0 .. n |-> IF j = 0 THEN <<>>
                          ELSE IF j \in Emitted(d) THEN Append(f[j - 1], Dirent(d, j)) ELSE f[j - 1]]

LEMMA UptoExists ==
    ASSUME NEW d, NEW n \in Nat
    PROVE  \E f : Upto(d, n, f)
  <1> DEFINE T == {i \in Nat : \E f : Upto(d, i, f)}
  <1>1. 0 \in T
    <2>1. Upto(d, 0, [j \in 0 .. 0 |-> <<>>])
      BY DEF Upto
    <2>2. QED
      BY <2>1
  <1>2. ASSUME NEW i \in 0 .. n - 1, i \in T
        PROVE  i + 1 \in T
    <2>1. PICK f : Upto(d, i, f)
      BY <1>2
    <2> DEFINE last == IF i + 1 \in Emitted(d) THEN Append(f[i], Dirent(d, i + 1)) ELSE f[i]
               g == [j \in 0 .. i + 1 |-> IF j <= i THEN f[j] ELSE last]
    <2>2. i \in Nat
      OBVIOUS
    <2> HIDE DEF last
    <2>3. ASSUME NEW j \in 0 .. i + 1
          PROVE  g[j] = IF j = 0 THEN <<>>
                        ELSE IF j \in Emitted(d) THEN Append(g[j - 1], Dirent(d, j)) ELSE g[j - 1]
      <3>1. CASE j <= i
        <4>1. j \in 0 .. i /\ (j # 0 => j - 1 \in 0 .. i + 1 /\ j - 1 <= i)
          BY <2>2, <3>1
        <4>2. f[j] = IF j = 0 THEN <<>>
                     ELSE IF j \in Emitted(d) THEN Append(f[j - 1], Dirent(d, j)) ELSE f[j - 1]
          BY <2>1, <4>1 DEF Upto
        <4>3. g[j] = f[j] /\ (j # 0 => g[j - 1] = f[j - 1])
          BY <3>1, <4>1
        <4>4. QED
          BY <4>2, <4>3
      <3>2. CASE j = i + 1
        <4>1. j # 0 /\ j - 1 = i /\ i \in 0 .. i + 1 /\ ~(j <= i)
          BY <2>2, <3>2
        <4>2. g[j] = last /\ g[i] = f[i]
          BY <2>2, <4>1
        <4>3. QED
          BY <3>2, <4>1, <4>2 DEF last
      <3>3. QED
        BY <2>2, <3>1, <3>2
    <2>4. g = [j \in 0 .. i + 1 |-> g[j]]
      OBVIOUS
    <2> HIDE DEF g
    <2>5. Upto(d, i + 1, g)
      BY <2>3, <2>4 DEF Upto
    <2>6. QED
      BY <2>2, <2>5
  <1> HIDE DEF T
  <1>3. \A i \in 0 .. n : i \in T
    BY <1>1, <1>2, UpTo
  <1>4. n \in T
    BY <1>3
  <1>5. QED
    BY <1>4 DEF T

\* Every entry of a directory comes from a slot.
LEMMA DirentsFromSlots ==
    ASSUME NEW S, NEW d \in Seq(S)
    PROVE  fat32_to_dirent(d) \in Seq({Dirent(d, j) : j \in 1 .. Len(d)})
  <1> DEFINE n == Len(d)
             E == {Dirent(d, j) : j \in 1 .. n}
             upto[j \in 0 .. Len(d)] ==
                 IF j = 0 THEN <<>>
                 ELSE IF j \in Emitted(d) THEN Append(upto[j - 1], Dirent(d, j)) ELSE upto[j - 1]
  <1>1. fat32_to_dirent(d) = upto[Len(d)]
    BY DEF fat32_to_dirent
  <1>2. upto = CHOOSE f : Upto(d, Len(d), f)
    BY DEF Upto
  <1> HIDE DEF upto
  <1>3. n \in Nat
    OBVIOUS
  <1>4. PICK f : Upto(d, Len(d), f)
    BY <1>3, UptoExists
  <1>5. Upto(d, Len(d), upto)
    BY <1>2, <1>4, Zenon
  <1> HIDE DEF n
  <1>6. \A j \in 0 .. n : upto[j] = IF j = 0 THEN <<>>
                 ELSE IF j \in Emitted(d) THEN Append(upto[j - 1], Dirent(d, j)) ELSE upto[j - 1]
    BY <1>5 DEF Upto, n
  <1> DEFINE T == {j \in 0 .. n : upto[j] \in Seq(E)}
  <1>7. 0 \in T
    <2> HIDE DEF E, T
    <2>1. 0 \in 0 .. n
      BY <1>3
    <2>2. upto[0] = <<>>
      BY <1>6, <2>1, Zenon
    <2>3. <<>> \in Seq(E)
      OBVIOUS
    <2>4. QED
      BY <2>1, <2>2, <2>3 DEF T
  <1>8. ASSUME NEW j \in 0 .. n - 1, j \in T
        PROVE  j + 1 \in T
    <2>1. j + 1 \in 1 .. n /\ j + 1 # 0 /\ (j + 1) - 1 = j /\ j + 1 \in 0 .. n
      BY <1>3
    <2>2. Dirent(d, j + 1) \in E
      BY <2>1
    <2> HIDE DEF E
    <2>3. upto[j] \in Seq(E) /\ Append(upto[j], Dirent(d, j + 1)) \in Seq(E)
      BY <1>8, <2>2
    <2>4. upto[j + 1] \in {upto[j], Append(upto[j], Dirent(d, j + 1))}
      BY <1>6, <2>1
    <2>5. QED
      BY <2>1, <2>3, <2>4
  <1>9. \A j \in 0 .. n : j \in T
    <2> HIDE DEF T
    <2>1. QED
      BY <1>3, <1>7, <1>8, UpTo
  <1>10. QED
    BY <1>1, <1>3, <1>9 DEF n
-----------------------------------------------------------------------------
(* What sec_read gives *)

Spc == disk.boot.spc
NClusters == Cardinality(DOMAIN disk.data)
Items == {disk.junk} \cup UNION {Range(disk.data[c]) : c \in DOMAIN disk.data}

LEMMA ShapedFacts ==
    ASSUME Shaped(disk)
    PROVE  /\ DataLba \in Int /\ Spc \in Nat /\ NClusters \in Nat
           /\ SECTOR_SIZE \in Nat /\ SECTOR_SIZE > 0 /\ Spc * SECTOR_SIZE \in Nat
           /\ NClusters * Spc \in Nat
           /\ DOMAIN disk.data = 2 .. NClusters + 1
           /\ \A c \in 2 .. NClusters + 1 : /\ disk.data[c] \in Seq(Items)
                                            /\ Len(disk.data[c]) = Spc * SECTOR_SIZE
  <1>1. /\ disk.lba \in Nat /\ disk.boot.reserved \in Nat /\ disk.boot.nfats \in Nat
        /\ disk.boot.nsec_per_fat \in Nat /\ Spc \in Nat /\ NClusters \in Nat
        /\ SECTOR_SIZE \in Nat /\ SECTOR_SIZE > 0
    BY FatAssumption DEF Shaped, Spc, NClusters
  <1>2. disk.boot.nfats * disk.boot.nsec_per_fat \in Nat /\ Spc * SECTOR_SIZE \in Nat /\ NClusters * Spc \in Nat
    BY <1>1
  <1>3. DataLba \in Int
    BY <1>1, <1>2 DEF DataLba
  <1>4. DOMAIN disk.data = 2 .. NClusters + 1
    BY DEF Shaped, NClusters
  <1>5. ASSUME NEW c \in 2 .. NClusters + 1
        PROVE  disk.data[c] \in Seq(Items) /\ Len(disk.data[c]) = Spc * SECTOR_SIZE
    <2>1. disk.data[c] \in Seq(Range(disk.data[c])) /\ Len(disk.data[c]) = Spc * SECTOR_SIZE
      BY <1>4 DEF Shaped, Spc
    <2>2. Range(disk.data[c]) \subseteq Items
      BY <1>4 DEF Items
    <2>3. QED
      BY <2>1, <2>2
  <1>6. QED
    BY <1>1, <1>2, <1>3, <1>4, <1>5

LEMMA SubItems ==
    ASSUME NEW S, NEW s \in Seq(S), NEW a \in Nat, NEW m \in Nat, a + m <= Len(s)
    PROVE  /\ SubSeq(s, a + 1, a + m) \in Seq(S) /\ Len(SubSeq(s, a + 1, a + m)) = m
           /\ \A j \in 1 .. m : SubSeq(s, a + 1, a + m)[j] = s[a + j]
  <1> DEFINE t == SubSeq(s, a + 1, a + m)
  <1>1. Len(s) \in Nat
    OBVIOUS
  <1>2. t \in Seq(S)
    <2>1. \A i \in a + 1 .. a + m : s[i] \in S
      BY <1>1
    <2>2. QED
      BY <1>1, <2>1
  <1>3. Len(t) = IF a + 1 <= a + m THEN (a + m) - (a + 1) + 1 ELSE 0
    BY <1>1
  <1>4. Len(t) = m
    <2> DEFINE l == Len(t)
    <2>1. l = IF a + 1 <= a + m THEN (a + m) - (a + 1) + 1 ELSE 0
      BY <1>3
    <2> HIDE DEF l
    <2>2. l = m
      BY <2>1
    <2>3. QED
      BY <2>2 DEF l
  <1>5. ASSUME NEW j \in 1 .. m
        PROVE  t[j] = s[a + j]
    <2>1. j \in 1 .. (a + m) - (a + 1) + 1 /\ (a + 1) + j - 1 = a + j
      OBVIOUS
    <2>2. t[j] = s[(a + 1) + j - 1]
      BY <1>1, <2>1
    <2>3. QED
      BY <2>1, <2>2
  <1>6. QED
    BY <1>2, <1>4, <1>5

\* The sectors of the clusters.
LEMMA SectorOfCluster ==
    ASSUME Shaped(disk), NEW c \in 2 .. NClusters + 1, NEW k \in 0 .. Spc - 1
    PROVE  LET lba == DataLba + (c - 2) * Spc + k
           IN  /\ Sector(lba) \in Seq(Items) /\ Len(Sector(lba)) = SECTOR_SIZE
               /\ \A j \in 1 .. SECTOR_SIZE : Sector(lba)[j] = disk.data[c][k * SECTOR_SIZE + j]
  <1> DEFINE lba == DataLba + (c - 2) * Spc + k
             a == k * SECTOR_SIZE
  <1>1. /\ DataLba \in Int /\ Spc \in Nat /\ NClusters \in Nat /\ SECTOR_SIZE \in Nat
        /\ disk.data[c] \in Seq(Items) /\ Len(disk.data[c]) = Spc * SECTOR_SIZE
        /\ Spc * SECTOR_SIZE \in Nat
    BY ShapedFacts
  <1>2. (c - 2) * Spc \in Nat /\ a \in Nat
    <2>1. c - 2 \in Nat /\ k \in Nat
      BY <1>1
    <2>2. \A x, y \in Nat : x * y \in Nat
      OBVIOUS
    <2>3. QED
      BY <1>1, <2>1, <2>2, Zenon
  <1>3. lba - DataLba = (c - 2) * Spc + k /\ ~(lba < DataLba)
    <2>1. \A b \in Int, x, y \in Nat : (b + x + y) - b = x + y /\ ~(b + x + y < b)
      OBVIOUS
    <2>2. k \in Nat
      BY <1>1
    <2>3. QED
      BY <1>1, <1>2, <2>1, <2>2, Zenon
  <1>4. (lba - DataLba) \div Spc = c - 2 /\ (lba - DataLba) % Spc = k
    <2>1. c - 2 \in Int
      BY <1>1
    <2>2. ((c - 2) * Spc + k) \div Spc = c - 2 /\ ((c - 2) * Spc + k) % Spc = k
      BY <1>1, <2>1, DivMod
    <2>3. QED
      BY <1>3, <2>2
  <1>5. 2 + (c - 2) = c /\ (k + 1) * SECTOR_SIZE = a + SECTOR_SIZE
    BY <1>1
  <1>6. Sector(lba) = SubSeq(disk.data[c], a + 1, a + SECTOR_SIZE)
    <2> HIDE DEF lba
    <2>1. Sector(lba) = SubSeq(disk.data[2 + (lba - DataLba) \div disk.boot.spc],
                               ((lba - DataLba) % disk.boot.spc) * SECTOR_SIZE + 1,
                               (((lba - DataLba) % disk.boot.spc) + 1) * SECTOR_SIZE)
      BY <1>3 DEF Sector
    <2>2. QED
      BY <1>4, <1>5, <2>1 DEF Spc
  <1>7. a + SECTOR_SIZE <= Len(disk.data[c])
    <2>1. (k + 1) * SECTOR_SIZE <= Spc * SECTOR_SIZE
      BY <1>1
    <2>2. QED
      BY <1>1, <1>5, <2>1
  <1>8. QED
    <2> DEFINE s == disk.data[c]
    <2>1. s \in Seq(Items) /\ a + SECTOR_SIZE <= Len(s) /\ Sector(lba) = SubSeq(s, a + 1, a + SECTOR_SIZE)
      BY <1>1, <1>6, <1>7
    <2> HIDE DEF s, a, lba
    <2>2. /\ Sector(lba) \in Seq(Items) /\ Len(Sector(lba)) = SECTOR_SIZE
          /\ \A j \in 1 .. SECTOR_SIZE : Sector(lba)[j] = s[a + j]
      BY <1>1, <1>2, <2>1, SubItems
    <2>3. QED
      BY <2>2 DEF s, a, lba

\* Every sector that can be read has items of the disk, as many as it should.
LEMMA SectorType ==
    ASSUME Shaped(disk), Spc # 0, NEW lba \in Int, OnDisk(lba, 1)
    PROVE  Sector(lba) \in Seq(Items) /\ Len(Sector(lba)) = SECTOR_SIZE
  <1>1. /\ DataLba \in Int /\ Spc \in Nat /\ NClusters \in Nat /\ SECTOR_SIZE \in Nat
        /\ NClusters * Spc \in Nat
    BY ShapedFacts
  <1>2. CASE lba < DataLba
    <2> DEFINE s == [i \in 1 .. SECTOR_SIZE |-> disk.junk]
    <2>1. Sector(lba) = s
      BY <1>2 DEF Sector
    <2>2. disk.junk \in Items
      BY DEF Items
    <2>3. s \in [1 .. SECTOR_SIZE -> Items]
      BY <2>2
    <2>4. s \in Seq(Items) /\ Len(s) = SECTOR_SIZE
      BY <1>1, <2>3
    <2>5. QED
      BY <2>1, <2>4
  <1>3. CASE ~(lba < DataLba)
    <2> DEFINE x == lba - DataLba
    <2>1. x + 1 \in 1 .. NClusters * Spc
      <3>1. lba + 1 <= DataLba + NClusters * Spc
        BY DEF OnDisk, NClusters, Spc
      <3> DEFINE z == NClusters * Spc
      <3> HIDE DEF z
      <3>2. z \in Nat /\ lba + 1 <= DataLba + z
        BY <1>1, <3>1 DEF z
      <3>3. x + 1 \in 1 .. z
        BY <1>1, <1>3, <3>2
      <3>4. QED
        BY <3>3 DEF z
    <2>2. PICK i \in 1 .. NClusters, j \in 1 .. Spc : x + 1 = (i - 1) * Spc + j
      BY <1>1, <2>1, BlockOf
    <2>3. i + 1 \in 2 .. NClusters + 1 /\ j - 1 \in 0 .. Spc - 1 /\ (i + 1) - 2 = i - 1
      BY <1>1
    <2>4. lba = DataLba + ((i + 1) - 2) * Spc + (j - 1)
      <3> DEFINE y == (i - 1) * Spc
      <3>1. y \in Int
        BY <1>1
      <3> HIDE DEF y
      <3>2. lba = DataLba + y + (j - 1)
        BY <1>1, <2>2, <3>1 DEF y
      <3>3. QED
        BY <2>3, <3>2 DEF y
    <2>5. QED
      BY <2>3, <2>4, SectorOfCluster
  <1>4. QED
    BY <1>2, <1>3

LEMMA SecRead ==
    ASSUME Shaped(disk), Spc # 0, NEW lba \in Int, NEW n \in Nat, OnDisk(lba, n)
    PROVE  /\ sec_read(lba, n) \in Seq(Items) /\ Len(sec_read(lba, n)) = n * SECTOR_SIZE
           /\ \A i \in 1 .. n, j \in 1 .. SECTOR_SIZE :
                sec_read(lba, n)[(i - 1) * SECTOR_SIZE + j] = Sector(lba + i - 1)[j]
  <1> DEFINE ss == [i \in 1 .. n |-> Sector(lba + i - 1)]
  <1>1. SECTOR_SIZE \in Nat /\ DataLba \in Int /\ NClusters * Spc \in Nat
    BY ShapedFacts
  <1>2. ASSUME NEW i \in 1 .. n
        PROVE  Sector(lba + i - 1) \in Seq(Items) /\ Len(Sector(lba + i - 1)) = SECTOR_SIZE
    <2> DEFINE z == NClusters * Spc
               l == lba + i - 1
    <2>1. lba + n <= DataLba + z /\ z \in Nat
      BY <1>1 DEF OnDisk, NClusters, Spc
    <2> HIDE DEF z
    <2>2. l \in Int /\ l + 1 <= DataLba + z
      BY <1>1, <2>1
    <2> HIDE DEF l
    <2>3. OnDisk(l, 1)
      BY <2>2 DEF OnDisk, z, NClusters, Spc
    <2>4. Sector(l) \in Seq(Items) /\ Len(Sector(l)) = SECTOR_SIZE
      BY <2>2, <2>3, SectorType
    <2>5. QED
      BY <2>4 DEF l
  <1>3. ss \in Seq(Seq(Items)) /\ Len(ss) = n
    <2> DEFINE Q == Seq(Items)
    <2>1. ss \in [1 .. n -> Q]
      BY <1>2
    <2> HIDE DEF Q, ss
    <2>2. ss \in Seq(Q) /\ Len(ss) = n
      BY <2>1
    <2>3. QED
      BY <2>2 DEF Q
  <1>4. \A i \in 1 .. Len(ss) : ss[i] = Sector(lba + i - 1) /\ Len(ss[i]) = SECTOR_SIZE
    BY <1>2, <1>3
  <1>5. sec_read(lba, n) = FlattenSeq(ss)
    BY DEF sec_read
  <1> HIDE DEF ss
  <1>6. /\ FlattenSeq(ss) \in Seq(Items) /\ Len(FlattenSeq(ss)) = Len(ss) * SECTOR_SIZE
        /\ \A i \in 1 .. Len(ss), j \in 1 .. SECTOR_SIZE :
             FlattenSeq(ss)[(i - 1) * SECTOR_SIZE + j] = ss[i][j]
    BY <1>1, <1>3, <1>4, FlattenBlocks
  <1>7. QED
    BY <1>3, <1>4, <1>5, <1>6

StartsAt(lba, c) == lba = DataLba + (c - 2) * Spc
ReadsClusters(lba, c, n) ==
    LET d == sec_read(lba, n * Spc)
    IN  /\ lba \in Int /\ Readable(lba, n * Spc) /\ d \in Seq(Items)
        /\ Len(d) = n * (Spc * SECTOR_SIZE)
        /\ \A i \in 1 .. n, y \in 1 .. Spc * SECTOR_SIZE :
             d[(i - 1) * (Spc * SECTOR_SIZE) + y] = disk.data[c + i - 1][y]

\* n clusters read one after the other from cluster c on.
LEMMA ClustersRead ==
    ASSUME Shaped(disk), Spc # 0, NEW n \in Nat, NEW c \in Nat, c >= 2, n >= 1, c + n <= NClusters + 2,
           NEW lba, StartsAt(lba, c)
    PROVE  ReadsClusters(lba, c, n)
  <1> DEFINE w == SECTOR_SIZE
             d == sec_read(lba, n * Spc)
  <1>1. /\ DataLba \in Int /\ Spc \in Nat /\ NClusters \in Nat /\ w \in Nat /\ Spc * w \in Nat
        /\ NClusters * Spc \in Nat /\ Spc >= 1
    BY ShapedFacts
  <1>2. lba \in Int /\ (c - 2) * Spc \in Nat /\ n * Spc \in Nat
    BY <1>1 DEF StartsAt
  <1>3. (c - 2) * Spc + n * Spc <= NClusters * Spc /\ n * Spc > 0
    <2>1. (c - 2) * Spc + n * Spc = (c - 2 + n) * Spc
      BY <1>1
    <2>2. (c - 2 + n) * Spc <= NClusters * Spc
      <3>1. c - 2 + n <= NClusters /\ c - 2 + n \in Nat
        BY <1>1
      <3>2. QED
        BY <1>1, <3>1
    <2>3. n * Spc >= 1 * Spc
      BY <1>1
    <2>4. QED
      BY <1>1, <1>2, <2>1, <2>2, <2>3
  <1>4. OnDisk(lba, n * Spc) /\ Readable(lba, n * Spc)
    <2> DEFINE a == (c - 2) * Spc
               b == n * Spc
               z == NClusters * Spc
    <2>1. a \in Nat /\ b \in Nat /\ z \in Nat /\ a + b <= z /\ lba = DataLba + a /\ b > 0
      BY <1>1, <1>2, <1>3 DEF StartsAt
    <2> HIDE DEF a, b, z
    <2>2. lba + b <= DataLba + z
      BY <1>1, <2>1
    <2>3. QED
      BY <2>1, <2>2 DEF OnDisk, Readable, b, z, NClusters, Spc
  <1>5. /\ d \in Seq(Items) /\ Len(d) = (n * Spc) * w
        /\ \A i \in 1 .. n * Spc, j \in 1 .. w : d[(i - 1) * w + j] = Sector(lba + i - 1)[j]
    <2> DEFINE b == n * Spc
    <2>1. b \in Nat /\ OnDisk(lba, b)
      BY <1>2, <1>4
    <2> HIDE DEF b
    <2>2. /\ sec_read(lba, b) \in Seq(Items) /\ Len(sec_read(lba, b)) = b * SECTOR_SIZE
          /\ \A i \in 1 .. b, j \in 1 .. SECTOR_SIZE :
               sec_read(lba, b)[(i - 1) * SECTOR_SIZE + j] = Sector(lba + i - 1)[j]
      BY <1>2, <2>1, SecRead
    <2>3. QED
      BY <2>2 DEF b
  <1>6. (n * Spc) * w = n * (Spc * w)
    BY <1>1
  <1> HIDE DEF d
  <1>7. ASSUME NEW i \in 1 .. n, NEW y \in 1 .. Spc * w
        PROVE  d[(i - 1) * (Spc * w) + y] = disk.data[c + i - 1][y]
    <2>1. PICK r \in 1 .. Spc, j \in 1 .. w : y = (r - 1) * w + j
      BY <1>1, BlockOf
    <2> DEFINE k == (i - 1) * Spc + r
    <2>2. k \in 1 .. n * Spc
      BY <1>1, InBlock
    <2>3. (k - 1) * w + j = (i - 1) * (Spc * w) + y
      <3>1. k - 1 = (i - 1) * Spc + (r - 1)
        BY <1>1
      <3>2. ((i - 1) * Spc + (r - 1)) * w = (i - 1) * (Spc * w) + (r - 1) * w
        BY <1>1
      <3> DEFINE p == (i - 1) * (Spc * w)
                 q == (r - 1) * w
      <3>3. p \in Int /\ q \in Int
        BY <1>1
      <3> HIDE DEF p, q, k
      <3>4. (k - 1) * w = p + q
        BY <3>1, <3>2 DEF p, q
      <3>5. y = q + j
        BY <2>1 DEF q
      <3>6. (k - 1) * w + j = p + y
        BY <1>1, <3>3, <3>4, <3>5
      <3>7. QED
        BY <3>6 DEF p
    <2>4. lba + k - 1 = DataLba + ((c + i - 1) - 2) * Spc + (r - 1)
      <3>1. (c - 2) * Spc + (i - 1) * Spc = ((c + i - 1) - 2) * Spc
        BY <1>1
      <3> DEFINE p == (c - 2) * Spc
                 q == (i - 1) * Spc
                 s == ((c + i - 1) - 2) * Spc
      <3>2. p \in Int /\ q \in Int /\ s \in Int /\ lba = DataLba + p /\ k = q + r /\ p + q = s
        BY <1>1, <3>1 DEF StartsAt
      <3> HIDE DEF p, q, s, k
      <3>3. lba + k - 1 = DataLba + s + (r - 1)
        BY <1>1, <3>2
      <3>4. QED
        BY <3>3 DEF s
    <2>5. c + i - 1 \in 2 .. NClusters + 1 /\ r - 1 \in 0 .. Spc - 1
      BY <1>1
    <2>6. Sector(lba + k - 1)[j] = disk.data[c + i - 1][(r - 1) * w + j]
      BY <2>4, <2>5, SectorOfCluster
    <2> HIDE DEF k
    <2>7. d[(k - 1) * w + j] = Sector(lba + k - 1)[j]
      BY <1>5, <2>2
    <2>8. QED
      BY <2>1, <2>3, <2>6, <2>7
  <1>8. QED
    BY <1>2, <1>4, <1>5, <1>6, <1>7 DEF d, ReadsClusters
-----------------------------------------------------------------------------
(* Types *)

\* A disk that passes the reader's checks has clusters of the size it says.
KnownDisks == \A d \in Disks : Fits(d) => Shaped(d)

Names == UNION {Range(p) : p \in Paths}
Mounted == Fits(disk) /\ fs = fat32_mk
ScanType == [start : Nat, id : Nat, n : Nat, then : {"list", "descend", "file"}]
RdShape(r) == r = [entry |-> r.entry, id |-> r.id, data |-> r.data, n_alloc |-> r.n_alloc]

TInv ==
    /\ disk \in Disks /\ pc \in {"off", "shell", "count", "lookup", "read", "panic"}
    /\ pc \in {"shell", "count", "lookup", "read"} => Mounted
    /\ cmd.op \in {"none", "ls", "cat", "run"} /\ cmd.path \in Seq(Names)
    /\ rest \in Seq(Names) /\ Len(rest) <= Len(cmd.path)
    /\ (pc = "lookup" \/ (pc = "count" /\ scan.then # "list")) => rest # <<>>
    /\ scan \in ScanType /\ rd.n_alloc \in Nat /\ RdShape(rd)
    /\ \A i \in DOMAIN last_dir : last_dir[i].cluster_id \in Nat

LEMMA MountedFits ==
    ASSUME Mountable
    PROVE  Fits(disk)
  BY DEF Mountable, fat32_mbr_check, fat32_volume_id_check, FatsMatch, Fits

LEMMA MountedFacts ==
    ASSUME KnownDisks, disk \in Disks, Mounted
    PROVE  /\ Shaped(disk) /\ fs.spc = Spc /\ fs.fat = disk.fats[1] /\ fs.root = disk.boot.first_cluster
           /\ fs.cluster_begin_lba = DataLba
           /\ Spc \in Nat /\ fs.root \in Nat /\ DataLba \in Int /\ SECTOR_SIZE \in Nat
           /\ \A c \in DOMAIN fs.fat : c \in Nat /\ fs.fat[c] \in Nat
           /\ \A c \in Nat : cluster_to_lba(c) \in Int
  <1>1. Shaped(disk)
    BY DEF KnownDisks, Mounted
  <1>2. /\ fs.spc = Spc /\ fs.fat = disk.fats[1] /\ fs.root = disk.boot.first_cluster
        /\ fs.cluster_begin_lba = DataLba
    BY DEF Mounted, fat32_mk, Spc, DataLba
  <1>3. Spc \in Nat /\ DataLba \in Int /\ SECTOR_SIZE \in Nat
    BY <1>1, ShapedFacts
  <1>4. fs.root \in Nat /\ \A c \in DOMAIN fs.fat : c \in Nat /\ fs.fat[c] \in Nat
    BY <1>1, <1>2 DEF Shaped
  <1>5. ASSUME NEW c \in Nat
        PROVE  cluster_to_lba(c) \in Int
    <2>1. (c - fs.root) * fs.spc \in Int
      BY <1>2, <1>3, <1>4
    <2>2. QED
      BY <1>2, <1>3, <2>1 DEF cluster_to_lba
  <1>6. QED
    BY <1>1, <1>2, <1>3, <1>4, <1>5

\* The entries of a directory that was read name clusters by number.
LEMMA DirTyped ==
    ASSUME KnownDisks, disk \in Disks, Mounted, NEW c \in Nat, NEW n \in Nat, DirOK(c, n)
    PROVE  \A i \in DOMAIN fat32_read_dir(c, n) : fat32_read_dir(c, n)[i].cluster_id \in Nat
  <1> DEFINE lba == cluster_to_lba(c)
             m == n * fs.spc
             d == DirItems(c, n)
             es == fat32_read_dir(c, n)
  <1>1. Shaped(disk) /\ fs.spc = Spc /\ Spc \in Nat /\ lba \in Int
    BY MountedFacts
  <1>2. m \in Nat /\ m > 0 /\ OnDisk(lba, m)
    BY <1>1 DEF DirOK, Readable
  <1>3. Spc # 0
    <2>1. Spc = 0 => m = 0
      BY <1>1
    <2>2. QED
      BY <1>2, <2>1
  <1>4. d \in Seq(Items)
    <2>1. d = sec_read(lba, m)
      BY DEF DirItems
    <2> HIDE DEF lba, m, d
    <2>2. QED
      BY <1>1, <1>2, <1>3, <2>1, SecRead
  <1>5. \A j \in DOMAIN d : d[j].kind = "slot"
    BY DEF DirOK
  <1>6. es = fat32_to_dirent(d)
    BY DEF fat32_read_dir
  <1> HIDE DEF d, es, lba, m
  <1>7. es \in Seq({Dirent(d, j) : j \in 1 .. Len(d)})
    BY <1>4, <1>6, DirentsFromSlots
  <1>8. ASSUME NEW i \in DOMAIN es
        PROVE  es[i].cluster_id \in Nat
    <2>1. PICK j \in 1 .. Len(d) : es[i] = Dirent(d, j)
      <3> DEFINE E == {Dirent(d, j) : j \in 1 .. Len(d)}
      <3>1. \A e \in E : \E j \in 1 .. Len(d) : e = Dirent(d, j)
        OBVIOUS
      <3>2. es \in Seq(E)
        BY <1>7
      <3> HIDE DEF E
      <3>3. es[i] \in E
        BY <3>2
      <3>4. QED
        BY <3>1, <3>3
    <2>2. d[j] \in Items /\ d[j].kind = "slot" /\ es[i].cluster_id = d[j].cluster
      BY <1>4, <1>5, <2>1 DEF Dirent
    <2>3. d[j] # disk.junk
      BY <1>1, <2>2 DEF Shaped
    <2>4. PICK k \in DOMAIN disk.data : d[j] \in Range(disk.data[k])
      BY <2>2, <2>3 DEF Items
    <2>5. PICK x \in DOMAIN disk.data[k] : d[j] = disk.data[k][x]
      BY <2>4 DEF Range
    <2>6. QED
      BY <1>1, <2>2, <2>5 DEF Shaped
  <1>9. QED
    BY <1>8 DEF es

LEMMA PathType ==
    ASSUME NEW p \in Paths
    PROVE  /\ p \in Seq(Names) /\ Len(p) \in Nat /\ Tail(p) \in Seq(Names)
           /\ Len(Tail(p)) = Len(p) - 1
  <1>1. p \in Seq(Range(p)) /\ p # <<>>
    BY PathAssumption
  <1>2. Range(p) \subseteq Names
    BY DEF Names
  <1>3. p \in Seq(Names)
    BY <1>1, <1>2
  <1>4. QED
    BY <1>1, <1>3

LEMMA RestTail ==
    ASSUME NEW S, NEW s \in Seq(S), Len(s) > 1
    PROVE  Tail(s) \in Seq(S) /\ Len(Tail(s)) = Len(s) - 1 /\ Len(Tail(s)) >= 1 /\ Tail(s) # <<>>
  <1>1. Len(s) \in Nat /\ s # <<>>
    OBVIOUS
  <1>2. Tail(s) \in Seq(S) /\ Len(Tail(s)) = Len(s) - 1
    BY <1>1
  <1> DEFINE t == Tail(s)
  <1>3. t \in Seq(S) /\ Len(t) >= 1
    BY <1>1, <1>2
  <1> HIDE DEF t
  <1>4. t # <<>>
    BY <1>3
  <1>5. QED
    BY <1>2, <1>3, <1>4 DEF t

\* The records of a count and of a read, and their changes.
LEMMA Records ==
    /\ RdShape(NoFile) /\ NoFile.n_alloc = 0 /\ NoFile.data = <<>> /\ NoFile.entry = {}
    /\ \A e : /\ RdShape([NoFile EXCEPT !.entry = {e}]) /\ [NoFile EXCEPT !.entry = {e}].n_alloc = 0
              /\ [NoFile EXCEPT !.entry = {e}].data = <<>> /\ [NoFile EXCEPT !.entry = {e}].entry = {e}
    /\ NoScan \in ScanType
    /\ \A c \in Nat, w \in {"list", "descend", "file"} :
         [start |-> c, id |-> c, n |-> 0, then |-> w] \in ScanType
  <1>1. RdShape(NoFile) /\ NoFile.n_alloc = 0 /\ NoFile.data = <<>> /\ NoFile.entry = {}
    BY DEF RdShape, NoFile
  <1>2. ASSUME NEW e
        PROVE  /\ RdShape([NoFile EXCEPT !.entry = {e}]) /\ [NoFile EXCEPT !.entry = {e}].n_alloc = 0
               /\ [NoFile EXCEPT !.entry = {e}].data = <<>> /\ [NoFile EXCEPT !.entry = {e}].entry = {e}
    <2> DEFINE r == [NoFile EXCEPT !.entry = {e}]
    <2>1. r = [entry |-> {e}, id |-> 0, data |-> <<>>, n_alloc |-> 0]
      <3>1. \A a, b, c, d, x : [[entry |-> a, id |-> b, data |-> c, n_alloc |-> d] EXCEPT !.entry = x]
                                = [entry |-> x, id |-> b, data |-> c, n_alloc |-> d]
        OBVIOUS
      <3> DEFINE a == {}
                 c == <<>>
                 x == {e}
      <3>2. r = [[entry |-> a, id |-> 0, data |-> c, n_alloc |-> 0] EXCEPT !.entry = x]
        BY Zenon DEF NoFile
      <3> HIDE DEF a, c, x, r
      <3>3. r = [entry |-> x, id |-> 0, data |-> c, n_alloc |-> 0]
        BY <3>2
      <3>4. QED
        BY <3>3 DEF c, x
    <2> HIDE DEF r
    <2>2. RdShape(r) /\ r.n_alloc = 0 /\ r.data = <<>> /\ r.entry = {e}
      BY <2>1 DEF RdShape
    <2>3. QED
      BY <2>2 DEF r
  <1>3. NoScan \in ScanType
    BY DEF NoScan, ScanType
  <1>4. ASSUME NEW c \in Nat, NEW w \in {"list", "descend", "file"}
        PROVE  [start |-> c, id |-> c, n |-> 0, then |-> w] \in ScanType
    BY DEF ScanType
  <1>5. QED
    BY <1>1, <1>2, <1>3, <1>4

LEMMA ScanNext ==
    ASSUME scan \in ScanType, fs.fat[scan.id] \in Nat,
           scan' = [scan EXCEPT !.id = fs.fat[@], !.n = @ + 1]
    PROVE  /\ scan' \in ScanType /\ scan'.start = scan.start /\ scan'.id = fs.fat[scan.id]
           /\ scan'.n = scan.n + 1 /\ scan'.then = scan.then
  <1> DEFINE m == scan.n + 1
             x == fs.fat[scan.id]
  <1>1. scan = [start |-> scan.start, id |-> scan.id, n |-> scan.n, then |-> scan.then]
    BY DEF ScanType
  <1>2. m \in Nat /\ x \in Nat /\ scan.start \in Nat /\ scan.then \in {"list", "descend", "file"}
    BY DEF ScanType
  <1>3. scan' = [scan EXCEPT !.id = x, !.n = m]
    OBVIOUS
  <1> HIDE DEF m, x
  <1>4. scan' = [start |-> scan.start, id |-> x, n |-> m, then |-> scan.then]
    BY ONLY <1>1, <1>3
  <1>5. scan'.start = scan.start /\ scan'.id = x /\ scan'.n = m /\ scan'.then = scan.then
    BY ONLY <1>4
  <1>6. scan' \in ScanType
    BY ONLY <1>2, <1>4 DEF ScanType
  <1>7. QED
    BY <1>5, <1>6 DEF m, x

LEMMA RdStarts ==
    ASSUME RdShape(rd), NEW x, NEW y, rd' = [rd EXCEPT !.id = x, !.n_alloc = y]
    PROVE  RdShape(rd') /\ rd'.entry = rd.entry /\ rd'.id = x /\ rd'.data = rd.data /\ rd'.n_alloc = y
  <1>1. rd = [entry |-> rd.entry, id |-> rd.id, data |-> rd.data, n_alloc |-> rd.n_alloc]
    BY DEF RdShape
  <1>2. rd' = [entry |-> rd.entry, id |-> x, data |-> rd.data, n_alloc |-> y]
    BY <1>1
  <1>3. rd'.entry = rd.entry /\ rd'.id = x /\ rd'.data = rd.data /\ rd'.n_alloc = y
    BY ONLY <1>2
  <1>4. QED
    BY <1>2, <1>3 DEF RdShape

LEMMA RdGrows ==
    ASSUME RdShape(rd), NEW x, NEW y, rd' = [rd EXCEPT !.data = x, !.id = y]
    PROVE  RdShape(rd') /\ rd'.entry = rd.entry /\ rd'.id = y /\ rd'.data = x /\ rd'.n_alloc = rd.n_alloc
  <1>1. rd = [entry |-> rd.entry, id |-> rd.id, data |-> rd.data, n_alloc |-> rd.n_alloc]
    BY DEF RdShape
  <1>2. rd' = [entry |-> rd.entry, id |-> y, data |-> x, n_alloc |-> rd.n_alloc]
    BY <1>1
  <1>3. rd'.entry = rd.entry /\ rd'.id = y /\ rd'.data = x /\ rd'.n_alloc = rd.n_alloc
    BY ONLY <1>2
  <1>4. QED
    BY <1>2, <1>3 DEF RdShape

LEMMA TNext ==
    ASSUME KnownDisks, TInv, [Next]_vars
    PROVE  TInv'
  <1>1. CASE UNCHANGED vars
    BY <1>1 DEF TInv, vars, Mounted, fat32_mk
  <1>2. ASSUME disk' = disk, fs' = fs, Mounted
        PROVE  Mounted'
    BY <1>2 DEF Mounted, fat32_mk
  <1>3. Len(rest) \in Nat /\ Len(cmd.path) \in Nat
    BY DEF TInv
  <1>4. CASE fat32_init
    <2>1. CASE Mountable /\ fs' = fat32_mk /\ pc' = "shell" /\ UNCHANGED <<disk, cmd, rest, last_dir, scan, rd, out>>
      <3>1. Mounted'
        BY <2>1, MountedFits DEF Mounted, fat32_mk
      <3>2. QED
        BY <2>1, <3>1 DEF TInv
    <2>2. CASE Stop("panic")
      BY <2>2 DEF TInv, Stop
    <2>3. QED
      BY <1>4, <2>1, <2>2 DEF fat32_init
  <1>5. CASE CountStep
    <2>1. CASE /\ scan.id \in DOMAIN fs.fat
               /\ scan' = [scan EXCEPT !.id = fs.fat[@], !.n = @ + 1]
               /\ UNCHANGED <<disk, pc, fs, cmd, rest, last_dir, rd, out>>
      <3>1. Mounted /\ disk \in Disks /\ scan \in ScanType
        BY <1>5 DEF CountStep, TInv
      <3>2. fs.fat[scan.id] \in Nat
        BY <2>1, <3>1, MountedFacts
      <3>3. scan' \in ScanType /\ scan'.then = scan.then
        BY <2>1, <3>1, <3>2, ScanNext
      <3>4. QED
        BY <1>2, <2>1, <3>1, <3>3 DEF TInv
    <2>2. CASE Stop("panic")
      BY <2>2 DEF TInv, Stop
    <2>3. QED
      BY <1>5, <2>1, <2>2 DEF CountStep
  <1>6. CASE ReadDir
    <2>1. /\ pc = "count" /\ Mounted /\ disk \in Disks /\ scan \in ScanType
          /\ UNCHANGED <<disk, fs, cmd, rest, scan, rd>>
      BY <1>6 DEF ReadDir, Counted, TInv
    <2>2. scan.start \in Nat /\ scan.n \in Nat
      BY <2>1 DEF ScanType
    <2>3. CASE pc' \in {"shell", "panic"} /\ UNCHANGED last_dir
      BY <1>2, <2>1, <2>3 DEF TInv
    <2>4. CASE /\ Counted("descend") /\ DirOK(scan.start, scan.n)
               /\ pc' = "lookup" /\ last_dir' = fat32_read_dir(scan.start, scan.n)
      <3>1. \A i \in DOMAIN last_dir' : last_dir'[i].cluster_id \in Nat
        BY <2>1, <2>2, <2>4, DirTyped
      <3>2. rest' # <<>>
        BY <2>1, <2>4 DEF TInv, Counted
      <3>3. QED
        BY <1>2, <2>1, <2>4, <3>1, <3>2 DEF TInv
    <2>5. QED
      BY <1>6, <2>3, <2>4 DEF ReadDir, Give
  <1>7. CASE LookupDir
    <2>1. /\ pc = "lookup" /\ Mounted /\ Len(rest) > 1 /\ rest \in Seq(Names)
          /\ UNCHANGED <<disk, fs, cmd, last_dir, rd>>
      BY <1>7 DEF LookupDir, TInv
    <2>2. CASE NotFound /\ UNCHANGED <<rest, scan>>
      <3>1. pc' = "shell"
        BY <2>2 DEF NotFound, Give
      <3>2. QED
        BY <1>2, <2>1, <2>2, <3>1 DEF TInv
    <2>3. CASE \E e \in dir_lookup(Head(rest)) : Count(e.cluster_id, "descend") /\ rest' = Tail(rest)
      <3>1. PICK e \in dir_lookup(Head(rest)) : Count(e.cluster_id, "descend") /\ rest' = Tail(rest)
        BY <2>3
      <3>2. e.cluster_id \in Nat
        BY DEF dir_lookup, TInv
      <3>3. pc' = "count" /\ scan' \in ScanType
        BY <3>1, <3>2, Records DEF Count
      <3>4. rest' \in Seq(Names) /\ Len(rest') = Len(rest) - 1 /\ rest' # <<>>
        BY <2>1, <3>1, RestTail
      <3>5. QED
        BY <1>2, <1>3, <2>1, <3>3, <3>4 DEF TInv
    <2>4. QED
      BY <1>7, <2>2, <2>3 DEF LookupDir
  <1>8. CASE LookupLast
    <2>1. /\ pc = "lookup" /\ Mounted /\ UNCHANGED <<disk, fs, cmd, rest, last_dir>>
      BY <1>8 DEF LookupLast, TInv
    <2>2. CASE pc' = "shell" /\ UNCHANGED <<rd, scan>>
      BY <1>2, <2>1, <2>2 DEF TInv
    <2>3. CASE \E e \in dir_lookup(Head(rest)), w \in {"list", "file"} :
                 Count(e.cluster_id, w) /\ (UNCHANGED rd \/ rd' = [NoFile EXCEPT !.entry = {e}])
      <3>1. PICK e \in dir_lookup(Head(rest)), w \in {"list", "file"} :
                 Count(e.cluster_id, w) /\ (UNCHANGED rd \/ rd' = [NoFile EXCEPT !.entry = {e}])
        BY <2>3
      <3>2. e.cluster_id \in Nat
        BY DEF dir_lookup, TInv
      <3>3. pc' = "count" /\ scan' \in ScanType
        BY <3>1, <3>2, Records DEF Count
      <3>4. rd'.n_alloc \in Nat /\ RdShape(rd')
        <4>1. CASE UNCHANGED rd
          BY <4>1 DEF TInv
        <4>2. CASE rd' = [NoFile EXCEPT !.entry = {e}]
          <5>1. RdShape(rd') /\ rd'.n_alloc = 0
            BY <4>2, Records, Zenon
          <5>2. QED
            BY <5>1
        <4>3. QED
          BY <3>1, <4>1, <4>2
      <3>5. QED
        BY <1>2, <2>1, <3>3, <3>4 DEF TInv
    <2>4. QED
      BY <1>8, <2>2, <2>3 DEF LookupLast, NotFound, Give
  <1>9. CASE ReadStart
    <2>1. /\ pc = "count" /\ Mounted /\ disk \in Disks /\ scan \in ScanType /\ pc' = "read"
          /\ UNCHANGED <<disk, fs, cmd, rest, last_dir, scan>>
      BY <1>9 DEF ReadStart, Counted, TInv
    <2>2. scan.n * fs.spc * SECTOR_SIZE \in Nat
      <3>1. scan.n \in Nat /\ fs.spc \in Nat /\ SECTOR_SIZE \in Nat
        BY <2>1, MountedFacts DEF ScanType
      <3>2. scan.n * fs.spc \in Nat
        BY <3>1
      <3>3. QED
        BY <3>1, <3>2
    <2>3. rd'.n_alloc \in Nat /\ RdShape(rd')
      <3> DEFINE x == scan.n * fs.spc * SECTOR_SIZE
      <3>1. x \in Nat /\ rd' = [rd EXCEPT !.id = scan.start, !.n_alloc = x]
        BY <1>9, <2>2 DEF ReadStart
      <3> HIDE DEF x
      <3>2. RdShape(rd)
        BY DEF TInv
      <3>3. QED
        BY <3>1, <3>2, RdStarts
    <2>4. QED
      BY <1>2, <2>1, <2>3 DEF TInv
  <1>10. CASE ReadCluster
    <2>1. CASE Stop("panic")
      BY <2>1 DEF TInv, Stop
    <2>2. CASE /\ rd' = [rd EXCEPT !.data = @ \o sec_read(cluster_to_lba(rd.id), fs.spc),
                                   !.id = fs.fat[@]]
               /\ UNCHANGED <<disk, pc, fs, cmd, rest, last_dir, scan, out>>
      <3>1. rd'.n_alloc \in Nat /\ RdShape(rd')
        <4> DEFINE x == rd.data \o sec_read(cluster_to_lba(rd.id), fs.spc)
                   y == fs.fat[rd.id]
        <4>1. rd' = [rd EXCEPT !.data = x, !.id = y]
          BY <2>2
        <4>2. RdShape(rd) /\ rd.n_alloc \in Nat
          BY DEF TInv
        <4> HIDE DEF x, y
        <4>3. QED
          BY <4>1, <4>2, RdGrows
      <3>2. QED
        BY <1>2, <1>10, <2>2, <3>1 DEF TInv
    <2>3. QED
      BY <1>10, <2>1, <2>2 DEF ReadCluster
  <1>11. CASE ReadDone
    BY <1>2, <1>11 DEF ReadDone, Give, TInv
  <1>12. CASE Panicked
    BY <1>1, <1>12 DEF Panicked
  <1>13. ASSUME NEW op \in {"ls", "cat", "run"}, NEW p \in Paths, Command(op, p)
         PROVE  TInv'
    <2>1. /\ pc = "shell" /\ Mounted /\ disk \in Disks /\ UNCHANGED <<disk, fs>>
          /\ cmd' = [op |-> op, path |-> p] /\ rd' = NoFile /\ rest' = Tail(p) /\ last_dir' = <<>>
      BY <1>13 DEF Command, TInv
    <2>2. /\ cmd'.op = op /\ cmd'.path = p
          /\ p \in Seq(Names) /\ Len(p) \in Nat /\ Tail(p) \in Seq(Names) /\ Len(Tail(p)) = Len(p) - 1
      BY <2>1, PathType
    <2>3. fs.root \in Nat
      BY <2>1, MountedFacts
    <2>4. /\ pc' \in {"shell", "count"} /\ scan' \in ScanType
          /\ pc' = "count" => Len(p) > 1
      <3>1. IsRoot(p) => Len(p) > 1
        BY DEF IsRoot
      <3>2. \/ pc' = "shell" /\ scan' = NoScan
            \/ /\ Len(p) > 1 /\ pc' = "count"
               /\ \E w \in {"list", "descend", "file"} :
                    scan' = [start |-> fs.root, id |-> fs.root, n |-> 0, then |-> w]
        BY <1>13, <3>1 DEF Command, Give, Count, Absolute
      <3>3. scan' \in ScanType
        BY <2>3, <3>2, Records, Zenon
      <3>4. QED
        BY <3>2, <3>3
    <2>5. pc' = "count" => rest' # <<>>
      <3>1. \A n \in Nat : n > 1 => n - 1 # 0
        OBVIOUS
      <3>2. Len(<<>>) = 0
        OBVIOUS
      <3>3. QED
        BY <2>1, <2>2, <2>4, <3>1, <3>2, Zenon
    <2>6. Len(rest') <= Len(cmd'.path) /\ rest' \in Seq(Names)
      BY <2>1, <2>2
    <2>7. \A i \in DOMAIN last_dir' : last_dir'[i].cluster_id \in Nat
      BY <2>1
    <2>8. rd'.n_alloc \in Nat /\ RdShape(rd')
      BY <2>1, Records
    <2>9. Mounted'
      BY <1>2, <2>1
    <2>10. QED
      BY <2>1, <2>2, <2>4, <2>5, <2>6, <2>7, <2>8, <2>9 DEF TInv
  <1>14. QED
    BY <1>1, <1>4, <1>5, <1>6, <1>7, <1>8, <1>9, <1>10, <1>11, <1>12, <1>13 DEF Next

LEMMA TInductive ==
    ASSUME KnownDisks
    PROVE  Spec => []TInv
  <1>1. Init => TInv
    <2>1. <<>> \in Seq(Names) /\ Len(<<>>) = 0 /\ DOMAIN <<>> = {}
      OBVIOUS
    <2>2. QED
      BY <2>1, Records DEF Init, TInv
  <1>2. TInv /\ [Next]_vars => TInv'
    BY TNext
  <1>3. QED
    BY <1>1, <1>2, PTL DEF Spec

\* Every variable of the reader keeps its type, on every disk whose clusters
\* have the announced size, damaged or not: the clusters that count_clusters
\* follows are numbers, and path_lookup never runs off the end of its path.
THEOREM TypeCorrect ==
    ASSUME KnownDisks
    PROVE  Spec => []TypeOK
  <1>1. TInv => TypeOK
    BY DEF TInv, TypeOK, ScanType
  <1>2. QED
    BY <1>1, TInductive, PTL
-----------------------------------------------------------------------------
(* Chains.  count_clusters never meets a cluster twice, so the ones it has   *)
(* counted are a set of that size; fat32_read_file walks the same chain.     *)

\* The FATs are finite, and those of the disks that the reader mounts have no
\* loop.
NoLoopDisks == \A d \in Disks : IsFiniteSet(DOMAIN d.fats[1]) /\ (Fits(d) => NoLoops(d))

VisitedIs(V) == /\ V \in SUBSET DOMAIN fs.fat /\ IsFiniteSet(V) /\ Cardinality(V) = scan.n
                /\ scan.id \notin V /\ \A c \in V : fs.fat[c] \in V \cup {scan.id}
Visited == scan.n = 0 \/ (Mounted /\ \E V : VisitedIs(V))

WalkIs(W) ==
    /\ W \in [0 .. scan.n -> Nat] /\ W[0] = scan.start /\ W[scan.n] = scan.id
    /\ \A i \in 0 .. scan.n - 1 : /\ W[i] \in DOMAIN fs.fat /\ Type(W[i]) # "LAST"
                                  /\ W[i + 1] = fs.fat[W[i]]
ReadIs(W) ==
    /\ Type(scan.id) = "LAST" /\ rd.n_alloc = scan.n * (Spc * SECTOR_SIZE)
    /\ \E j \in 0 .. scan.n : /\ rd.id = W[j] /\ rd.data \in Seq(Items)
                              /\ Len(rd.data) = j * (Spc * SECTOR_SIZE)
BInv ==
    /\ Visited
    /\ Len(rd.data) <= rd.n_alloc
    /\ pc \in {"count", "lookup"} => rd.data = <<>>
    /\ pc \in {"count", "read"} => \E W : WalkIs(W) /\ (pc = "read" => ReadIs(W))

LEMMA VisitedNext ==
    ASSUME NoLoopDisks, KnownDisks, disk \in Disks, Mounted, scan \in ScanType, Visited,
           scan.id \in DOMAIN fs.fat
    PROVE  \E V : /\ V \in SUBSET DOMAIN fs.fat /\ IsFiniteSet(V) /\ Cardinality(V) = scan.n + 1
                  /\ fs.fat[scan.id] \notin V /\ \A c \in V : fs.fat[c] \in V \cup {fs.fat[scan.id]}
  <1>1. PICK V : VisitedIs(V)
    <2>1. CASE scan.n = 0
      <3>1. VisitedIs({})
        BY <2>1, FS_EmptySet DEF VisitedIs
      <3>2. QED
        BY <3>1
    <2>2. QED
      BY <2>1 DEF Visited
  <1> DEFINE U == V \cup {scan.id}
  <1>2. U \in SUBSET DOMAIN fs.fat /\ U # {} /\ scan.id \in U
    BY <1>1 DEF VisitedIs
  <1>3. IsFiniteSet(U) /\ Cardinality(U) = scan.n + 1
    BY <1>1, FS_AddElement DEF VisitedIs
  <1>4. fs.fat[scan.id] \notin U
    <2>1. SUFFICES ASSUME fs.fat[scan.id] \in U PROVE FALSE
      OBVIOUS
    <2>2. \A c \in U : fs.fat[c] \in U
      BY <1>1, <2>1 DEF VisitedIs
    <2>3. NoLoops(disk) /\ fs.fat = disk.fats[1]
      BY MountedFacts DEF NoLoopDisks, Mounted
    <2> HIDE DEF U
    <2>4. QED
      BY <1>2, <2>2, <2>3 DEF NoLoops
  <1>5. \A c \in U : fs.fat[c] \in U \cup {fs.fat[scan.id]}
    BY <1>1 DEF VisitedIs
  <1>6. QED
    BY <1>2, <1>3, <1>4, <1>5

LEMMA WalkNext ==
    ASSUME scan \in ScanType, NEW W, WalkIs(W), scan.id \in DOMAIN fs.fat, fs.fat[scan.id] \in Nat,
           Type(scan.id) # "LAST"
    PROVE  \E X : /\ X \in [0 .. scan.n + 1 -> Nat] /\ X[0] = scan.start
                  /\ X[scan.n + 1] = fs.fat[scan.id]
                  /\ \A i \in 0 .. scan.n : /\ X[i] \in DOMAIN fs.fat /\ Type(X[i]) # "LAST"
                                            /\ X[i + 1] = fs.fat[X[i]]
  <1> DEFINE n == scan.n
             x == fs.fat[scan.id]
             X == [i \in 0 .. n + 1 |-> IF i <= n THEN W[i] ELSE x]
  <1>1. n \in Nat /\ x \in Nat
    BY DEF ScanType
  <1>2. /\ W \in [0 .. n -> Nat] /\ W[0] = scan.start /\ W[n] = scan.id
        /\ \A i \in 0 .. n - 1 : W[i] \in DOMAIN fs.fat /\ Type(W[i]) # "LAST" /\ W[i + 1] = fs.fat[W[i]]
    BY DEF WalkIs
  <1> HIDE DEF n, x
  <1>3. X \in [0 .. n + 1 -> Nat] /\ X[0] = scan.start /\ X[n + 1] = x
    BY <1>1, <1>2
  <1>4. ASSUME NEW i \in 0 .. n
        PROVE  X[i] \in DOMAIN fs.fat /\ Type(X[i]) # "LAST" /\ X[i + 1] = fs.fat[X[i]]
    <2>1. X[i] = W[i]
      BY <1>1
    <2>2. CASE i = n
      <3>1. X[i] = scan.id /\ X[i + 1] = x
        BY <1>1, <1>2, <2>1, <2>2
      <3>2. QED
        BY <3>1 DEF x
    <2>3. CASE i # n
      <3>1. i \in 0 .. n - 1 /\ i + 1 \in 0 .. n + 1 /\ i + 1 <= n
        BY <1>1, <2>3
      <3>2. X[i + 1] = W[i + 1]
        BY <3>1
      <3>3. QED
        BY <1>2, <2>1, <3>1, <3>2
    <2>4. QED
      BY <2>2, <2>3
  <1> HIDE DEF X
  <1>5. QED
    BY <1>3, <1>4 DEF n, x

\* A walk that has just begun.
LEMMA WalkStarts ==
    ASSUME NEW c \in Nat, NEW w, scan' = [start |-> c, id |-> c, n |-> 0, then |-> w]
    PROVE  scan'.n = 0 /\ \E W : WalkIs(W)'
  <1> DEFINE W == [i \in 0 .. 0 |-> c]
  <1>1. scan'.start = c /\ scan'.id = c /\ scan'.n = 0
    OBVIOUS
  <1>2. W \in [0 .. 0 -> Nat] /\ W[0] = c /\ 0 .. 0 - 1 = {}
    OBVIOUS
  <1> HIDE DEF W
  <1>3. WalkIs(W)'
    BY <1>1, <1>2 DEF WalkIs
  <1>4. QED
    BY <1>1, <1>3

\* Reading a cluster of the walk: the data grow by a cluster, and stay within
\* what was allocated.
LEMMA ReadGrows ==
    ASSUME KnownDisks, TInv, pc = "read", Type(rd.id) # "LAST", NEW W, WalkIs(W), ReadIs(W),
           Readable(cluster_to_lba(rd.id), fs.spc)
    PROVE  LET data == rd.data \o sec_read(cluster_to_lba(rd.id), fs.spc)
           IN  /\ data \in Seq(Items) /\ Len(data) <= rd.n_alloc
               /\ \E j \in 0 .. scan.n : /\ fs.fat[rd.id] = W[j]
                                         /\ Len(data) = j * (Spc * SECTOR_SIZE)
  <1> DEFINE lba == cluster_to_lba(rd.id)
             m == Spc * SECTOR_SIZE
             n == scan.n
             new == sec_read(lba, Spc)
  <1>1. /\ Mounted /\ disk \in Disks /\ n \in Nat /\ Shaped(disk) /\ fs.spc = Spc /\ Spc \in Nat
        /\ SECTOR_SIZE \in Nat
    BY MountedFacts DEF TInv, ScanType
  <1>2. /\ rd.n_alloc = n * m /\ Type(scan.id) = "LAST"
        /\ \E j \in 0 .. n : rd.id = W[j] /\ rd.data \in Seq(Items) /\ Len(rd.data) = j * m
    BY DEF ReadIs
  <1>3. PICK j \in 0 .. n : rd.id = W[j] /\ rd.data \in Seq(Items) /\ Len(rd.data) = j * m
    BY <1>2
  <1>4. W[n] = scan.id /\ W \in [0 .. n -> Nat]
    BY DEF WalkIs
  <1>5. j # n
    BY <1>2, <1>3, <1>4
  <1>6. j \in 0 .. n - 1 /\ j + 1 \in 0 .. n /\ j \in Nat /\ j + 1 <= n
    BY <1>1, <1>5
  <1>7. W[j + 1] = fs.fat[rd.id]
    BY <1>3, <1>6 DEF WalkIs
  <1>8. lba \in Int
    <2>1. rd.id \in Nat
      BY <1>3, <1>4
    <2>2. QED
      BY <1>1, <2>1, MountedFacts
  <1>9. Spc > 0 /\ OnDisk(lba, Spc)
    BY <1>1 DEF Readable
  <1>10. new \in Seq(Items) /\ Len(new) = m
    <2> HIDE DEF lba
    <2>1. QED
      BY <1>1, <1>8, <1>9, SecRead
  <1>11. m \in Nat /\ j * m \in Nat /\ n * m \in Nat /\ j * m + m = (j + 1) * m /\ (j + 1) * m <= n * m
    <2>1. m \in Nat
      BY <1>1
    <2> HIDE DEF m
    <2>2. j * m \in Nat /\ n * m \in Nat /\ j * m + m = (j + 1) * m
      BY <1>1, <1>6, <2>1
    <2>3. (j + 1) * m <= n * m
      BY <1>1, <1>6, <2>1
    <2>4. QED
      BY <2>1, <2>2, <2>3
  <1> DEFINE data == rd.data \o new
  <1>12. data \in Seq(Items) /\ Len(data) = Len(rd.data) + Len(new)
    <2> HIDE DEF new
    <2>1. QED
      BY <1>3, <1>10, ConcatSeq
  <1>13. data = rd.data \o sec_read(cluster_to_lba(rd.id), fs.spc)
    BY <1>1
  <1> HIDE DEF data, new
  <1>14. Len(data) = (j + 1) * m /\ Len(data) <= rd.n_alloc
    BY <1>2, <1>3, <1>10, <1>11, <1>12
  <1>15. QED
    BY <1>6, <1>7, <1>12, <1>13, <1>14

LEMMA BNext ==
    ASSUME NoLoopDisks, KnownDisks, TInv, BInv, [Next]_vars
    PROVE  BInv'
  <1>1. ASSUME disk' = disk, fs' = fs
        PROVE  (Mounted => Mounted') /\ Spc' = Spc /\ Items' = Items
    BY <1>1 DEF Mounted, fat32_mk, Spc, Items
  <1>2. ASSUME disk' = disk, fs' = fs, scan' = scan
        PROVE  Visited' /\ \A W : WalkIs(W) => WalkIs(W)'
    BY <1>1, <1>2 DEF BInv, Visited, VisitedIs, WalkIs
  <1>3. ASSUME disk' = disk, fs' = fs, scan' = scan, rd' = rd, pc' = pc
        PROVE  BInv'
    <2>1. \A W : ReadIs(W) => ReadIs(W)'
      BY <1>1, <1>3 DEF ReadIs
    <2>2. pc' \in {"count", "read"} => \E W : (WalkIs(W) /\ (pc = "read" => ReadIs(W)))'
      BY <1>2, <1>3, <2>1 DEF BInv
    <2>3. QED
      BY <1>2, <1>3, <2>2 DEF BInv
  <1>4. ASSUME disk' = disk, fs' = fs, scan' = scan, rd' = rd, pc' \in {"shell", "panic"}
        PROVE  BInv'
    BY <1>2, <1>4 DEF BInv
  <1>5. CASE fat32_init
    <2>1. pc = "off" /\ pc' \in {"shell", "panic"} /\ UNCHANGED <<disk, scan, rd>>
      BY <1>5 DEF fat32_init, Stop
    <2>2. CASE fs' = fs
      BY <1>4, <2>1, <2>2
    <2>3. CASE fs' = fat32_mk /\ pc' = "shell"
      <3>1. Visited'
        <4>1. CASE scan.n = 0
          BY <2>1, <4>1 DEF Visited
        <4>2. CASE Mounted /\ \E V : VisitedIs(V)
          <5>1. fs' = fs
            BY <2>3, <4>2 DEF Mounted
          <5>2. QED
            BY <1>2, <2>1, <5>1
        <4>3. QED
          BY <4>1, <4>2 DEF BInv, Visited
      <3>2. QED
        BY <2>1, <2>3, <3>1 DEF BInv
    <2>4. QED
      BY <1>5, <2>2, <2>3 DEF fat32_init, Stop
  <1>6. CASE CountStep
    <2>1. CASE /\ scan.id \in DOMAIN fs.fat
               /\ scan' = [scan EXCEPT !.id = fs.fat[@], !.n = @ + 1]
               /\ UNCHANGED <<disk, pc, fs, cmd, rest, last_dir, rd, out>>
      <3>1. pc = "count" /\ Mounted /\ disk \in Disks /\ scan \in ScanType /\ Type(scan.id) # "LAST"
        BY <1>6 DEF CountStep, TInv
      <3>2. fs.fat[scan.id] \in Nat
        BY <2>1, <3>1, MountedFacts
      <3>3. scan'.start = scan.start /\ scan'.id = fs.fat[scan.id] /\ scan'.n = scan.n + 1
        BY <2>1, <3>1, <3>2, ScanNext
      <3>4. Visited'
        <4>1. PICK V : /\ V \in SUBSET DOMAIN fs.fat /\ IsFiniteSet(V) /\ Cardinality(V) = scan.n + 1
                       /\ fs.fat[scan.id] \notin V /\ \A c \in V : fs.fat[c] \in V \cup {fs.fat[scan.id]}
          BY <2>1, <3>1, VisitedNext DEF BInv
        <4>2. VisitedIs(V)'
          BY <2>1, <3>3, <4>1 DEF VisitedIs
        <4>3. Mounted'
          BY <1>1, <2>1, <3>1
        <4>4. QED
          BY <4>2, <4>3 DEF Visited
      <3>5. \E W : WalkIs(W)'
        <4>1. PICK W : WalkIs(W)
          BY <3>1 DEF BInv
        <4>2. PICK X : /\ X \in [0 .. scan.n + 1 -> Nat] /\ X[0] = scan.start
                       /\ X[scan.n + 1] = fs.fat[scan.id]
                       /\ \A i \in 0 .. scan.n : /\ X[i] \in DOMAIN fs.fat /\ Type(X[i]) # "LAST"
                                                 /\ X[i + 1] = fs.fat[X[i]]
          BY <2>1, <3>1, <3>2, <4>1, WalkNext
        <4>3. scan.n \in Nat /\ (scan.n + 1) - 1 = scan.n
          BY <3>1 DEF ScanType
        <4>4. WalkIs(X)'
          BY <2>1, <3>3, <4>2, <4>3 DEF WalkIs
        <4>5. QED
          BY <4>4
      <3>6. QED
        BY <2>1, <3>1, <3>4, <3>5 DEF BInv
    <2>2. CASE Stop("panic")
      BY <1>4, <2>2 DEF Stop
    <2>3. QED
      BY <1>6, <2>1, <2>2 DEF CountStep
  <1>7. CASE ReadDir
    <2>1. pc = "count" /\ UNCHANGED <<disk, fs, scan, rd>> /\ pc' \in {"shell", "panic", "lookup"}
      BY <1>7 DEF ReadDir, Counted, Give
    <2>2. QED
      BY <1>2, <2>1 DEF BInv
  \* A count begins, with nothing read.
  <1>8. ASSUME NEW c \in Nat, NEW w, Count(c, w), rd'.data = <<>>, rd'.n_alloc \in Nat
        PROVE  BInv'
    <2>1. pc' = "count" /\ scan' = [start |-> c, id |-> c, n |-> 0, then |-> w]
      BY <1>8 DEF Count
    <2>2. Visited' /\ \E W : WalkIs(W)'
      BY <2>1, WalkStarts DEF Visited
    <2>3. Len(rd'.data) <= rd'.n_alloc
      <3>1. Len(<<>>) = 0
        OBVIOUS
      <3>2. QED
        BY <1>8, <3>1
    <2>4. QED
      BY <1>8, <2>1, <2>2, <2>3 DEF BInv
  <1>9. CASE LookupDir
    <2>1. pc = "lookup" /\ UNCHANGED <<disk, fs, cmd, last_dir, rd>>
      BY <1>9 DEF LookupDir
    <2>2. CASE NotFound /\ UNCHANGED <<rest, scan>>
      BY <1>4, <2>1, <2>2 DEF NotFound, Give
    <2>3. CASE \E e \in dir_lookup(Head(rest)) : Count(e.cluster_id, "descend")
      <3>1. PICK e \in dir_lookup(Head(rest)) : Count(e.cluster_id, "descend")
        BY <2>3
      <3>2. e.cluster_id \in Nat
        BY DEF dir_lookup, TInv
      <3>3. rd'.data = <<>> /\ rd'.n_alloc \in Nat
        BY <2>1 DEF BInv, TInv
      <3>4. QED
        BY <1>8, <3>1, <3>2, <3>3
    <2>4. QED
      BY <1>9, <2>2, <2>3 DEF LookupDir
  <1>10. CASE LookupLast
    <2>1. pc = "lookup" /\ UNCHANGED <<disk, fs, cmd, rest, last_dir>>
      BY <1>10 DEF LookupLast
    <2>2. CASE pc' = "shell" /\ UNCHANGED <<rd, scan>>
      BY <1>4, <2>1, <2>2
    <2>3. CASE \E e \in dir_lookup(Head(rest)), w \in {"list", "file"} :
                 Count(e.cluster_id, w) /\ (UNCHANGED rd \/ rd' = [NoFile EXCEPT !.entry = {e}])
      <3>1. PICK e \in dir_lookup(Head(rest)), w \in {"list", "file"} :
                 Count(e.cluster_id, w) /\ (UNCHANGED rd \/ rd' = [NoFile EXCEPT !.entry = {e}])
        BY <2>3
      <3>2. e.cluster_id \in Nat
        BY DEF dir_lookup, TInv
      <3>3. rd'.data = <<>> /\ rd'.n_alloc \in Nat
        <4>1. CASE UNCHANGED rd
          BY <2>1, <4>1 DEF BInv, TInv
        <4>2. CASE rd' = [NoFile EXCEPT !.entry = {e}]
          <5>1. rd'.data = <<>> /\ rd'.n_alloc = 0
            BY <4>2, Records, Zenon
          <5>2. QED
            BY <5>1
        <4>3. QED
          BY <3>1, <4>1, <4>2
      <3>4. QED
        BY <1>8, <3>1, <3>2, <3>3
    <2>4. QED
      BY <1>10, <2>2, <2>3 DEF LookupLast, NotFound, Give
  <1>11. CASE ReadStart
    <2> DEFINE x == scan.n * fs.spc * SECTOR_SIZE
    <2>1. /\ pc = "count" /\ Mounted /\ disk \in Disks /\ scan \in ScanType /\ pc' = "read"
          /\ UNCHANGED <<disk, fs, cmd, rest, last_dir, scan>> /\ Type(scan.id) = "LAST"
          /\ rd' = [rd EXCEPT !.id = scan.start, !.n_alloc = x]
      BY <1>11 DEF ReadStart, Counted, TInv
    <2>2. scan.n \in Nat /\ fs.spc = Spc /\ Spc \in Nat /\ SECTOR_SIZE \in Nat /\ scan.start \in Nat
      BY <2>1, MountedFacts DEF ScanType
    <2>3. x = scan.n * (Spc * SECTOR_SIZE) /\ x \in Nat /\ 0 * (Spc * SECTOR_SIZE) = 0
      BY <2>2
    <2> HIDE DEF x
    <2>4. RdShape(rd) /\ rd.data = <<>>
      BY <2>1 DEF TInv, BInv
    <2>5. rd'.id = scan.start /\ rd'.data = <<>> /\ rd'.n_alloc = x
      BY <2>1, <2>4, RdStarts
    <2>6. PICK W : WalkIs(W)
      BY <2>1 DEF BInv
    <2>7. WalkIs(W)' /\ Visited'
      BY <1>2, <2>1, <2>6
    <2>8. <<>> \in Seq(Items) /\ Len(<<>>) = 0
      OBVIOUS
    <2>9. W[0] = scan.start /\ 0 \in 0 .. scan.n
      BY <2>2, <2>6 DEF WalkIs
    <2>10. ReadIs(W)'
      <3>1. Spc' = Spc /\ Items' = Items
        BY <1>1, <2>1
      <3>2. QED
        BY <2>1, <2>3, <2>5, <2>8, <2>9, <3>1 DEF ReadIs
    <2>11. Len(rd'.data) <= rd'.n_alloc
      BY <2>3, <2>5, <2>8
    <2>12. QED
      BY <2>1, <2>7, <2>10, <2>11 DEF BInv
  <1>12. CASE ReadCluster
    <2>1. CASE Stop("panic")
      BY <1>4, <2>1 DEF Stop
    <2>2. CASE /\ Readable(cluster_to_lba(rd.id), fs.spc)
               /\ rd' = [rd EXCEPT !.data = @ \o sec_read(cluster_to_lba(rd.id), fs.spc),
                                   !.id = fs.fat[@]]
               /\ UNCHANGED <<disk, pc, fs, cmd, rest, last_dir, scan, out>>
      <3> DEFINE x == rd.data \o sec_read(cluster_to_lba(rd.id), fs.spc)
                 y == fs.fat[rd.id]
      <3>1. pc = "read" /\ Type(rd.id) # "LAST"
        BY <1>12 DEF ReadCluster
      <3>2. PICK W : WalkIs(W) /\ ReadIs(W)
        BY <3>1 DEF BInv
      <3>3. PICK j \in 0 .. scan.n : y = W[j] /\ Len(x) = j * (Spc * SECTOR_SIZE)
        BY <2>2, <3>1, <3>2, ReadGrows
      <3>4. x \in Seq(Items) /\ Len(x) <= rd.n_alloc
        BY <2>2, <3>1, <3>2, ReadGrows
      <3>5. rd' = [rd EXCEPT !.data = x, !.id = y] /\ RdShape(rd)
        BY <2>2 DEF TInv
      <3> HIDE DEF x, y
      <3>6. rd'.id = y /\ rd'.data = x /\ rd'.n_alloc = rd.n_alloc
        BY <3>5, RdGrows
      <3>7. WalkIs(W)' /\ Visited'
        BY <1>2, <2>2, <3>2
      <3>8. ReadIs(W)'
        <4>1. Spc' = Spc /\ Items' = Items /\ scan' = scan
          BY <1>1, <2>2
        <4>2. QED
          BY <3>2, <3>3, <3>4, <3>6, <4>1 DEF ReadIs
      <3>9. QED
        BY <2>2, <3>1, <3>4, <3>6, <3>7, <3>8 DEF BInv
    <2>3. QED
      BY <1>12, <2>1, <2>2 DEF ReadCluster
  <1>13. CASE ReadDone
    BY <1>4, <1>13 DEF ReadDone, Give
  <1>14. CASE Panicked
    BY <1>3, <1>14 DEF Panicked, vars
  <1>15. ASSUME NEW op \in {"ls", "cat", "run"}, NEW p \in Paths, Command(op, p)
         PROVE  BInv'
    <2>1. /\ pc = "shell" /\ Mounted /\ disk \in Disks /\ UNCHANGED <<disk, fs>> /\ rd' = NoFile
      BY <1>15 DEF Command, TInv
    <2>2. rd'.data = <<>> /\ rd'.n_alloc = 0 /\ fs.root \in Nat
      BY <2>1, MountedFacts, Records
    <2>3. CASE pc' = "shell" /\ scan' = NoScan
      <3>1. Visited' /\ Len(rd'.data) <= rd'.n_alloc
        BY <2>2, <2>3 DEF NoScan, Visited
      <3>2. QED
        BY <2>3, <3>1 DEF BInv
    <2>4. CASE \E w \in {"list", "descend"} : Count(fs.root, w)
      BY <1>8, <2>2, <2>4
    <2>5. QED
      BY <1>15, <2>3, <2>4 DEF Command, Give
  <1>16. QED
    BY <1>3, <1>5, <1>6, <1>7, <1>9, <1>10, <1>11, <1>12, <1>13, <1>14, <1>15 DEF Next, vars

LEMMA BInductive ==
    ASSUME NoLoopDisks, KnownDisks
    PROVE  Spec => []BInv
  <1>1. Init => BInv
    <2>1. Len(<<>>) = 0
      OBVIOUS
    <2>2. QED
      BY <2>1 DEF Init, BInv, Visited, NoScan, NoFile
  <1>2. TInv /\ BInv /\ [Next]_vars => BInv'
    BY BNext
  <1>3. QED
    BY <1>1, <1>2, TInductive, PTL DEF Spec

\* The loops over a chain end, on every disk whose FAT has no loop, damaged or
\* not: count_clusters counts no more clusters than the FAT has entries, and
\* fat32_read_file never writes past the buffer it has allocated.
THEOREM ChainsBoundedCorrect ==
    ASSUME NoLoopDisks, KnownDisks
    PROVE  Spec => []ChainsBounded
  <1>1. TInv /\ BInv => ChainsBounded
    <2>1. SUFFICES ASSUME TInv, BInv PROVE ChainsBounded
      OBVIOUS
    <2>2. IsFiniteSet(DOMAIN disk.fats[1]) /\ Cardinality(DOMAIN disk.fats[1]) \in Nat
      BY <2>1, FS_CardinalityType DEF TInv, NoLoopDisks
    <2>3. CASE scan.n = 0
      BY <2>1, <2>2, <2>3 DEF ChainsBounded, BInv
    <2>4. ASSUME Mounted, NEW V, VisitedIs(V)
          PROVE  ChainsBounded
      <3>1. V \in SUBSET DOMAIN disk.fats[1] /\ Cardinality(V) = scan.n
        BY <2>1, <2>4, MountedFacts DEF VisitedIs, TInv
      <3>2. Cardinality(V) <= Cardinality(DOMAIN disk.fats[1])
        BY <2>2, <3>1, FS_Subset
      <3>3. QED
        BY <2>1, <3>1, <3>2 DEF ChainsBounded, BInv
    <2>5. QED
      BY <2>1, <2>3, <2>4 DEF BInv, Visited
  <1>2. QED
    BY <1>1, TInductive, BInductive, PTL
-----------------------------------------------------------------------------
(* Formatted disks: what the tree's paths and chains have on them.           *)

\* The disks said to be good are formatted, and fit is the reader's condition;
\* the paths go through the tree's own names.
GoodDisks == /\ \A d \in Disks : d.fit = Fits(d) /\ (d.good => Formatted(d))
             /\ PathsInTree(Disks, Paths)

LEMMA PathPrefixes ==
    ASSUME NEW S, NEW s \in Seq(S), NEW k \in 0 .. Len(s) - 1
    PROVE  /\ SubSeq(s, 1, k) \in Seq(S) /\ Len(SubSeq(s, 1, k)) = k
           /\ SubSeq(s, 1, k + 1) \in Seq(S) /\ Len(SubSeq(s, 1, k + 1)) = k + 1
           /\ SubSeq(s, 1, k + 1) = Append(SubSeq(s, 1, k), s[k + 1])
           /\ SubSeq(SubSeq(s, 1, k + 1), 1, k) = SubSeq(s, 1, k)
           /\ SubSeq(s, 1, k + 1)[k + 1] = s[k + 1]
  <1> DEFINE t == SubSeq(s, 1, k)
             u == SubSeq(s, 1, k + 1)
  <1>1. Len(s) \in Nat /\ k \in Nat /\ k + 1 \in Nat /\ 0 + k = k /\ 0 + (k + 1) = k + 1 /\ k + 1 <= Len(s)
        /\ k <= Len(s) /\ 0 + 1 = 1 /\ 0 \in Nat
    OBVIOUS
  <1>2. t \in Seq(S) /\ Len(t) = k /\ \A j \in 1 .. k : t[j] = s[j]
    <2>1. /\ SubSeq(s, 0 + 1, 0 + k) \in Seq(S) /\ Len(SubSeq(s, 0 + 1, 0 + k)) = k
          /\ \A j \in 1 .. k : SubSeq(s, 0 + 1, 0 + k)[j] = s[0 + j]
      BY <1>1, SubItems
    <2>2. QED
      BY <1>1, <2>1
  <1>3. u \in Seq(S) /\ Len(u) = k + 1 /\ \A j \in 1 .. k + 1 : u[j] = s[j]
    <2>1. /\ SubSeq(s, 0 + 1, 0 + (k + 1)) \in Seq(S) /\ Len(SubSeq(s, 0 + 1, 0 + (k + 1))) = k + 1
          /\ \A j \in 1 .. k + 1 : SubSeq(s, 0 + 1, 0 + (k + 1))[j] = s[0 + j]
      BY <1>1, SubItems
    <2>2. QED
      BY <1>1, <2>1
  <1> HIDE DEF t, u
  <1>4. s[k + 1] \in S
    BY <1>1
  <1>5. u = Append(t, s[k + 1])
    <2> DEFINE a == Append(t, s[k + 1])
    <2>1. a \in Seq(S) /\ Len(a) = k + 1 /\ a[k + 1] = s[k + 1] /\ \A j \in 1 .. k : a[j] = t[j]
      BY <1>1, <1>2, <1>4
    <2> HIDE DEF a
    <2>2. \A j \in 1 .. k + 1 : a[j] = u[j]
      BY <1>1, <1>2, <1>3, <2>1
    <2>3. a = u
      BY <1>1, <1>3, <2>1, <2>2
    <2>4. QED
      BY <2>3 DEF a
  <1>6. SubSeq(u, 1, k) = t
    <2> DEFINE v == SubSeq(u, 1, k)
    <2>1. v \in Seq(S) /\ Len(v) = k /\ \A j \in 1 .. k : v[j] = u[j]
      <3>1. /\ SubSeq(u, 0 + 1, 0 + k) \in Seq(S) /\ Len(SubSeq(u, 0 + 1, 0 + k)) = k
            /\ \A j \in 1 .. k : SubSeq(u, 0 + 1, 0 + k)[j] = u[0 + j]
        BY <1>1, <1>3, SubItems
      <3>2. QED
        BY <1>1, <3>1
    <2> HIDE DEF v
    <2>2. \A j \in 1 .. k : v[j] = t[j]
      BY <1>1, <1>2, <1>3, <2>1
    <2>3. v = t
      BY <1>1, <1>2, <2>1, <2>2
    <2>4. QED
      BY <2>3 DEF v
  <1>7. u[k + 1] = s[k + 1]
    BY <1>1, <1>3
  <1>8. QED
    BY <1>2, <1>3, <1>5, <1>6, <1>7 DEF t, u

LEMMA WholePrefix ==
    ASSUME NEW S, NEW s \in Seq(S)
    PROVE  SubSeq(s, 1, Len(s)) = s /\ SubSeq(s, 1, 0) = <<>>
  <1> DEFINE t == SubSeq(s, 1, Len(s))
             n == Len(s)
  <1>1. n \in Nat /\ 0 + n = n /\ 0 + 1 = 1 /\ 0 \in Nat /\ n <= n
    OBVIOUS
  <1>2. t \in Seq(S) /\ Len(t) = n /\ \A j \in 1 .. n : t[j] = s[j]
    <2> HIDE DEF n
    <2>1. /\ SubSeq(s, 0 + 1, 0 + n) \in Seq(S) /\ Len(SubSeq(s, 0 + 1, 0 + n)) = n
          /\ \A j \in 1 .. n : SubSeq(s, 0 + 1, 0 + n)[j] = s[0 + j]
      BY <1>1, SubItems DEF n
    <2>2. QED
      BY <1>1, <2>1 DEF n
  <1> HIDE DEF t
  <1>3. t = s
    BY <1>1, <1>2
  <1>4. SubSeq(s, 1, 0) = <<>>
    <2> DEFINE u == SubSeq(s, 1, 0)
    <2>1. /\ SubSeq(s, 0 + 1, 0 + 0) \in Seq(S) /\ Len(SubSeq(s, 0 + 1, 0 + 0)) = 0
      BY <1>1, SubItems
    <2>2. u \in Seq(S) /\ Len(u) = 0
      BY <2>1
    <2> HIDE DEF u
    <2>3. u = <<>>
      BY <2>2
    <2>4. QED
      BY <2>3 DEF u
  <1>5. QED
    BY <1>3, <1>4 DEF t

\* What leads to a path of the tree is in it: its directories, each with the
\* next name.
LEMMA TreePrefix ==
    ASSUME NEW d, Formatted(d), NEW s \in DOMAIN d.tree
    PROVE  \A k \in 0 .. Len(s) - 1 : /\ SubSeq(s, 1, k) \in DOMAIN d.tree
                                      /\ d.tree[SubSeq(s, 1, k)].dir
                                      /\ s[k + 1] \in Range(d.tree[SubSeq(s, 1, k)].val)
  <1> DEFINE n == Len(s)
             S == Range(s)
             T == {i \in 0 .. n : SubSeq(s, 1, n - i) \in DOMAIN d.tree}
  <1>1. s \in Seq(S) /\ n \in Nat
    BY DEF Formatted
  <1> HIDE DEF S
  <1>2. 0 \in T
    <2>1. SubSeq(s, 1, n) = s
      BY <1>1, WholePrefix
    <2> HIDE DEF n
    <2>2. n - 0 = n /\ 0 \in 0 .. n
      BY <1>1
    <2>3. SubSeq(s, 1, n - 0) \in DOMAIN d.tree
      BY <2>1, <2>2
    <2>4. QED
      BY <2>2, <2>3
  <1>3. ASSUME NEW k \in 0 .. n - 1, SubSeq(s, 1, k + 1) \in DOMAIN d.tree
        PROVE  /\ SubSeq(s, 1, k) \in DOMAIN d.tree
               /\ d.tree[SubSeq(s, 1, k)].dir
               /\ s[k + 1] \in Range(d.tree[SubSeq(s, 1, k)].val)
    <2> DEFINE u == SubSeq(s, 1, k + 1)
               t == SubSeq(s, 1, k)
    <2>1. u \in Seq(S) /\ Len(u) = k + 1 /\ SubSeq(u, 1, k) = t /\ u[k + 1] = s[k + 1]
      BY <1>1, PathPrefixes
    <2>2. u \in DOMAIN d.tree
      BY <1>3
    <2> HIDE DEF u, t
    <2>3. u # <<>> /\ Len(u) - 1 = k
      BY <2>1
    <2>4. /\ SubSeq(u, 1, Len(u) - 1) \in DOMAIN d.tree /\ d.tree[SubSeq(u, 1, Len(u) - 1)].dir
          /\ u[Len(u)] \in Range(d.tree[SubSeq(u, 1, Len(u) - 1)].val)
      BY <2>2, <2>3 DEF Formatted
    <2>5. t \in DOMAIN d.tree /\ d.tree[t].dir /\ s[k + 1] \in Range(d.tree[t].val)
      BY <2>1, <2>3, <2>4
    <2>6. QED
      BY <2>5 DEF t
  <1>4. ASSUME NEW i \in 0 .. n - 1, i \in T
        PROVE  i + 1 \in T
    <2>1. n - i - 1 \in 0 .. n - 1 /\ (n - i - 1) + 1 = n - i /\ n - (i + 1) = n - i - 1 /\ i + 1 \in 0 .. n
      BY <1>1
    <2>2. SubSeq(s, 1, n - i - 1) \in DOMAIN d.tree
      BY <1>3, <1>4, <2>1
    <2>3. QED
      BY <2>1, <2>2
  <1>5. \A i \in 0 .. n : i \in T
    <2> HIDE DEF T
    <2>1. QED
      BY <1>1, <1>2, <1>4, UpTo
  <1>6. ASSUME NEW k \in 0 .. n - 1
        PROVE  SubSeq(s, 1, k + 1) \in DOMAIN d.tree
    <2>1. n - k - 1 \in 0 .. n /\ n - (n - k - 1) = k + 1
      BY <1>1
    <2>2. QED
      BY <1>5, <2>1
  <1>7. QED
    BY <1>3, <1>6

\* The clusters of a chain.
LEMMA ChainFacts ==
    ASSUME Formatted(disk), NEW p \in DOMAIN disk.tree
    PROVE  LET ch == disk.tree[p].chain
           IN  /\ ch \in Seq(DOMAIN disk.fats[1]) /\ Len(ch) \in Nat /\ Len(ch) >= 1
               /\ \A i \in 1 .. Len(ch) :
                    /\ ch[i] \in DOMAIN disk.fats[1] /\ ch[i] \in Nat /\ ch[i] < 2 + NClusters
                    /\ Type(ch[i]) # "LAST" /\ Type(ch[i]) # "PANIC"
                    /\ i < Len(ch) => disk.fats[1][ch[i]] = ch[i + 1]
               /\ Type(disk.fats[1][ch[Len(ch)]]) = "LAST"
  <1> DEFINE ch == disk.tree[p].chain
             D == DOMAIN disk.fats[1]
  <1>1. Linked(disk, ch) /\ D \subseteq Nat
    BY DEF Formatted, Shaped
  <1>2. ch \in Seq(D) /\ ch # <<>>
    BY <1>1 DEF Linked
  <1>3. /\ \A i \in DOMAIN ch :
             /\ Type(ch[i]) \notin {"LAST", "PANIC"} /\ ch[i] < 2 + NClusters
             /\ i < Len(ch) => disk.fats[1][ch[i]] = ch[i + 1]
             /\ i = Len(ch) => Type(disk.fats[1][ch[i]]) = "LAST"
    BY <1>1 DEF Linked, NClusters
  <1> HIDE DEF ch
  <1>4. Len(ch) \in Nat /\ Len(ch) >= 1 /\ DOMAIN ch = 1 .. Len(ch) /\ \A i \in 1 .. Len(ch) : ch[i] \in D
    BY <1>2
  <1>5. Len(ch) \in 1 .. Len(ch)
    BY <1>4
  <1>6. QED
    BY <1>1, <1>2, <1>3, <1>4, <1>5 DEF ch

\* What the clusters of a chain hold.
LEMMA ContentsBlocks ==
    ASSUME Formatted(disk), NEW p \in DOMAIN disk.tree,
           \A i \in DOMAIN disk.tree[p].chain : disk.tree[p].chain[i] >= 2
    PROVE  LET ch == disk.tree[p].chain
               m == Spc * SECTOR_SIZE
               all == Contents(disk, ch)
           IN  /\ \A i \in 1 .. Len(ch) : ch[i] \in 2 .. NClusters + 1
               /\ all \in Seq(Items) /\ Len(all) = Len(ch) * m
               /\ \A i \in 1 .. Len(ch), y \in 1 .. m : all[(i - 1) * m + y] = disk.data[ch[i]][y]
  <1> DEFINE ch == disk.tree[p].chain
             m == Spc * SECTOR_SIZE
             ss == [i \in DOMAIN ch |-> disk.data[ch[i]]]
             Q == Seq(Items)
  <1>1. /\ ch \in Seq(DOMAIN disk.fats[1]) /\ Len(ch) \in Nat
        /\ \A i \in 1 .. Len(ch) : ch[i] \in Nat /\ ch[i] < 2 + NClusters
    BY ChainFacts
  <1>2. Shaped(disk)
    BY DEF Formatted
  <1>3. /\ m \in Nat /\ NClusters \in Nat
        /\ \A c \in 2 .. NClusters + 1 : disk.data[c] \in Q /\ Len(disk.data[c]) = m
    BY <1>2, ShapedFacts
  <1>4. \A i \in DOMAIN ch : ch[i] >= 2
    OBVIOUS
  <1>5. Contents(disk, ch) = FlattenSeq(ss)
    BY DEF Contents
  <1> HIDE DEF ch, m, Q
  <1>6. DOMAIN ch = 1 .. Len(ch)
    BY <1>1
  <1>7. \A i \in 1 .. Len(ch) : ch[i] \in 2 .. NClusters + 1
    BY <1>1, <1>3, <1>4, <1>6
  <1>8. ss \in [1 .. Len(ch) -> Q] /\ \A i \in 1 .. Len(ch) : ss[i] = disk.data[ch[i]] /\ Len(ss[i]) = m
    BY <1>3, <1>6, <1>7
  <1> HIDE DEF ss
  <1>9. ss \in Seq(Q) /\ Len(ss) = Len(ch)
    <2>1. \A n \in Nat : \A f \in [1 .. n -> Q] : f \in Seq(Q) /\ Len(f) = n
      OBVIOUS
    <2>2. QED
      BY <1>1, <1>8, <2>1, Zenon
  <1>10. ss \in Seq(Seq(Items)) /\ \A i \in 1 .. Len(ss) : Len(ss[i]) = m
    BY <1>8, <1>9 DEF Q
  <1>11. /\ FlattenSeq(ss) \in Seq(Items) /\ Len(FlattenSeq(ss)) = Len(ss) * m
         /\ \A i \in 1 .. Len(ss), y \in 1 .. m : FlattenSeq(ss)[(i - 1) * m + y] = ss[i][y]
    BY <1>3, <1>10, FlattenBlocks
  <1>12. /\ Contents(disk, ch) \in Seq(Items) /\ Len(Contents(disk, ch)) = Len(ch) * m
         /\ \A i \in 1 .. Len(ch), y \in 1 .. m : Contents(disk, ch)[(i - 1) * m + y] = disk.data[ch[i]][y]
    <2> DEFINE F == FlattenSeq(ss)
    <2>1. F \in Seq(Items) /\ Len(F) = Len(ch) * m
      BY <1>9, <1>11
    <2>2. ASSUME NEW i \in 1 .. Len(ch), NEW y \in 1 .. m
          PROVE  F[(i - 1) * m + y] = disk.data[ch[i]][y]
      <3>1. F[(i - 1) * m + y] = ss[i][y]
        BY <1>9, <1>11
      <3>2. QED
        BY <1>8, <3>1
    <2> HIDE DEF F
    <2>3. Contents(disk, ch) = F
      BY <1>5 DEF F
    <2>4. QED
      BY <2>1, <2>2, <2>3
  <1>13. QED
    BY <1>7, <1>12 DEF ch, m

\* On a formatted disk the reader's addresses are the clusters' own.
LEMMA GoodMount ==
    ASSUME Formatted(disk), Mounted
    PROVE  /\ Shaped(disk) /\ Spc # 0 /\ Spc \in Nat /\ fs.spc = Spc /\ fs.fat = disk.fats[1] /\ fs.root = 2
           /\ DataLba \in Int /\ NClusters \in Nat /\ SECTOR_SIZE \in Nat /\ Spc * SECTOR_SIZE \in Nat
           /\ \A c \in Nat : cluster_to_lba(c) = DataLba + (c - 2) * Spc
  <1>1. Shaped(disk) /\ Spc # 0 /\ disk.boot.first_cluster = 2
    BY DEF Formatted, Spc
  <1>2. /\ fs.spc = Spc /\ fs.fat = disk.fats[1] /\ fs.root = 2 /\ fs.cluster_begin_lba = DataLba
    BY <1>1 DEF Mounted, fat32_mk, Spc, DataLba
  <1>3. DataLba \in Int /\ NClusters \in Nat /\ SECTOR_SIZE \in Nat /\ Spc \in Nat /\ Spc * SECTOR_SIZE \in Nat
    BY <1>1, ShapedFacts
  <1>4. \A c \in Nat : cluster_to_lba(c) = DataLba + (c - 2) * Spc
    BY <1>2 DEF cluster_to_lba
  <1>5. QED
    BY <1>1, <1>2, <1>3, <1>4

\* fat32_read_dir reads the clusters of a directory's chain, and nothing on the
\* way asserts.
LEMMA DirGood ==
    ASSUME Formatted(disk), Mounted, NEW p \in DOMAIN disk.tree, disk.tree[p].dir
    PROVE  LET ch == disk.tree[p].chain
           IN  /\ DirOK(ch[1], Len(ch))
               /\ fat32_read_dir(ch[1], Len(ch)) = fat32_to_dirent(Contents(disk, ch))
  <1> DEFINE ch == disk.tree[p].chain
             m == Spc * SECTOR_SIZE
             all == Contents(disk, ch)
             n == Len(ch)
             c == ch[1]
             lba == cluster_to_lba(c)
             d == sec_read(lba, n * Spc)
  <1>1. /\ Shaped(disk) /\ Spc # 0 /\ Spc \in Nat /\ fs.spc = Spc /\ NClusters \in Nat /\ m \in Nat
        /\ \A x \in Nat : cluster_to_lba(x) = DataLba + (x - 2) * Spc
    BY GoodMount
  <1>2. /\ n \in Nat /\ n >= 1 /\ DOMAIN ch = 1 .. n
        /\ \A i \in 1 .. n : ch[i] \in Nat /\ ch[i] < 2 + NClusters
    BY ChainFacts
  <1>3. FormattedDir(disk, p)
    BY DEF Formatted
  <1>4. /\ c >= 2 /\ \A i \in 1 .. n : ch[i] = c + i - 1
        /\ (\A i \in DOMAIN all : all[i].kind = "slot") /\ DirAsserts(all)
    BY <1>2, <1>3 DEF FormattedDir
  <1>5. 1 \in 1 .. n /\ n \in 1 .. n /\ c \in Nat
    BY <1>2
  <1>6. ch[n] = c + n - 1 /\ ch[n] < 2 + NClusters
    BY <1>2, <1>4, <1>5
  <1>7. c + n <= NClusters + 2 /\ lba = DataLba + (c - 2) * Spc
    <2> HIDE DEF n, ch, c
    <2>1. QED
      BY <1>1, <1>2, <1>5, <1>6
  <1>8. \A i \in DOMAIN ch : ch[i] >= 2
    <2> HIDE DEF n, ch, c
    <2>1. QED
      BY <1>2, <1>4, <1>5
  <1>9. /\ all \in Seq(Items) /\ Len(all) = n * m
        /\ \A i \in 1 .. n, y \in 1 .. m : all[(i - 1) * m + y] = disk.data[ch[i]][y]
    BY <1>8, ContentsBlocks
  <1> HIDE DEF n, c, lba, all, ch
  <1>10. /\ lba \in Int /\ Readable(lba, n * Spc) /\ d \in Seq(Items) /\ Len(d) = n * m
         /\ \A i \in 1 .. n, y \in 1 .. m : d[(i - 1) * m + y] = disk.data[c + i - 1][y]
    <2>1. StartsAt(lba, c)
      BY <1>7 DEF StartsAt
    <2>2. ReadsClusters(lba, c, n)
      BY <1>1, <1>2, <1>4, <1>5, <1>7, <2>1, ClustersRead
    <2>3. QED
      BY <2>2 DEF ReadsClusters
  <1> HIDE DEF d, m
  <1>11. \A i \in 1 .. n, y \in 1 .. m : d[(i - 1) * m + y] = all[(i - 1) * m + y]
    BY <1>4, <1>9, <1>10
  <1>12. d = all
    <2>1. BlocksAgree(d, all, n, m)
      BY <1>9, <1>10, <1>11 DEF BlocksAgree
    <2>2. QED
      BY <1>1, <1>2, <1>9, <1>10, <2>1, SameBlocks
  <1>13. DirItems(c, n) = d
    BY <1>1 DEF DirItems, d, lba
  <1>14. DirOK(c, n)
    BY <1>1, <1>4, <1>10, <1>12, <1>13 DEF DirOK, lba
  <1>15. fat32_read_dir(c, n) = fat32_to_dirent(all)
    BY <1>12, <1>13 DEF fat32_read_dir
  <1>16. QED
    BY <1>14, <1>15 DEF all, c, n, ch

\* A cluster of a file can be read; one from 2 on gives its own items.
LEMMA ClusterGood ==
    ASSUME Formatted(disk), Mounted, NEW c \in Nat, c < 2 + NClusters
    PROVE  LET new == sec_read(cluster_to_lba(c), fs.spc)
           IN  /\ Readable(cluster_to_lba(c), fs.spc)
               /\ new \in Seq(Items) /\ Len(new) = Spc * SECTOR_SIZE
               /\ c >= 2 => \A y \in 1 .. Spc * SECTOR_SIZE : new[y] = disk.data[c][y]
  <1> DEFINE lba == cluster_to_lba(c)
             m == Spc * SECTOR_SIZE
             new == sec_read(lba, Spc)
  <1>1. /\ Shaped(disk) /\ Spc # 0 /\ Spc \in Nat /\ fs.spc = Spc /\ NClusters \in Nat /\ m \in Nat
        /\ DataLba \in Int /\ SECTOR_SIZE \in Nat /\ lba = DataLba + (c - 2) * Spc
    BY GoodMount
  <1>2. lba \in Int /\ Readable(lba, Spc) /\ OnDisk(lba, Spc)
    <2> DEFINE a == (c - 2) * Spc
               b == (c - 1) * Spc
               z == NClusters * Spc
    <2>1. a \in Int /\ b \in Int /\ z \in Int /\ a + Spc = b
      BY <1>1
    <2>2. b <= z
      <3>1. c - 1 <= NClusters /\ c - 1 \in Int
        BY <1>1
      <3>2. QED
        BY <1>1, <3>1
    <2>3. lba = DataLba + a
      BY <1>1
    <2> HIDE DEF a, b, z, lba
    <2>4. lba \in Int /\ lba + Spc <= DataLba + z /\ Spc > 0
      BY <1>1, <2>1, <2>2, <2>3
    <2>5. QED
      BY <2>4 DEF Readable, OnDisk, z, NClusters, Spc
  <1>3. new \in Seq(Items) /\ Len(new) = m
    <2> HIDE DEF lba
    <2>1. QED
      BY <1>1, <1>2, SecRead
  <1>4. ASSUME c >= 2, NEW y \in 1 .. m
        PROVE  new[y] = disk.data[c][y]
    <2>1. 1 * Spc = Spc /\ c + 1 <= NClusters + 2 /\ 1 \in Nat /\ 1 \in 1 .. 1 /\ (1 - 1) * m + y = y /\ c + 1 - 1 = c
      <3> HIDE DEF m, lba
      <3>1. QED
        BY <1>1
    <2> HIDE DEF lba
    <2>2. \A i \in 1 .. 1, x \in 1 .. m :
            sec_read(lba, 1 * Spc)[(i - 1) * m + x] = disk.data[c + i - 1][x]
      <3>1. StartsAt(lba, c)
        BY <1>1 DEF StartsAt
      <3>2. ReadsClusters(lba, c, 1)
        BY <1>1, <1>4, <2>1, <3>1, ClustersRead
      <3>3. QED
        BY <3>2 DEF ReadsClusters
    <2> HIDE DEF m
    <2>3. sec_read(lba, 1 * Spc)[(1 - 1) * m + y] = disk.data[c + 1 - 1][y]
      BY <2>1, <2>2
    <2>4. QED
      BY <2>1, <2>3
  <1>5. QED
    BY <1>1, <1>2, <1>3, <1>4
-----------------------------------------------------------------------------
(* A lookup in a directory of the tree *)

Entries(d, p) == fat32_to_dirent(Contents(d, d.tree[p].chain))

\* The name that comes after the first k of nd in the directory they lead to:
\* dir_lookup finds it if the directory has it, and then the tree does.
LEMMA LookupGood ==
    ASSUME GoodDisks, disk \in Disks, disk.good, cmd.path \in Paths, Absolute(cmd.path),
           NEW k \in 0 .. Len(Node) - 1, NEW p, p = SubSeq(Node, 1, k), NEW q, q = SubSeq(Node, 1, k + 1),
           p \in DOMAIN disk.tree, disk.tree[p].dir, last_dir = Entries(disk, p)
    PROVE  /\ q \in DOMAIN disk.tree => dir_lookup(Node[k + 1]) # {}
           /\ \A e \in dir_lookup(Node[k + 1]) : q \in DOMAIN disk.tree /\ LeadsTo(e, disk.tree[q])
  <1> DEFINE name == Node[k + 1]
             es == last_dir
             all == Contents(disk, disk.tree[p].chain)
  <1>1. Formatted(disk)
    BY DEF GoodDisks
  <1>2. FormattedDir(disk, p)
    BY <1>1 DEF Formatted
  <1>3. /\ disk.tree[p].val = [i \in DOMAIN es |-> es[i].name]
        /\ \A i \in DOMAIN es : Append(p, es[i].name) \in DOMAIN disk.tree =>
             LeadsTo(es[i], disk.tree[Append(p, es[i].name)])
    BY <1>2 DEF FormattedDir, Entries
  <1>4. Node \in Seq(Names) /\ Len(Node) = Len(cmd.path) - 1 /\ Len(Node) \in Nat /\ cmd.path \in Seq(Names)
    BY PathType DEF Node
  <1>5. q = Append(p, name) /\ Len(q) = k + 1 /\ q[k + 1] = name /\ SubSeq(q, 1, k) = p /\ q \in Seq(Names)
    BY <1>4, PathPrefixes
  <1>6. Range(disk.tree[p].val) = {es[i].name : i \in DOMAIN es}
    BY <1>3 DEF Range
  <1>7. DOMAIN es = 1 .. Len(es) /\ Len(es) \in Nat
    <2>1. \A i \in DOMAIN disk.tree[p].chain : disk.tree[p].chain[i] >= 2
      <3>1. /\ disk.tree[p].chain[1] >= 2
            /\ \A i \in DOMAIN disk.tree[p].chain : disk.tree[p].chain[i] = disk.tree[p].chain[1] + i - 1
        BY <1>2 DEF FormattedDir
      <3>2. \A i \in DOMAIN disk.tree[p].chain : i \in Nat /\ i >= 1
        BY <1>1, ChainFacts
      <3>3. disk.tree[p].chain[1] \in Nat
        <4>1. \A n \in Nat : n >= 1 => 1 \in 1 .. n
          OBVIOUS
        <4>2. QED
          BY <1>1, <4>1, ChainFacts, Zenon
      <3> DEFINE ch == disk.tree[p].chain
      <3>4. ch[1] \in Nat /\ ch[1] >= 2 /\ \A i \in DOMAIN ch : i \in Nat /\ i >= 1 /\ ch[i] = ch[1] + i - 1
        BY <3>1, <3>2, <3>3
      <3> HIDE DEF ch
      <3>5. \A x, i \in Nat : x >= 2 /\ i >= 1 => x + i - 1 >= 2
        OBVIOUS
      <3>6. \A i \in DOMAIN ch : ch[i] >= 2
        BY <3>4, <3>5, Zenon
      <3>7. QED
        BY <3>6 DEF ch
    <2>2. all \in Seq(Items)
      BY <1>1, <2>1, ContentsBlocks
    <2> HIDE DEF all
    <2>3. fat32_to_dirent(all) \in Seq({Dirent(all, j) : j \in 1 .. Len(all)})
      BY <2>2, DirentsFromSlots
    <2> DEFINE E == {Dirent(all, j) : j \in 1 .. Len(all)}
    <2> HIDE DEF E
    <2>4. es \in Seq(E)
      BY <2>3 DEF E, Entries, all
    <2>5. QED
      BY <2>4
  <1>8. ASSUME q \in DOMAIN disk.tree
        PROVE  dir_lookup(name) # {}
    <2>1. Len(q) - 1 = k /\ k \in 0 .. Len(q) - 1
      BY <1>4, <1>5
    <2>2. q[k + 1] \in Range(disk.tree[SubSeq(q, 1, k)].val)
      BY <1>1, <1>8, <2>1, TreePrefix
    <2>3. name \in Range(disk.tree[p].val)
      BY <1>5, <2>2
    <2> DEFINE T == {i \in DOMAIN es : es[i].name = name}
    <2>4. T # {} /\ T \in SUBSET Nat
      BY <1>6, <1>7, <2>3
    <2>5. PICK i \in T : \A j \in T : i <= j
      <3> HIDE DEF T
      <3>1. QED
        BY <2>4, LeastNat
    <2>6. es[i] \in dir_lookup(name)
      <3>1. ASSUME NEW x \in 1 .. i - 1
            PROVE  es[x].name # name
        <4>1. x \notin T
          BY <2>4, <2>5
        <4>2. x \in DOMAIN es
          BY <1>7, <2>5
        <4>3. QED
          BY <4>1, <4>2
      <3>2. QED
        BY <2>5, <3>1 DEF dir_lookup
    <2>7. QED
      BY <2>6
  <1>9. ASSUME NEW e \in dir_lookup(name)
        PROVE  q \in DOMAIN disk.tree /\ LeadsTo(e, disk.tree[q])
    <2>1. PICK i \in DOMAIN es : e = es[i] /\ es[i].name = name
      BY DEF dir_lookup
    <2>2. name \in Range(disk.tree[p].val)
      BY <1>6, <2>1
    <2>3. q \in DOMAIN disk.tree
      <3>1. k + 1 \in 1 .. Len(cmd.path) - 1 /\ (k + 1) - 1 = k
        BY <1>4
      <3>2. LET up == SubSeq(Tail(cmd.path), 1, (k + 1) - 1)
            IN  (up \in DOMAIN disk.tree /\ disk.tree[up].dir /\ cmd.path[(k + 1) + 1] \in Range(disk.tree[up].val))
                  => SubSeq(Tail(cmd.path), 1, k + 1) \in DOMAIN disk.tree
        BY <3>1 DEF GoodDisks, PathsInTree
      <3>3. cmd.path[(k + 1) + 1] = name
        <4>1. k + 1 \in 1 .. Len(Node)
          BY <1>4
        <4>2. \A S : \A s \in Seq(S) : s # <<>> => \A x \in 1 .. Len(s) - 1 : Tail(s)[x] = s[x + 1]
          OBVIOUS
        <4>3. cmd.path # <<>>
          BY PathAssumption
        <4>4. QED
          BY <1>4, <4>1, <4>2, <4>3 DEF Node
      <3>4. QED
        BY <2>2, <3>1, <3>2, <3>3 DEF Node
    <2>4. Append(p, es[i].name) = q
      BY <1>5, <2>1
    <2>5. QED
      BY <1>3, <2>1, <2>3, <2>4
  <1>10. QED
    BY <1>8, <1>9
-----------------------------------------------------------------------------
(* Commands on a formatted disk *)

\* The cluster that comes after the first n of a chain, its end mark after all.
After(d, ch, n) == IF n < Len(ch) THEN ch[n + 1] ELSE d.fats[1][ch[Len(ch)]]

\* A count s that goes along the chain of path p.
Counts(d, s, p) ==
    /\ p \in DOMAIN d.tree /\ s.start = d.tree[p].chain[1]
    /\ s.n \in 0 .. Len(d.tree[p].chain) /\ s.id = After(d, d.tree[p].chain, s.n)

\* path_lookup has resolved the first k names of nd to a directory; r is left.
OnTheWay(d, nd, r, k) ==
    /\ Len(r) = Len(nd) - k /\ \A i \in 1 .. Len(r) : r[i] = nd[k + i]
    /\ SubSeq(nd, 1, k) \in DOMAIN d.tree /\ d.tree[SubSeq(nd, 1, k)].dir

Target(c) == IF IsRoot(c.path) THEN <<>> ELSE Tail(c.path)

\* cat or run asks for a file of the tree, and has its entry.
FileAsked(d, c, r) ==
    /\ c.op \in {"cat", "run"} /\ ~IsRoot(c.path) /\ Tail(c.path) \in DOMAIN d.tree
    /\ ~d.tree[Tail(c.path)].dir
    /\ \E e \in r.entry : e.nbytes = Len(d.tree[Tail(c.path)].val)

\* What a count is for.
CountsFor(d, c, left, r, s) ==
    \/ /\ s.then = "list" /\ c.op = "ls" /\ Counts(d, s, Target(c)) /\ d.tree[Target(c)].dir
    \/ /\ s.then = "descend" /\ ~IsRoot(c.path)
       /\ \E k \in 0 .. Len(Tail(c.path)) - 1 : /\ OnTheWay(d, Tail(c.path), left, k)
                                                /\ Counts(d, s, SubSeq(Tail(c.path), 1, k))
    \/ s.then = "file" /\ FileAsked(d, c, r) /\ Counts(d, s, Tail(c.path))

\* The first j clusters of the chain of t have been read.
ReadSoFar(d, r, t, j) ==
    LET m == d.boot.spc * SECTOR_SIZE
    IN  /\ r.id = After(d, t.chain, j) /\ r.n_alloc = Len(t.chain) * m /\ Len(r.data) = j * m
        /\ t.val # <<>> => \A i \in 1 .. j, y \in 1 .. m : r.data[(i - 1) * m + y] = d.data[t.chain[i]][y]

\* What ls, and cat and run, answer.
LsAnswer(d, c, o) ==
    IF Target(c) \notin DOMAIN d.tree THEN o.kind = "missing"
    ELSE IF d.tree[Target(c)].dir THEN o = [kind |-> "list", val |-> d.tree[Target(c)].val]
    ELSE o.kind = "notdir"
FileAnswer(d, c, o, r) ==
    IF Target(c) \in DOMAIN d.tree /\ ~d.tree[Target(c)].dir
    THEN /\ o.kind = "file" /\ \E e \in r.entry :
              /\ e.nbytes = Len(d.tree[Target(c)].val) /\ e.nbytes <= Len(o.val)
              /\ Len(o.val) = r.n_alloc /\ SubSeq(o.val, 1, e.nbytes) = d.tree[Target(c)].val
    ELSE o.kind \in {"isdir", "nothing"}
Answers(d, c, o, r) == /\ c.op = "ls" => LsAnswer(d, c, o)
                       /\ c.op \in {"cat", "run"} => FileAnswer(d, c, o, r)

GInv == disk.good =>
    /\ pc # "panic"
    /\ pc = "off" => cmd.op = "none"
    /\ pc \in {"count", "lookup", "read"} =>
         cmd.path \in Paths /\ Absolute(cmd.path) /\ cmd.op \in {"ls", "cat", "run"}
    /\ pc \in {"count", "lookup"} => rd.data = <<>>
    /\ pc = "shell" /\ Absolute(cmd.path) => Answers(disk, cmd, out, rd)
    /\ pc = "count" => CountsFor(disk, cmd, rest, rd, scan)
    /\ pc = "lookup" => /\ ~IsRoot(cmd.path)
                        /\ \E k \in 0 .. Len(Tail(cmd.path)) - 1 :
                             /\ OnTheWay(disk, Tail(cmd.path), rest, k)
                             /\ last_dir = Entries(disk, SubSeq(Tail(cmd.path), 1, k))
    /\ pc = "read" => /\ FileAsked(disk, cmd, rd) /\ rd.data \in Seq(Items)
                      /\ \E j \in 0 .. Len(disk.tree[Tail(cmd.path)].chain) :
                           ReadSoFar(disk, rd, disk.tree[Tail(cmd.path)], j)

LEMMA GoodFormat ==
    ASSUME GoodDisks, disk \in Disks, disk.good
    PROVE  Formatted(disk) /\ Fits(disk) /\ Mountable
  <1>1. Formatted(disk) /\ Fits(disk)
    BY DEF GoodDisks, Formatted
  <1>2. Mountable
    BY <1>1 DEF Fits, Mountable, fat32_mbr_check, fat32_volume_id_check, FatsMatch
  <1>3. QED
    BY <1>1, <1>2

\* The invariant of a step's new state, by where the reader then is.
LEMMA ToCount ==
    ASSUME disk' = disk, pc' = "count", cmd'.path \in Paths, Absolute(cmd'.path),
           cmd'.op \in {"ls", "cat", "run"}, rd'.data = <<>>, CountsFor(disk, cmd', rest', rd', scan')
    PROVE  GInv'
  BY DEF GInv

LEMMA ToShell ==
    ASSUME disk' = disk, pc' = "shell", Absolute(cmd'.path) => Answers(disk, cmd', out', rd')
    PROVE  GInv'
  BY DEF GInv

\* The place in a chain.
LEMMA AfterStep ==
    ASSUME Formatted(disk), NEW p \in DOMAIN disk.tree, NEW n \in 0 .. Len(disk.tree[p].chain),
           NEW x, x = After(disk, disk.tree[p].chain, n)
    PROVE  LET ch == disk.tree[p].chain
           IN  /\ Type(x) = "LAST" => n = Len(ch)
               /\ n = Len(ch) => Type(x) = "LAST"
               /\ n # Len(ch) => /\ x = ch[n + 1] /\ n + 1 \in 1 .. Len(ch)
                                 /\ x \in DOMAIN disk.fats[1] /\ x \in Nat /\ x < 2 + NClusters
                                 /\ Type(x) # "PANIC" /\ disk.fats[1][x] = After(disk, ch, n + 1)
  <1> DEFINE ch == disk.tree[p].chain
  <1>1. /\ Len(ch) \in Nat /\ Len(ch) >= 1
        /\ \A i \in 1 .. Len(ch) :
             /\ ch[i] \in DOMAIN disk.fats[1] /\ ch[i] \in Nat /\ ch[i] < 2 + NClusters
             /\ Type(ch[i]) # "LAST" /\ Type(ch[i]) # "PANIC"
             /\ i < Len(ch) => disk.fats[1][ch[i]] = ch[i + 1]
        /\ Type(disk.fats[1][ch[Len(ch)]]) = "LAST"
    BY ChainFacts
  <1>2. n \in 0 .. Len(ch) /\ x = IF n < Len(ch) THEN ch[n + 1] ELSE disk.fats[1][ch[Len(ch)]]
    BY DEF After
  <1>3. After(disk, ch, n + 1) = IF n + 1 < Len(ch) THEN ch[(n + 1) + 1] ELSE disk.fats[1][ch[Len(ch)]]
    BY DEF After
  <1> HIDE DEF ch
  <1>4. n = Len(ch) => Type(x) = "LAST"
    BY <1>1, <1>2
  <1>5. ASSUME n # Len(ch)
        PROVE  /\ x = ch[n + 1] /\ n + 1 \in 1 .. Len(ch)
               /\ x \in DOMAIN disk.fats[1] /\ x \in Nat /\ x < 2 + NClusters
               /\ Type(x) # "PANIC" /\ Type(x) # "LAST" /\ disk.fats[1][x] = After(disk, ch, n + 1)
    <2>1. n < Len(ch) /\ n + 1 \in 1 .. Len(ch) /\ x = ch[n + 1]
      BY <1>1, <1>2, <1>5
    <2>2. disk.fats[1][x] = After(disk, ch, n + 1)
      <3>1. CASE n + 1 < Len(ch)
        BY <1>1, <1>3, <2>1, <3>1
      <3>2. CASE n + 1 = Len(ch)
        BY <1>1, <1>3, <2>1, <3>2
      <3>3. QED
        BY <1>1, <2>1, <3>1, <3>2
    <2>3. QED
      BY <1>1, <2>1, <2>2
  <1>6. QED
    BY <1>4, <1>5 DEF ch

LEMMA CountBegins ==
    ASSUME Formatted(disk), NEW p \in DOMAIN disk.tree, NEW w, Count(disk.tree[p].chain[1], w)
    PROVE  pc' = "count" /\ Counts(disk, scan', p) /\ scan'.then = w
  <1> DEFINE ch == disk.tree[p].chain
             c == ch[1]
  <1>1. Len(ch) \in Nat /\ Len(ch) >= 1
    BY ChainFacts
  <1>2. After(disk, ch, 0) = c /\ 0 \in 0 .. Len(ch)
    BY <1>1 DEF After
  <1>3. pc' = "count" /\ scan' = [start |-> c, id |-> c, n |-> 0, then |-> w]
    BY DEF Count
  <1> HIDE DEF c
  <1>4. scan'.start = c /\ scan'.id = c /\ scan'.n = 0 /\ scan'.then = w
    BY <1>3
  <1>5. QED
    BY <1>2, <1>3, <1>4 DEF Counts, c

LEMMA CountGoesOn ==
    ASSUME Formatted(disk), Mounted, scan \in ScanType, NEW p, Counts(disk, scan, p), Type(scan.id) # "LAST"
    PROVE  /\ scan.id \in DOMAIN fs.fat /\ Type(scan.id) # "PANIC"
           /\ scan' = [scan EXCEPT !.id = fs.fat[@], !.n = @ + 1] =>
                Counts(disk, scan', p) /\ scan'.then = scan.then
  <1> DEFINE ch == disk.tree[p].chain
             n == scan.n
  <1>1. fs.fat = disk.fats[1] /\ Shaped(disk)
    BY GoodMount
  <1>2. /\ p \in DOMAIN disk.tree /\ scan.start = ch[1] /\ n \in 0 .. Len(ch) /\ scan.id = After(disk, ch, n)
    BY DEF Counts
  <1>3. n # Len(ch)
    BY <1>2, AfterStep
  <1>4. /\ n + 1 \in 1 .. Len(ch) /\ scan.id \in DOMAIN disk.fats[1] /\ Type(scan.id) # "PANIC"
        /\ disk.fats[1][scan.id] = After(disk, ch, n + 1)
    BY <1>2, <1>3, AfterStep
  <1>5. ASSUME scan' = [scan EXCEPT !.id = fs.fat[@], !.n = @ + 1]
        PROVE  Counts(disk, scan', p) /\ scan'.then = scan.then
    <2>1. fs.fat[scan.id] \in Nat
      BY <1>1, <1>4 DEF Shaped
    <2>2. /\ scan'.start = scan.start /\ scan'.id = fs.fat[scan.id]
          /\ scan'.n = n + 1 /\ scan'.then = scan.then
      BY <1>5, <2>1, ScanNext
    <2>3. n + 1 \in 0 .. Len(ch)
      BY <1>4
    <2>4. QED
      BY <1>1, <1>2, <1>4, <2>2, <2>3 DEF Counts
  <1>6. QED
    BY <1>1, <1>4, <1>5

LEMMA CountEnds ==
    ASSUME Formatted(disk), NEW p, Counts(disk, scan, p), Type(scan.id) = "LAST"
    PROVE  scan.n = Len(disk.tree[p].chain) /\ scan.start = disk.tree[p].chain[1]
  BY AfterStep DEF Counts

LEMMA GCommand ==
    ASSUME GoodDisks, KnownDisks, TInv, GInv, disk.good,
           NEW op \in {"ls", "cat", "run"}, NEW p \in Paths, Command(op, p)
    PROVE  GInv'
  <1>1. /\ pc = "shell" /\ Mounted /\ disk \in Disks /\ disk' = disk /\ fs' = fs
        /\ cmd' = [op |-> op, path |-> p] /\ rd' = NoFile /\ rest' = Tail(p)
    BY DEF Command, TInv
  <1>2. cmd'.op = op /\ cmd'.path = p /\ rd'.data = <<>>
    BY <1>1, Records
  <1>3. Formatted(disk)
    BY <1>1, GoodFormat
  <1>4. /\ <<>> \in DOMAIN disk.tree /\ disk.tree[<<>>].dir /\ disk.tree[<<>>].chain[1] = 2
    BY <1>3 DEF Formatted
  <1>5. fs.root = disk.tree[<<>>].chain[1]
    BY <1>1, <1>3, <1>4, GoodMount
  <1>6. IsRoot(p) => Absolute(p)
    BY DEF IsRoot, Absolute
  <1>7. CASE ~Absolute(p) /\ Give("relative", <<>>)
    BY <1>1, <1>2, <1>7, ToShell DEF Give
  <1>8. CASE Absolute(p) /\ ~IsRoot(p) /\ Count(fs.root, "descend")
    <2> DEFINE nd == Tail(p)
    <2>1. Len(p) \in Nat /\ Len(p) > 1 /\ nd \in Seq(Names) /\ Len(nd) = Len(p) - 1
      BY <1>8, PathType DEF Absolute
    <2>2. pc' = "count" /\ Counts(disk, scan', <<>>) /\ scan'.then = "descend"
      BY <1>3, <1>4, <1>5, <1>8, CountBegins
    <2>3. SubSeq(nd, 1, 0) = <<>>
      BY <2>1, WholePrefix
    <2> HIDE DEF nd
    <2>4. 0 \in 0 .. Len(nd) - 1 /\ Len(nd) = Len(nd) - 0 /\ \A i \in 1 .. Len(nd) : nd[i] = nd[0 + i]
      BY <2>1
    <2>5. OnTheWay(disk, nd, nd, 0)
      BY <1>4, <2>3, <2>4 DEF OnTheWay
    <2>6. CountsFor(disk, cmd', rest', rd', scan')
      BY <1>1, <1>2, <1>8, <2>2, <2>3, <2>4, <2>5 DEF CountsFor, nd
    <2>7. QED
      BY <1>1, <1>2, <1>8, <2>2, <2>6, ToCount
  <1>9. CASE IsRoot(p) /\ op = "ls" /\ Count(fs.root, "list")
    <2>1. pc' = "count" /\ Counts(disk, scan', <<>>) /\ scan'.then = "list"
      BY <1>3, <1>4, <1>5, <1>9, CountBegins
    <2>2. Target(cmd') = <<>>
      BY <1>2, <1>9 DEF Target
    <2>3. CountsFor(disk, cmd', rest', rd', scan')
      BY <1>2, <1>4, <1>9, <2>1, <2>2 DEF CountsFor
    <2>4. QED
      BY <1>1, <1>2, <1>6, <1>9, <2>1, <2>3, ToCount
  <1>10. CASE IsRoot(p) /\ op # "ls" /\ Give("nothing", <<>>)
    <2>1. Target(cmd') = <<>>
      BY <1>2, <1>10 DEF Target
    <2>2. pc' = "shell" /\ out' = [kind |-> "nothing", val |-> <<>>]
      BY <1>10 DEF Give
    <2>3. out'.kind = "nothing"
      BY <2>2
    <2>4. Answers(disk, cmd', out', rd')
      BY <1>2, <1>4, <1>10, <2>1, <2>3 DEF Answers, FileAnswer
    <2>5. QED
      BY <1>1, <2>2, <2>4, ToShell
  <1>11. QED
    BY <1>7, <1>8, <1>9, <1>10 DEF Command

LEMMA GCountStep ==
    ASSUME GoodDisks, KnownDisks, TInv, GInv, disk.good, CountStep
    PROVE  GInv'
  <1>1. /\ pc = "count" /\ Mounted /\ disk \in Disks /\ scan \in ScanType /\ Type(scan.id) # "LAST"
        /\ CountsFor(disk, cmd, rest, rd, scan)
        /\ cmd.path \in Paths /\ Absolute(cmd.path) /\ cmd.op \in {"ls", "cat", "run"} /\ rd.data = <<>>
    BY DEF CountStep, TInv, GInv
  <1>2. Formatted(disk)
    BY <1>1, GoodFormat
  <1>3. \E p : Counts(disk, scan, p)
    BY <1>1 DEF CountsFor
  <1>4. scan.id \in DOMAIN fs.fat /\ Type(scan.id) # "PANIC"
    BY <1>1, <1>2, <1>3, CountGoesOn
  <1>5. /\ scan' = [scan EXCEPT !.id = fs.fat[@], !.n = @ + 1]
        /\ UNCHANGED <<disk, pc, fs, cmd, rest, last_dir, rd, out>>
    BY <1>4 DEF CountStep
  <1>6. \A p : Counts(disk, scan, p) => Counts(disk, scan', p) /\ scan'.then = scan.then
    BY <1>1, <1>2, <1>5, CountGoesOn
  <1>7. CountsFor(disk, cmd, rest, rd, scan')
    <2>1. CASE /\ scan.then = "list" /\ cmd.op = "ls" /\ Counts(disk, scan, Target(cmd))
               /\ disk.tree[Target(cmd)].dir
      BY <1>6, <2>1 DEF CountsFor
    <2>2. CASE /\ scan.then = "descend" /\ ~IsRoot(cmd.path)
               /\ \E k \in 0 .. Len(Tail(cmd.path)) - 1 :
                    OnTheWay(disk, Tail(cmd.path), rest, k) /\ Counts(disk, scan, SubSeq(Tail(cmd.path), 1, k))
      BY <1>6, <2>2 DEF CountsFor
    <2>3. CASE scan.then = "file" /\ FileAsked(disk, cmd, rd) /\ Counts(disk, scan, Tail(cmd.path))
      BY <1>6, <2>3 DEF CountsFor
    <2>4. QED
      BY <1>1, <2>1, <2>2, <2>3 DEF CountsFor
  <1>8. QED
    BY <1>1, <1>5, <1>7, ToCount

LEMMA GReadDir ==
    ASSUME GoodDisks, KnownDisks, TInv, GInv, disk.good, ReadDir
    PROVE  GInv'
  <1>1. /\ pc = "count" /\ Mounted /\ disk \in Disks /\ scan \in ScanType /\ Type(scan.id) = "LAST"
        /\ CountsFor(disk, cmd, rest, rd, scan) /\ UNCHANGED <<disk, fs, cmd, rest, scan, rd>>
        /\ cmd.path \in Paths /\ Absolute(cmd.path) /\ cmd.op \in {"ls", "cat", "run"} /\ rd.data = <<>>
    BY DEF ReadDir, Counted, TInv, GInv
  <1>2. Formatted(disk)
    BY <1>1, GoodFormat
  <1>3. ASSUME NEW p, Counts(disk, scan, p), disk.tree[p].dir
        PROVE  DirOK(scan.start, scan.n) /\ fat32_read_dir(scan.start, scan.n) = Entries(disk, p)
    <2>1. p \in DOMAIN disk.tree /\ scan.n = Len(disk.tree[p].chain) /\ scan.start = disk.tree[p].chain[1]
      BY <1>1, <1>2, <1>3, CountEnds DEF Counts
    <2>2. QED
      BY <1>1, <1>2, <1>3, <2>1, DirGood DEF Entries
  <1>4. CASE Counted("list")
    <2> DEFINE p == Target(cmd)
    <2>1. cmd.op = "ls" /\ Counts(disk, scan, p) /\ disk.tree[p].dir
      BY <1>1, <1>4 DEF CountsFor, Counted
    <2>2. p \in DOMAIN disk.tree
      BY <2>1 DEF Counts
    <2> HIDE DEF p
    <2> DEFINE es == Entries(disk, p)
    <2>3. DirOK(scan.start, scan.n) /\ fat32_read_dir(scan.start, scan.n) = es
      BY <1>3, <2>1
    <2>4. pc' = "shell" /\ out' = [kind |-> "list", val |-> [i \in DOMAIN es |-> es[i].name]]
      BY <1>4, <2>3 DEF ReadDir, Give, Counted
    <2>5. disk.tree[p].val = [i \in DOMAIN es |-> es[i].name]
      <3>1. FormattedDir(disk, p)
        BY <1>2, <2>1, <2>2 DEF Formatted
      <3>2. QED
        BY <3>1 DEF FormattedDir, Entries
    <2> HIDE DEF es
    <2>6. LsAnswer(disk, cmd, out')
      BY <2>1, <2>2, <2>4, <2>5 DEF LsAnswer, p
    <2>7. Answers(disk, cmd', out', rd')
      BY <1>1, <2>1, <2>6 DEF Answers
    <2>8. QED
      BY <1>1, <2>4, <2>7, ToShell
  <1>5. CASE Counted("descend")
    <2>1. PICK k \in 0 .. Len(Tail(cmd.path)) - 1 :
            OnTheWay(disk, Tail(cmd.path), rest, k) /\ Counts(disk, scan, SubSeq(Tail(cmd.path), 1, k))
      BY <1>1, <1>5 DEF CountsFor, Counted
    <2>2. ~IsRoot(cmd.path)
      BY <1>1, <1>5 DEF CountsFor, Counted
    <2> DEFINE p == SubSeq(Tail(cmd.path), 1, k)
    <2>3. Counts(disk, scan, p) /\ disk.tree[p].dir
      BY <2>1 DEF OnTheWay
    <2>4. DirOK(scan.start, scan.n) /\ fat32_read_dir(scan.start, scan.n) = Entries(disk, p)
      BY <1>3, <2>3
    <2>5. pc' = "lookup" /\ last_dir' = Entries(disk, p)
      BY <1>5, <2>4 DEF ReadDir, Give, Counted
    <2>6. QED
      BY <1>1, <2>1, <2>2, <2>5 DEF GInv
  <1>6. QED
    BY <1>4, <1>5 DEF ReadDir

LEMMA LeadsFacts ==
    ASSUME NEW e, NEW t, LeadsTo(e, t)
    PROVE  /\ e.is_dir_p => t.dir
           /\ ~e.is_dir_p => ~t.dir
           /\ e.cluster_id = t.chain[1]
           /\ ~t.dir => e.nbytes = Len(t.val)
  BY Zenon DEF LeadsTo

\* Of a path in the tree, each prefix is, and all but the last are directories.
LEMMA NodePrefix ==
    ASSUME Formatted(disk), NEW nd \in DOMAIN disk.tree, NEW k \in 0 .. Len(nd) - 1
    PROVE  /\ SubSeq(nd, 1, k + 1) \in DOMAIN disk.tree
           /\ k + 1 < Len(nd) => disk.tree[SubSeq(nd, 1, k + 1)].dir
  <1>1. nd \in Seq(Range(nd)) /\ Len(nd) \in Nat
    BY DEF Formatted
  <1>2. CASE k + 1 < Len(nd)
    <2>1. k + 1 \in 0 .. Len(nd) - 1
      BY <1>1, <1>2
    <2>2. QED
      BY <2>1, TreePrefix
  <1>3. CASE k + 1 = Len(nd)
    <2>1. SubSeq(nd, 1, Len(nd)) = nd
      BY <1>1, WholePrefix
    <2>2. SubSeq(nd, 1, k + 1) = nd
      BY <1>3, <2>1
    <2>3. ~(k + 1 < Len(nd))
      BY <1>1, <1>3
    <2>4. QED
      BY <2>2, <2>3
  <1>4. QED
    <2>1. k + 1 < Len(nd) \/ k + 1 = Len(nd)
      BY <1>1
    <2>2. QED
      BY <1>2, <1>3, <2>1

LEMMA GNotFound ==
    ASSUME disk' = disk, cmd' = cmd, rd' = rd, NotFound, ~IsRoot(cmd.path), Tail(cmd.path) \notin DOMAIN disk.tree
    PROVE  GInv'
  <1>1. Target(cmd) = Tail(cmd.path)
    BY DEF Target
  <1>2. pc' = "shell" /\ out'.kind = IF cmd.op = "ls" THEN "missing" ELSE "isdir"
    BY DEF NotFound, Give
  <1>3. Answers(disk, cmd', out', rd')
    BY <1>1, <1>2 DEF Answers, LsAnswer, FileAnswer
  <1>4. QED
    BY <1>2, <1>3, ToShell

\* What LookupDir and LookupLast start from.
LEMMA AtLookup ==
    ASSUME GoodDisks, TInv, GInv, disk.good, pc = "lookup", Len(rest) >= 1
    PROVE  /\ Mounted /\ disk \in Disks /\ Formatted(disk) /\ rd.data = <<>>
           /\ cmd.path \in Paths /\ Absolute(cmd.path) /\ cmd.op \in {"ls", "cat", "run"} /\ ~IsRoot(cmd.path)
           /\ Len(Node) \in Nat /\ Node \in Seq(Names) /\ rest \in Seq(Names) /\ Len(rest) \in Nat
           /\ \E k \in 0 .. Len(Node) - 1 :
                /\ OnTheWay(disk, Node, rest, k) /\ last_dir = Entries(disk, SubSeq(Node, 1, k))
                /\ Head(rest) = Node[k + 1] /\ Len(rest) = Len(Node) - k
  <1>1. /\ Mounted /\ disk \in Disks /\ rd.data = <<>> /\ rest \in Seq(Names)
        /\ cmd.path \in Paths /\ Absolute(cmd.path) /\ cmd.op \in {"ls", "cat", "run"} /\ ~IsRoot(cmd.path)
        /\ \E k \in 0 .. Len(Node) - 1 :
             OnTheWay(disk, Node, rest, k) /\ last_dir = Entries(disk, SubSeq(Node, 1, k))
    BY DEF TInv, GInv, Node
  <1>2. Formatted(disk)
    BY <1>1, GoodFormat
  <1>3. Len(rest) \in Nat /\ Head(rest) = rest[1]
    BY <1>1
  <1>4. Node \in Seq(Names) /\ Len(Node) \in Nat
    BY <1>1, PathType DEF Node
  <1>5. PICK k \in 0 .. Len(Node) - 1 :
             OnTheWay(disk, Node, rest, k) /\ last_dir = Entries(disk, SubSeq(Node, 1, k))
    BY <1>1
  <1>6. Len(rest) = Len(Node) - k /\ rest[1] = Node[k + 1]
    BY <1>3, <1>5 DEF OnTheWay
  <1>7. QED
    BY <1>1, <1>2, <1>3, <1>4, <1>5, <1>6

LEMMA GLookupDir ==
    ASSUME GoodDisks, KnownDisks, TInv, GInv, disk.good, LookupDir
    PROVE  GInv'
  <1>1. pc = "lookup" /\ Len(rest) > 1 /\ UNCHANGED <<disk, fs, cmd, last_dir, rd>>
    BY DEF LookupDir
  <1>2. rest \in Seq(Names) /\ Len(rest) \in Nat
    BY DEF TInv
  <1>3. /\ Mounted /\ disk \in Disks /\ Formatted(disk) /\ rd.data = <<>>
        /\ cmd.path \in Paths /\ Absolute(cmd.path) /\ cmd.op \in {"ls", "cat", "run"} /\ ~IsRoot(cmd.path)
        /\ Len(Node) \in Nat /\ Node \in Seq(Names)
    BY <1>1, <1>2, AtLookup
  <1>4. PICK k \in 0 .. Len(Node) - 1 :
                /\ OnTheWay(disk, Node, rest, k) /\ last_dir = Entries(disk, SubSeq(Node, 1, k))
                /\ Head(rest) = Node[k + 1] /\ Len(rest) = Len(Node) - k
    BY <1>1, <1>2, AtLookup
  <1> DEFINE p == SubSeq(Node, 1, k)
             q == SubSeq(Node, 1, k + 1)
             es == dir_lookup(Head(rest))
  <1>5. p \in DOMAIN disk.tree /\ disk.tree[p].dir
    BY <1>4 DEF OnTheWay
  <1>6. k + 1 < Len(Node) /\ k + 1 \in 0 .. Len(Node) - 1
    BY <1>1, <1>2, <1>3, <1>4
  <1>7. /\ q \in DOMAIN disk.tree => es # {}
        /\ \A e \in es : q \in DOMAIN disk.tree /\ LeadsTo(e, disk.tree[q])
    BY <1>3, <1>4, <1>5, LookupGood
  <1>8. Node = Tail(cmd.path)
    BY DEF Node
  <1>9. CASE (\A e \in es : ~e.is_dir_p) /\ NotFound
    <2>1. Node \notin DOMAIN disk.tree
      <3>1. SUFFICES ASSUME Node \in DOMAIN disk.tree PROVE FALSE
        OBVIOUS
      <3>2. q \in DOMAIN disk.tree /\ disk.tree[q].dir
        BY <1>3, <1>6, <3>1, NodePrefix
      <3>3. PICK e \in es : LeadsTo(e, disk.tree[q])
        BY <1>7, <3>2
      <3>4. ~disk.tree[q].dir
        BY <1>9, <3>3, LeadsFacts
      <3>5. QED
        BY <3>2, <3>4
    <2>2. QED
      BY <1>1, <1>3, <1>8, <1>9, <2>1, GNotFound
  <1>10. CASE \E e \in es : e.is_dir_p /\ Count(e.cluster_id, "descend") /\ rest' = Tail(rest)
    <2>1. PICK e \in es : e.is_dir_p /\ Count(e.cluster_id, "descend") /\ rest' = Tail(rest)
      BY <1>10
    <2>2. q \in DOMAIN disk.tree /\ LeadsTo(e, disk.tree[q])
      BY <1>7
    <2>3. disk.tree[q].dir /\ e.cluster_id = disk.tree[q].chain[1]
      BY <2>1, <2>2, LeadsFacts
    <2>4. pc' = "count" /\ Counts(disk, scan', q) /\ scan'.then = "descend"
      BY <1>3, <2>1, <2>2, <2>3, CountBegins
    <2>5. OnTheWay(disk, Node, rest', k + 1)
      <3>1. Len(Tail(rest)) = Len(rest) - 1 /\ \A i \in 1 .. Len(rest) - 1 : Tail(rest)[i] = rest[i + 1]
        BY <1>1, <1>2, RestTail
      <3> DEFINE t == Tail(rest)
      <3>2. Len(t) = Len(Node) - (k + 1) /\ \A i \in 1 .. Len(t) : t[i] = Node[(k + 1) + i]
        <4>1. Len(t) = Len(rest) - 1 /\ Len(rest) = Len(Node) - k
          BY <1>4, <3>1
        <4>2. ASSUME NEW i \in 1 .. Len(t)
              PROVE  t[i] = Node[(k + 1) + i]
          <5>1. i \in 1 .. Len(rest) - 1 /\ i + 1 \in 1 .. Len(rest) /\ k + (i + 1) = (k + 1) + i
            <6> HIDE DEF t
            <6>1. QED
              BY <1>2, <4>1
          <5>2. t[i] = rest[i + 1]
            BY <3>1, <5>1
          <5>3. rest[i + 1] = Node[k + (i + 1)]
            BY <1>4, <5>1 DEF OnTheWay
          <5>4. QED
            BY <5>1, <5>2, <5>3
        <4> HIDE DEF t
        <4>3. Len(t) = Len(Node) - (k + 1)
          BY <1>2, <1>3, <4>1
        <4>4. QED
          BY <4>2, <4>3
      <3> HIDE DEF t
      <3>3. QED
        BY <2>1, <2>2, <2>3, <3>2 DEF OnTheWay, t
    <2>6. CountsFor(disk, cmd', rest', rd', scan')
      BY <1>1, <1>3, <1>6, <1>8, <2>4, <2>5 DEF CountsFor
    <2>7. QED
      BY <1>1, <1>3, <2>4, <2>6, ToCount
  <1>11. QED
    BY <1>9, <1>10 DEF LookupDir

LEMMA GLookupLast ==
    ASSUME GoodDisks, KnownDisks, TInv, GInv, disk.good, LookupLast
    PROVE  GInv'
  <1>1. pc = "lookup" /\ Len(rest) = 1 /\ UNCHANGED <<disk, fs, cmd, rest, last_dir>>
    BY DEF LookupLast
  <1>2. /\ Mounted /\ disk \in Disks /\ Formatted(disk) /\ rd.data = <<>>
        /\ cmd.path \in Paths /\ Absolute(cmd.path) /\ cmd.op \in {"ls", "cat", "run"} /\ ~IsRoot(cmd.path)
        /\ Len(Node) \in Nat /\ Node \in Seq(Names)
    BY <1>1, AtLookup
  <1>3. PICK k \in 0 .. Len(Node) - 1 :
                /\ OnTheWay(disk, Node, rest, k) /\ last_dir = Entries(disk, SubSeq(Node, 1, k))
                /\ Head(rest) = Node[k + 1] /\ Len(rest) = Len(Node) - k
    BY <1>1, AtLookup
  <1> DEFINE p == SubSeq(Node, 1, k)
             q == SubSeq(Node, 1, k + 1)
             es == dir_lookup(Head(rest))
  <1>4. p \in DOMAIN disk.tree /\ disk.tree[p].dir
    BY <1>3 DEF OnTheWay
  <1>5. k + 1 = Len(Node) /\ q = Node
    <2>1. k + 1 = Len(Node)
      <3> DEFINE a == Len(Node)
                 b == Len(rest)
      <3>1. a \in Nat /\ k \in 0 .. a - 1 /\ b = 1 /\ b = a - k
        BY <1>1, <1>2, <1>3
      <3> HIDE DEF a, b
      <3>2. k + 1 = a
        BY <3>1
      <3>3. QED
        BY <3>2 DEF a
    <2>2. QED
      BY <1>2, <2>1, WholePrefix
  <1>6. /\ q \in DOMAIN disk.tree => es # {}
        /\ \A e \in es : q \in DOMAIN disk.tree /\ LeadsTo(e, disk.tree[q])
    BY <1>2, <1>3, <1>4, LookupGood
  <1>7. /\ Node \in DOMAIN disk.tree => es # {}
        /\ \A e \in es : Node \in DOMAIN disk.tree /\ LeadsTo(e, disk.tree[Node])
    BY <1>5, <1>6
  <1>8. Node = Tail(cmd.path) /\ Target(cmd) = Node
    BY <1>2 DEF Node, Target
  <1>9. CASE es = {} /\ NotFound /\ UNCHANGED <<rd, scan>>
    BY <1>1, <1>2, <1>7, <1>8, <1>9, GNotFound
  <1>10. ASSUME NEW e \in es, cmd.op = "ls", e.is_dir_p, Count(e.cluster_id, "list"), UNCHANGED rd
         PROVE  GInv'
    <2>1. Node \in DOMAIN disk.tree /\ disk.tree[Node].dir /\ e.cluster_id = disk.tree[Node].chain[1]
      BY <1>7, <1>10, LeadsFacts
    <2>2. pc' = "count" /\ Counts(disk, scan', Node) /\ scan'.then = "list"
      BY <1>2, <1>10, <2>1, CountBegins
    <2>3. CountsFor(disk, cmd', rest', rd', scan')
      BY <1>1, <1>8, <1>10, <2>1, <2>2 DEF CountsFor
    <2>4. QED
      BY <1>1, <1>2, <1>10, <2>2, <2>3, ToCount
  <1>11. ASSUME NEW e \in es, (cmd.op = "ls") # e.is_dir_p,
                Give(IF e.is_dir_p THEN "isdir" ELSE "notdir", <<>>), UNCHANGED rd
         PROVE  GInv'
    <2>1. Node \in DOMAIN disk.tree /\ LeadsTo(e, disk.tree[Node])
      BY <1>7
    <2>2. pc' = "shell" /\ out' = [kind |-> IF e.is_dir_p THEN "isdir" ELSE "notdir", val |-> <<>>]
      BY <1>11 DEF Give
    <2>3. CASE cmd.op = "ls"
      <3>1. ~e.is_dir_p
        BY <1>11, <2>3, Zenon
      <3>2. ~disk.tree[Node].dir
        BY <2>1, <3>1, LeadsFacts
      <3>3. out'.kind = "notdir"
        BY <2>2, <3>1
      <3>4. Answers(disk, cmd', out', rd')
        BY <1>1, <1>8, <2>1, <2>3, <3>2, <3>3 DEF Answers, LsAnswer
      <3>5. QED
        BY <1>1, <2>2, <3>4, ToShell
    <2>4. CASE cmd.op # "ls"
      <3>1. e.is_dir_p
        <4>1. disk.tree[Node].dir \in BOOLEAN
          BY <1>2, <2>1 DEF Formatted
        <4>2. e.is_dir_p \in BOOLEAN
          BY <2>1, <4>1 DEF LeadsTo
        <4>3. QED
          BY <1>11, <2>4, <4>2
      <3>2. disk.tree[Node].dir
        BY <2>1, <3>1, LeadsFacts
      <3>3. out'.kind = "isdir"
        BY <2>2, <3>1
      <3>4. Answers(disk, cmd', out', rd')
        BY <1>1, <1>8, <2>1, <2>4, <3>2, <3>3 DEF Answers, FileAnswer
      <3>5. QED
        BY <1>1, <2>2, <3>4, ToShell
    <2>5. QED
      BY <2>3, <2>4
  <1>12. ASSUME NEW e \in es, cmd.op # "ls", ~e.is_dir_p, Count(e.cluster_id, "file"),
                rd' = [NoFile EXCEPT !.entry = {e}]
         PROVE  GInv'
    <2>1. Node \in DOMAIN disk.tree /\ ~disk.tree[Node].dir /\ e.cluster_id = disk.tree[Node].chain[1]
          /\ e.nbytes = Len(disk.tree[Node].val)
      BY <1>7, <1>12, LeadsFacts
    <2>2. pc' = "count" /\ Counts(disk, scan', Node) /\ scan'.then = "file"
      BY <1>2, <1>12, <2>1, CountBegins
    <2>3. rd'.data = <<>> /\ rd'.entry = {e}
      BY <1>12, Records
    <2>4. FileAsked(disk, cmd', rd')
      BY <1>1, <1>2, <1>8, <1>12, <2>1, <2>3 DEF FileAsked
    <2>5. CountsFor(disk, cmd', rest', rd', scan')
      BY <1>1, <1>8, <2>2, <2>4 DEF CountsFor
    <2>6. QED
      BY <1>1, <1>2, <2>2, <2>3, <2>5, ToCount
  <1>13. QED
    BY <1>9, <1>10, <1>11, <1>12 DEF LookupLast

LEMMA GReadStart ==
    ASSUME GoodDisks, KnownDisks, TInv, GInv, disk.good, ReadStart
    PROVE  GInv'
  <1> DEFINE t == disk.tree[Tail(cmd.path)]
             m == Spc * SECTOR_SIZE
             x == scan.n * fs.spc * SECTOR_SIZE
  <1>1. /\ pc = "count" /\ Mounted /\ disk \in Disks /\ scan \in ScanType /\ Type(scan.id) = "LAST"
        /\ scan.then = "file" /\ CountsFor(disk, cmd, rest, rd, scan)
        /\ cmd.path \in Paths /\ Absolute(cmd.path) /\ cmd.op \in {"ls", "cat", "run"} /\ rd.data = <<>>
        /\ RdShape(rd) /\ pc' = "read" /\ rd' = [rd EXCEPT !.id = scan.start, !.n_alloc = x]
        /\ UNCHANGED <<disk, fs, cmd, rest, last_dir, scan, out>>
    BY DEF ReadStart, Counted, TInv, GInv
  <1>2. Formatted(disk)
    BY <1>1, GoodFormat
  <1>3. FileAsked(disk, cmd, rd) /\ Counts(disk, scan, Tail(cmd.path))
    BY <1>1 DEF CountsFor
  <1>4. Tail(cmd.path) \in DOMAIN disk.tree /\ scan.n = Len(t.chain) /\ scan.start = t.chain[1]
    BY <1>1, <1>2, <1>3, CountEnds DEF Counts
  <1>5. Len(t.chain) \in Nat /\ Len(t.chain) >= 1
    BY <1>2, <1>4, ChainFacts
  <1>6. fs.spc = Spc /\ Spc \in Nat /\ SECTOR_SIZE \in Nat /\ m \in Nat
    BY <1>1, <1>2, GoodMount
  <1>7. x = Len(t.chain) * m /\ 0 * m = 0
    <2> DEFINE n == Len(t.chain)
    <2>1. n \in Nat /\ scan.n = n
      BY <1>4, <1>5
    <2> HIDE DEF t, n
    <2>2. n * Spc * SECTOR_SIZE = n * m /\ 0 * m = 0
      BY <1>6, <2>1
    <2>3. QED
      BY <1>6, <2>1, <2>2 DEF n
  <1>8. After(disk, t.chain, 0) = t.chain[1] /\ 0 \in 0 .. Len(t.chain)
    <2> HIDE DEF t
    <2>1. QED
      BY <1>5 DEF After
  <1> HIDE DEF t, x
  <1>9. rd'.entry = rd.entry /\ rd'.id = scan.start /\ rd'.data = <<>> /\ rd'.n_alloc = x
    BY <1>1, RdStarts
  <1> HIDE DEF m
  <1>10. ReadSoFar(disk, rd', t, 0)
    <2>1. Len(<<>>) = 0 /\ 1 .. 0 = {}
      OBVIOUS
    <2>2. disk.boot.spc * SECTOR_SIZE = m
      BY DEF m, Spc
    <2>3. QED
      BY <1>4, <1>7, <1>8, <1>9, <2>1, <2>2 DEF ReadSoFar
  <1>11. FileAsked(disk, cmd', rd')
    BY <1>1, <1>3, <1>9 DEF FileAsked
  <1>12. rd'.data \in Seq(Items')
    BY <1>9
  <1>13. QED
    BY <1>1, <1>8, <1>10, <1>11, <1>12 DEF GInv, t

\* One more cluster is read.
BlocksOf(s, j, m, b) == \A i \in 1 .. j, y \in 1 .. m : s[(i - 1) * m + y] = b[i][y]
LEMMA GrowsBlocks ==
    ASSUME NEW S, NEW s \in Seq(S), NEW u \in Seq(S), NEW j \in Nat, NEW m \in Nat,
           Len(s) = j * m, Len(u) = m, NEW b, BlocksOf(s, j, m, b),
           \A y \in 1 .. m : u[y] = b[j + 1][y]
    PROVE  BlocksOf(s \o u, j + 1, m, b)
  <1> DEFINE w == s \o u
  <1>0. s \in Seq(S) /\ u \in Seq(S)
    OBVIOUS
  <1>1. /\ \A k \in 1 .. Len(s) : w[k] = s[k]
        /\ \A k \in 1 .. Len(u) : w[Len(s) + k] = u[k]
    BY ONLY <1>0, ConcatSeq
  <1> HIDE DEF w
  <1>2. ASSUME NEW i \in 1 .. j + 1, NEW y \in 1 .. m
        PROVE  w[(i - 1) * m + y] = b[i][y]
    <2>1. CASE i = j + 1
      <3>1. (i - 1) * m = j * m
        BY <2>1
      <3>2. (i - 1) * m + y = Len(s) + y
        BY <3>1
      <3>3. w[Len(s) + y] = u[y]
        BY <1>1
      <3>4. QED
        BY <2>1, <3>2, <3>3
    <2>2. CASE i \in 1 .. j
      <3>1. (i - 1) * m + y \in 1 .. j * m
        BY <2>2, InBlock
      <3> DEFINE x == (i - 1) * m + y
      <3>2. s[x] = b[i][y]
        BY <2>2 DEF BlocksOf
      <3>3. x \in 1 .. Len(s)
        BY <3>1
      <3> HIDE DEF x
      <3>4. w[x] = s[x]
        BY <1>1, <3>3
      <3>5. w[x] = b[i][y]
        BY <3>2, <3>4
      <3>6. QED
        BY <3>5 DEF x
    <2>3. i = j + 1 \/ i \in 1 .. j
      OBVIOUS
    <2>4. QED
      BY <2>1, <2>2, <2>3
  <1>3. QED
    BY <1>2 DEF w, BlocksOf

LEMMA GReadCluster ==
    ASSUME GoodDisks, KnownDisks, TInv, GInv, disk.good, ReadCluster
    PROVE  GInv'
  <1> DEFINE nd == Tail(cmd.path)
             t == disk.tree[nd]
             ch == t.chain
             m == Spc * SECTOR_SIZE
             new == sec_read(cluster_to_lba(rd.id), fs.spc)
             data == rd.data \o new
             y0 == fs.fat[rd.id]
  <1>1. /\ pc = "read" /\ Mounted /\ disk \in Disks /\ Type(rd.id) # "LAST" /\ RdShape(rd)
        /\ FileAsked(disk, cmd, rd) /\ rd.data \in Seq(Items)
        /\ \E j \in 0 .. Len(ch) : ReadSoFar(disk, rd, t, j)
        /\ cmd.path \in Paths /\ Absolute(cmd.path) /\ cmd.op \in {"ls", "cat", "run"}
    BY DEF ReadCluster, TInv, GInv
  <1>2. Formatted(disk)
    BY <1>1, GoodFormat
  <1>3. PICK j \in 0 .. Len(ch) : ReadSoFar(disk, rd, t, j)
    BY <1>1
  <1>4. /\ rd.id = After(disk, ch, j) /\ rd.n_alloc = Len(ch) * m /\ Len(rd.data) = j * m
        /\ t.val # <<>> => \A i \in 1 .. j, y \in 1 .. m : rd.data[(i - 1) * m + y] = disk.data[ch[i]][y]
    BY <1>3 DEF ReadSoFar, Spc
  <1>5. nd \in DOMAIN disk.tree /\ ~t.dir
    BY <1>1 DEF FileAsked
  <1>6. /\ rd.id = ch[j + 1] /\ j + 1 \in 1 .. Len(ch) /\ rd.id \in Nat /\ rd.id < 2 + NClusters
        /\ disk.fats[1][rd.id] = After(disk, ch, j + 1)
    <2>1. Type(rd.id) # "LAST" /\ nd \in DOMAIN disk.tree /\ rd.id = After(disk, ch, j)
      BY <1>1, <1>4, <1>5
    <2> HIDE DEF nd
    <2>2. QED
      BY <1>2, <2>1, AfterStep
  <1>7. fs.spc = Spc /\ fs.fat = disk.fats[1] /\ m \in Nat
    BY <1>1, <1>2, GoodMount
  <1>8. /\ Readable(cluster_to_lba(rd.id), fs.spc) /\ new \in Seq(Items) /\ Len(new) = m
        /\ rd.id >= 2 => \A y \in 1 .. m : new[y] = disk.data[rd.id][y]
    BY <1>1, <1>2, <1>6, ClusterGood
  <1>9. /\ rd' = [rd EXCEPT !.data = data, !.id = y0]
        /\ UNCHANGED <<disk, pc, fs, cmd, rest, last_dir, scan, out>>
    BY <1>8 DEF ReadCluster
  <1>10. y0 = After(disk, ch, j + 1)
    BY <1>6, <1>7
  <1>11. t.val # <<>> => rd.id >= 2
    <2>1. FormattedFile(disk, nd)
      BY <1>2, <1>5 DEF Formatted
    <2>2. t.val # <<>> => \A i \in DOMAIN ch : ch[i] >= 2
      BY <2>1 DEF FormattedFile
    <2>3. DOMAIN ch = 1 .. Len(ch)
      BY <1>2, <1>5, ChainFacts
    <2>4. QED
      BY <1>6, <2>2, <2>3
  <1>12. Len(ch) \in Nat
    BY <1>2, <1>5, ChainFacts
  <1> HIDE DEF t, m, new
  <1>13. data \in Seq(Items) /\ Len(data) = Len(rd.data) + Len(new)
    <2>1. rd.data \in Seq(Items) /\ new \in Seq(Items)
      BY <1>1, <1>8
    <2>2. QED
      BY <2>1, ConcatSeq
  <1>14. j \in Nat /\ j + 1 \in 0 .. Len(ch)
    BY <1>6, <1>12
  <1>15. Len(data) = (j + 1) * m
    <2> HIDE DEF data, ch
    <2>1. j * m \in Nat /\ (j + 1) * m = j * m + m
      BY <1>7, <1>14
    <2>2. QED
      BY <1>4, <1>8, <1>13, <2>1
  <1>16. ASSUME t.val # <<>>
         PROVE  \A i \in 1 .. j + 1, y \in 1 .. m : data[(i - 1) * m + y] = disk.data[ch[i]][y]
    <2> DEFINE b == [i \in 1 .. j + 1 |-> disk.data[ch[i]]]
    <2>1. \A i \in 1 .. j + 1 : b[i] = disk.data[ch[i]]
      OBVIOUS
    <2>2. \A i \in 1 .. j : i \in 1 .. j + 1
      BY <1>14
    <2>3. j + 1 \in 1 .. j + 1
      BY <1>14
    <2> HIDE DEF b
    <2>4. BlocksOf(rd.data, j, m, b)
      <3>1. \A i \in 1 .. j, y \in 1 .. m : rd.data[(i - 1) * m + y] = disk.data[ch[i]][y]
        BY <1>4, <1>16, Zenon
      <3>2. ASSUME NEW i \in 1 .. j, NEW y \in 1 .. m
            PROVE  rd.data[(i - 1) * m + y] = b[i][y]
        <4> DEFINE x == (i - 1) * m + y
        <4>1. rd.data[x] = disk.data[ch[i]][y]
          BY <3>1, Zenon
        <4>2. b[i] = disk.data[ch[i]]
          BY <2>1, <2>2, Zenon
        <4> HIDE DEF x
        <4>3. rd.data[x] = b[i][y]
          BY <4>1, <4>2
        <4>4. QED
          BY <4>3 DEF x
      <3>3. QED
        BY <3>2, Zenon DEF BlocksOf
    <2>5. \A y \in 1 .. m : new[y] = b[j + 1][y]
      BY <1>6, <1>8, <1>11, <1>16, <2>1, <2>3
    <2>6. BlocksOf(data, j + 1, m, b)
      BY <1>1, <1>4, <1>7, <1>8, <1>14, <2>4, <2>5, GrowsBlocks
    <2> HIDE DEF data
    <2>7. ASSUME NEW i \in 1 .. j + 1, NEW y \in 1 .. m
          PROVE  data[(i - 1) * m + y] = disk.data[ch[i]][y]
      <3> DEFINE x == (i - 1) * m + y
      <3>1. data[x] = b[i][y]
        BY <2>6, Zenon DEF BlocksOf
      <3>2. b[i] = disk.data[ch[i]]
        BY <2>1, Zenon
      <3> HIDE DEF x
      <3>3. data[x] = disk.data[ch[i]][y]
        BY <3>1, <3>2
      <3>4. QED
        BY <3>3 DEF x
    <2>8. QED
      BY <2>7
  <1> HIDE DEF data, y0
  <1>17. rd'.entry = rd.entry /\ rd'.id = y0 /\ rd'.data = data /\ rd'.n_alloc = rd.n_alloc
    BY <1>1, <1>9, RdGrows
  <1>18. ReadSoFar(disk, rd', t, j + 1)
    <2>1. disk.boot.spc * SECTOR_SIZE = m
      BY DEF m, Spc
    <2>2. QED
      BY <1>4, <1>10, <1>15, <1>16, <1>17, <2>1 DEF ReadSoFar
  <1>19. FileAsked(disk, cmd', rd')
    BY <1>1, <1>9, <1>17 DEF FileAsked
  <1>20. rd'.data \in Seq(Items')
    <2>1. Items' = Items
      BY <1>9 DEF Items
    <2>2. QED
      BY <1>13, <1>17, <2>1
  <1>21. QED
    BY <1>1, <1>9, <1>14, <1>18, <1>19, <1>20 DEF GInv, t

LEMMA GReadDone ==
    ASSUME GoodDisks, KnownDisks, TInv, GInv, disk.good, ReadDone
    PROVE  GInv'
  <1> DEFINE nd == Tail(cmd.path)
             t == disk.tree[nd]
             ch == t.chain
             m == Spc * SECTOR_SIZE
             data == rd.data
             all == Contents(disk, ch)
             len == Len(t.val)
  <1>1. /\ pc = "read" /\ Mounted /\ disk \in Disks /\ Type(rd.id) = "LAST"
        /\ FileAsked(disk, cmd, rd) /\ rd.data \in Seq(Items)
        /\ \E j \in 0 .. Len(ch) : ReadSoFar(disk, rd, t, j)
        /\ pc' = "shell" /\ out' = [kind |-> "file", val |-> rd.data]
        /\ UNCHANGED <<disk, fs, cmd, rest, last_dir, scan, rd>>
    BY DEF ReadDone, Give, TInv, GInv
  <1>2. Formatted(disk)
    BY <1>1, GoodFormat
  <1>3. PICK j \in 0 .. Len(ch) : ReadSoFar(disk, rd, t, j)
    BY <1>1
  <1>4. /\ rd.id = After(disk, ch, j) /\ rd.n_alloc = Len(ch) * m /\ Len(data) = j * m
        /\ t.val # <<>> => \A i \in 1 .. j, y \in 1 .. m : data[(i - 1) * m + y] = disk.data[ch[i]][y]
    BY <1>3 DEF ReadSoFar, Spc
  <1>5. nd \in DOMAIN disk.tree /\ ~t.dir /\ cmd.op # "ls" /\ Target(cmd) = nd
    BY <1>1 DEF FileAsked, Target
  <1>6. PICK e \in rd.entry : e.nbytes = len
    BY <1>1 DEF FileAsked
  <1>7. j = Len(ch)
    <2>1. Type(rd.id) = "LAST" /\ nd \in DOMAIN disk.tree /\ rd.id = After(disk, ch, j)
      BY <1>1, <1>4, <1>5
    <2> HIDE DEF nd
    <2>2. QED
      BY <1>2, <2>1, AfterStep
  <1>8. m \in Nat /\ Len(ch) \in Nat /\ Len(ch) * m \in Nat
    <2>1. m \in Nat /\ Len(ch) \in Nat
      BY <1>1, <1>2, <1>5, GoodMount, ChainFacts
    <2> HIDE DEF m, ch
    <2>2. QED
      BY <2>1
  <1>9. FormattedFile(disk, nd)
    BY <1>2, <1>5 DEF Formatted
  <1>10. /\ t.val \in Seq(Range(t.val))
         /\ t.val # <<>> => /\ \A i \in DOMAIN ch : ch[i] >= 2
                            /\ len <= Len(ch) * m
                            /\ SubSeq(all, 1, len) = t.val
    BY <1>9 DEF FormattedFile, Spc
  <1>11. len <= Len(data) /\ SubSeq(data, 1, len) = t.val
    <2>1. CASE t.val = <<>>
      <3>1. len = 0 /\ SubSeq(data, 1, 0) = <<>>
        BY <1>1, <2>1, WholePrefix
      <3> HIDE DEF len
      <3>2. QED
        BY <1>4, <1>7, <1>8, <2>1, <3>1
    <2>2. CASE t.val # <<>>
      <3>1. /\ all \in Seq(Items) /\ Len(all) = Len(ch) * m
            /\ \A i \in 1 .. Len(ch), y \in 1 .. m : all[(i - 1) * m + y] = disk.data[ch[i]][y]
        BY <1>2, <1>5, <1>10, <2>2, ContentsBlocks
      <3> HIDE DEF all, m, ch
      <3>2. BlocksAgree(data, all, Len(ch), m)
        <4>1. \A i \in 1 .. Len(ch), y \in 1 .. m : data[(i - 1) * m + y] = disk.data[ch[i]][y]
          BY <1>4, <1>7, <2>2
        <4>2. Len(data) = Len(ch) * m
          BY <1>4, <1>7
        <4>3. ASSUME NEW i \in 1 .. Len(ch), NEW y \in 1 .. m
              PROVE  data[(i - 1) * m + y] = all[(i - 1) * m + y]
          <5> DEFINE x == (i - 1) * m + y
          <5>1. data[x] = disk.data[ch[i]][y]
            BY <4>1, Zenon
          <5>2. all[x] = disk.data[ch[i]][y]
            BY <3>1, Zenon
          <5> HIDE DEF x, data
          <5>3. data[x] = all[x]
            BY <5>1, <5>2
          <5>4. QED
            BY <5>3 DEF x
        <4>4. QED
          BY <3>1, <4>2, <4>3, Zenon DEF BlocksAgree
      <3>3. data = all
        BY <1>1, <1>8, <3>1, <3>2, SameBlocks
      <3>4. QED
        BY <1>4, <1>7, <1>10, <2>2, <3>3
    <2>3. QED
      BY <2>1, <2>2
  <1>12. out'.kind = "file" /\ out'.val = data
    BY <1>1
  <1> HIDE DEF t, m, nd, data
  <1>13. FileAnswer(disk, cmd, out', rd)
    BY <1>4, <1>5, <1>6, <1>7, <1>11, <1>12 DEF FileAnswer, t
  <1>14. Answers(disk, cmd', out', rd')
    BY <1>1, <1>5, <1>13 DEF Answers
  <1>15. QED
    BY <1>1, <1>14, ToShell

LEMMA GNext ==
    ASSUME GoodDisks, KnownDisks, TInv, GInv, [Next]_vars
    PROVE  GInv'
  <1>1. disk' = disk
    BY DEF Next, vars, fat32_init, Stop, CountStep, ReadDir, LookupDir, LookupLast, ReadStart,
           ReadCluster, ReadDone, Panicked, Command
  <1>2. SUFFICES ASSUME disk.good PROVE GInv'
    BY <1>1 DEF GInv
  <1>3. CASE UNCHANGED vars
    <2>1. Items' = Items
      BY <1>3 DEF vars, Items
    <2>2. QED
      BY <1>3, <2>1 DEF vars, GInv
  <1>4. CASE fat32_init
    <2>1. Mountable
      BY <1>2, GoodFormat DEF TInv
    <2>2. pc = "off" /\ pc' = "shell" /\ UNCHANGED <<cmd, rd, out>>
      BY <1>4, <2>1 DEF fat32_init
    <2>3. cmd'.op = "none"
      BY <1>2, <2>2 DEF GInv
    <2>4. Answers(disk, cmd', out', rd')
      BY <2>3 DEF Answers
    <2>5. QED
      BY <1>1, <2>2, <2>4, ToShell
  <1>5. CASE Panicked
    BY <1>2, <1>5 DEF Panicked, GInv
  <1>6. QED
    BY <1>2, <1>3, <1>4, <1>5, GCountStep, GReadDir, GLookupDir, GLookupLast, GReadStart,
       GReadCluster, GReadDone, GCommand DEF Next

LEMMA GInductive ==
    ASSUME GoodDisks, KnownDisks
    PROVE  Spec => []GInv
  <1>1. Init => GInv
    BY DEF Init, GInv
  <1>2. TInv /\ GInv /\ [Next]_vars => GInv'
    BY GNext
  <1>3. QED
    BY <1>1, <1>2, TInductive, PTL DEF Spec

\* What the answers say in the terms of the properties.
LEMMA AnswersMean ==
    ASSUME GoodDisks, TInv, disk.good
    PROVE  (Exists(Node) <=> Target(cmd) \in DOMAIN disk.tree) /\ At(Node) = disk.tree[Target(cmd)]
  <1>1. <<>> \in DOMAIN disk.tree
    BY GoodFormat DEF TInv, Formatted
  <1>2. QED
    BY <1>1 DEF Exists, At, Target, Node

\* ls answers with the names that the directory has, in order, and refuses what
\* is no directory, whatever the tree, its depth and the way its directories
\* and files lie in the clusters.
THEOREM LsListsTreeCorrect ==
    ASSUME GoodDisks, KnownDisks
    PROVE  Spec => []LsListsTree
  <1>1. TInv /\ GInv => LsListsTree
    <2>1. SUFFICES ASSUME TInv, GInv, disk.good, Answered({"ls"}) PROVE LsListsTree
      BY DEF LsListsTree
    <2>2. LsAnswer(disk, cmd, out)
      BY <2>1 DEF GInv, Answered, Answers
    <2>3. QED
      BY <2>1, <2>2, AnswersMean DEF LsAnswer, LsListsTree
  <1>2. QED
    BY <1>1, TInductive, GInductive, PTL

\* cat and run get the file that the path names, whole, from a chain of any
\* length through any clusters, in a buffer of the size read; no other path
\* gives a file.
THEOREM FilesReadWholeCorrect ==
    ASSUME GoodDisks, KnownDisks
    PROVE  Spec => []FilesReadWhole
  <1>1. TInv /\ GInv => FilesReadWhole
    <2>1. SUFFICES ASSUME TInv, GInv, disk.good, Answered({"cat", "run"}) PROVE FilesReadWhole
      BY DEF FilesReadWhole
    <2>2. FileAnswer(disk, cmd, out, rd)
      BY <2>1 DEF GInv, Answered, Answers
    <2>3. QED
      BY <2>1, <2>2, AnswersMean DEF FileAnswer, FilesReadWhole
  <1>2. QED
    BY <1>1, TInductive, GInductive, PTL

\* The kernel goes on with a disk only if it passes every check of fat32_init,
\* and no assert or demand of the reader ever fails on a formatted disk.
THEOREM MountsGoodDisksCorrect ==
    ASSUME GoodDisks, KnownDisks
    PROVE  Spec => []MountsGoodDisks
  <1>1. TInv /\ GInv => MountsGoodDisks
    <2>1. SUFFICES ASSUME TInv, GInv PROVE MountsGoodDisks
      OBVIOUS
    <2>2. pc \in {"shell", "count", "lookup", "read"} => disk.fit
      <3>1. SUFFICES ASSUME pc \in {"shell", "count", "lookup", "read"} PROVE disk.fit
        OBVIOUS
      <3>2. disk.fit = Fits(disk) /\ Fits(disk)
        BY <2>1, <3>1 DEF TInv, Mounted, GoodDisks
      <3>3. QED
        BY <3>2, Zenon
    <2>3. pc = "panic" => ~disk.good
      BY <2>1 DEF GInv
    <2>4. QED
      BY <2>2, <2>3 DEF MountsGoodDisks
  <1>2. QED
    BY <1>1, TInductive, GInductive, PTL
=============================================================================
