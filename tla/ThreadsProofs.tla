---------------------------- MODULE ThreadsProofs ----------------------------
(* Proofs about Threads, for every number of forks and starts: the linked    *)
(* queues are lists, and the package implements RunQueue.                    *)
EXTENDS Threads, FiniteSetTheorems, FunctionTheorems, SequenceTheorems,
        WellFoundedInduction, TLAPS
-----------------------------------------------------------------------------
(* Numbers and sets *)

Bound == MaxThreads + MaxStarts

LEMMA BoundType == Bound \in Nat /\ Blocks = 1 .. Bound /\ NULL \notin Blocks
  BY BoundAssumption DEF Bound, Blocks, NULL

\* Induction over the positions of a list is done with this: a set of natural
\* numbers that is not empty has a least element.
LEMMA LeastNat ==
    ASSUME NEW T \in SUBSET Nat, T # {}
    PROVE  \E n \in T : \A m \in T : n <= m
  <1>1. OpToRel(<, Nat) = {ss \in Nat \X Nat : ss[1] < ss[2]}
    BY Zenon DEF OpToRel
  <1>2. PICK n \in T : \A m \in T : ~(<<m, n>> \in OpToRel(<, Nat))
    BY WFMin, NatLessThanWellFounded
  <1>3. \A m \in T : ~(<<m, n>> \in {ss \in Nat \X Nat : ss[1] < ss[2]})
    BY <1>1, <1>2, Zenon
  <1>4. ASSUME NEW m \in T, m < n PROVE FALSE
    <2>1. <<m, n>> \in {ss \in Nat \X Nat : ss[1] < ss[2]}
      BY <1>4
    <2>2. QED
      BY <1>3, <2>1
  <1>5. \A m \in T : m \in Nat /\ n \in Nat
    OBVIOUS
  <1>6. QED
    BY <1>4, <1>5

\* The blocks of a list without repetitions.
Members(s) == {s[i] : i \in DOMAIN s}
Distinct(s) == \A i, j \in DOMAIN s : s[i] = s[j] => i = j

LEMMA DistinctCount ==
    ASSUME NEW s \in Seq(Blocks), Distinct(s)
    PROVE  Cardinality(Members(s)) = Len(s) /\ Len(s) <= Bound
  <1>1. \A k \in Nat : IsFiniteSet(1 .. k) /\ Cardinality(1 .. k) = k
    BY FS_Interval
  <1>2. Len(s) \in Nat /\ DOMAIN s = 1 .. Len(s)
    OBVIOUS
  <1>3. s \in Bijection(1 .. Len(s), Members(s))
    BY <1>2 DEF Bijection, Injection, Surjection, IsInjective, Members, Distinct
  <1>4. Cardinality(Members(s)) = Cardinality(1 .. Len(s))
    BY <1>1, <1>2, <1>3, FS_Bijection DEF ExistsBijection
  <1>5. IsFiniteSet(Blocks) /\ Cardinality(Blocks) = Bound
    BY <1>1, BoundType
  <1>6. Members(s) \in SUBSET Blocks
    BY <1>2 DEF Members
  <1>7. Cardinality(Members(s)) <= Cardinality(Blocks)
    BY <1>5, <1>6, FS_Subset
  <1>8. QED
    BY <1>1, <1>2, <1>4, <1>5, <1>7
-----------------------------------------------------------------------------
(* Linked lists *)

\* The queue q with the links nx is the list s.
Rep(q, nx, s) ==
    /\ s \in Seq(Blocks) /\ Distinct(s)
    /\ s = <<>> => q = EmptyQ
    /\ s # <<>> => /\ q = [head |-> s[1], tail |-> s[Len(s)]]
                   /\ nx[s[Len(s)]] = NULL
                   /\ \A i \in 1 .. Len(s) - 1 : nx[s[i]] = s[i + 1]

\* What following the links for n steps leads to.
LEMMA NthIs ==
    ASSUME NEW q, NEW nx, NEW s, Rep(q, nx, s)
    PROVE  Nth(q, nx) = [n \in 0 .. Bound |-> IF n < Len(s) THEN s[n + 1] ELSE NULL]
  <1> DEFINE F(f) == [n \in 0 .. MaxThreads + MaxStarts |->
                        IF n = 0 THEN q.head
                        ELSE IF f[n - 1] = NULL THEN NULL ELSE nx[f[n - 1]]]
             g == [n \in 0 .. Bound |-> IF n < Len(s) THEN s[n + 1] ELSE NULL]
             f == Nth(q, nx)
  <1>1. /\ s \in Seq(Blocks) /\ Len(s) \in Nat /\ Bound \in Nat /\ Len(s) <= Bound
        /\ DOMAIN s = 1 .. Len(s) /\ Bound = MaxThreads + MaxStarts
        /\ \A i \in 1 .. Len(s) : s[i] \in Blocks /\ s[i] # NULL
    BY DistinctCount, BoundType DEF Rep, Bound
  <1>2. ASSUME NEW n \in 0 .. Bound
        PROVE  g[n] = IF n = 0 THEN q.head
                      ELSE IF g[n - 1] = NULL THEN NULL ELSE nx[g[n - 1]]
    <2>1. CASE n = 0
      BY <1>1, <2>1 DEF Rep, EmptyQ
    <2>2. CASE n > 0 /\ n < Len(s)
      <3>1. g[n - 1] = s[n] /\ g[n] = s[n + 1] /\ s[n] # NULL
        BY <1>1, <2>2
      <3>2. nx[s[n]] = s[n + 1]
        BY <1>1, <2>2 DEF Rep
      <3>3. QED
        BY <2>2, <3>1, <3>2
    <2>3. CASE n > 0 /\ n = Len(s)
      <3>1. g[n - 1] = s[n] /\ g[n] = NULL /\ s[n] # NULL
        BY <1>1, <2>3
      <3>2. nx[s[n]] = NULL
        BY <1>1, <2>3 DEF Rep
      <3>3. QED
        BY <2>3, <3>1, <3>2
    <2>4. CASE n > Len(s)
      BY <1>1, <2>4
    <2>5. QED
      BY <1>1, <2>1, <2>2, <2>3, <2>4
  <1>3. g = F(g)
    BY <1>1, <1>2
  <1>4. f = F(f)
    <2>1. \E h : h = F(h)
      BY <1>3
    <2>2. (CHOOSE h : h = F(h)) = F(CHOOSE h : h = F(h))
      <3> HIDE DEF F
      <3> QED
        BY <2>1
    <2>3. Nth(q, nx) = CHOOSE h : h = F(h)
      BY DEF Nth
    <2>4. QED
      BY <2>2, <2>3
  <1>5. \A n \in 0 .. Bound : f[n] = IF n = 0 THEN q.head
                                     ELSE IF f[n - 1] = NULL THEN NULL ELSE nx[f[n - 1]]
    <2>1. \A n \in 0 .. Bound : F(f)[n] = IF n = 0 THEN q.head
                                     ELSE IF f[n - 1] = NULL THEN NULL ELSE nx[f[n - 1]]
      BY <1>1
    <2>2. QED
      BY <1>4, <2>1
  <1>6. \A n \in 0 .. Bound : f[n] = g[n]
    <2> DEFINE Bad == {n \in 0 .. Bound : f[n] # g[n]}
    <2>1. SUFFICES ASSUME Bad # {} PROVE FALSE
      OBVIOUS
    <2>2. Bad \in SUBSET Nat
      BY <1>1
    <2>3. PICK n \in Bad : \A m \in Bad : n <= m
      <3> HIDE DEF Bad
      <3> QED
        BY <2>1, <2>2, LeastNat
    <2>4. n \in 0 .. Bound /\ f[n] # g[n]
      BY <2>3
    <2>5. CASE n = 0
      BY <1>2, <1>5, <2>4, <2>5
    <2>6. CASE n # 0
      <3>1. n - 1 \in 0 .. Bound /\ ~(n <= n - 1)
        BY <1>1, <2>4, <2>6
      <3>2. f[n - 1] = g[n - 1]
        BY <2>3, <3>1
      <3> HIDE DEF g, f
      <3>3. QED
        BY <1>2, <1>5, <2>4, <2>6, <3>2
    <2>7. QED
      BY <2>5, <2>6
  <1>7. DOMAIN f = 0 .. Bound /\ f = [n \in 0 .. Bound |-> f[n]]
    <2>1. /\ DOMAIN F(f) = 0 .. Bound
          /\ F(f) = [n \in 0 .. Bound |-> F(f)[n]]
      BY <1>1
    <2> HIDE DEF F, f
    <2>2. QED
      BY <1>4, <2>1
  <1>8. QED
    <2>1. [n \in 0 .. Bound |-> f[n]] = g
      <3> HIDE DEF f
      <3> QED
        BY <1>6
    <2>2. f = g
      <3> HIDE DEF f, g
      <3> QED
        BY <1>7, <2>1
    <2>3. QED
      BY <2>2

\* The list is what the links lead to.
LEMMA ChainIs ==
    ASSUME NEW q, NEW nx, NEW s, Rep(q, nx, s)
    PROVE  Chain(q, nx) = s
  <1>1. /\ s \in Seq(Blocks) /\ Len(s) \in Nat /\ Bound \in Nat /\ Len(s) <= Bound
        /\ \A i \in 1 .. Len(s) : s[i] \in Blocks /\ s[i] # NULL
    BY DistinctCount, BoundType DEF Rep
  <1>2. \A n \in 0 .. Bound : Nth(q, nx)[n] = IF n < Len(s) THEN s[n + 1] ELSE NULL
    <2>1. Nth(q, nx) = [n \in 0 .. Bound |-> IF n < Len(s) THEN s[n + 1] ELSE NULL]
      BY NthIs
    <2>2. QED
      BY <2>1
  <1>3. {n \in 0 .. Bound : Nth(q, nx)[n] # NULL} = 0 .. Len(s) - 1
    BY <1>1, <1>2
  <1>4. Size(q, nx) = Len(s)
    <2>1. \A k \in Int : k >= 0 => Cardinality(0 .. k - 1) = k
      <3>1. \A j \in Int : Cardinality(0 .. j) = IF 0 > j THEN 0 ELSE j - 0 + 1
        BY FS_Interval
      <3>2. QED
        BY <3>1
    <2>2. Cardinality(0 .. Len(s) - 1) = Len(s)
      BY <1>1, <2>1
    <2>3. QED
      BY <1>3, <2>2 DEF Size, Bound
  <1>5. \A i \in 1 .. Len(s) : Nth(q, nx)[i - 1] = s[i]
    BY <1>1, <1>2
  <1>6. Chain(q, nx) = [i \in 1 .. Len(s) |-> s[i]]
    BY <1>1, <1>4, <1>5 DEF Chain
  <1>7. s = [i \in 1 .. Len(s) |-> s[i]]
    BY <1>1
  <1>8. QED
    BY <1>6, <1>7

LEMMA RepEmpty ==
    ASSUME NEW nx
    PROVE  Rep(EmptyQ, nx, <<>>)
  BY DEF Rep, Distinct

\* A list has a head exactly when it has a tail, and they are blocks.
LEMMA RepEnds ==
    ASSUME NEW q, NEW nx, NEW s, Rep(q, nx, s)
    PROVE  /\ q \in [head : Blocks \cup {NULL}, tail : Blocks \cup {NULL}]
           /\ q.head = NULL <=> s = <<>>
           /\ q.tail = NULL <=> s = <<>>
           /\ s # <<>> => /\ q.head = s[1] /\ q.tail = s[Len(s)]
                          /\ q.head \in Members(s) /\ q.tail \in Members(s)
                          /\ 1 \in DOMAIN s /\ Len(s) \in DOMAIN s
           /\ Members(s) \subseteq Blocks
  <1>1. s \in Seq(Blocks)
    BY DEF Rep
  <1>2. s # <<>> => 1 \in DOMAIN s /\ Len(s) \in DOMAIN s
    BY <1>1
  <1>3. Members(s) \subseteq Blocks
    BY <1>1 DEF Members
  <1>4. s # <<>> => s[1] \in Members(s) /\ s[Len(s)] \in Members(s)
    BY <1>2 DEF Members
  <1>5. QED
    BY <1>1, <1>2, <1>3, <1>4, BoundType DEF Rep, EmptyQ

\* Only the links of its own blocks matter to a list.
LEMMA RepFrame ==
    ASSUME NEW q, NEW nx, NEW ny, NEW s, Rep(q, nx, s),
           \A b \in Members(s) : ny[b] = nx[b]
    PROVE  Rep(q, ny, s)
  <1>1. s \in Seq(Blocks) /\ Len(s) \in Nat /\ DOMAIN s = 1 .. Len(s)
    BY DEF Rep
  <1>2. \A i \in 1 .. Len(s) : ny[s[i]] = nx[s[i]]
    BY <1>1 DEF Members
  <1>3. s # <<>> => Len(s) \in 1 .. Len(s)
    BY <1>1
  <1>4. QED
    BY <1>1, <1>2, <1>3 DEF Rep

\* Q_pop removes the first block.
LEMMA RepPop ==
    ASSUME NEW q, NEW nx, NEW s, Rep(q, nx, s), s # <<>>
    PROVE  /\ Rep(Q_pop(q, nx), nx, Tail(s))
           /\ Members(Tail(s)) = Members(s) \ {s[1]}
           /\ Len(Tail(s)) = Len(s) - 1
  <1> DEFINE t == Tail(s)
  <1>1. /\ s \in Seq(Blocks) /\ Len(s) \in Nat /\ Len(s) > 0 /\ DOMAIN s = 1 .. Len(s)
        /\ t \in Seq(Blocks) /\ Len(t) = Len(s) - 1
        /\ \A i \in 1 .. Len(s) - 1 : t[i] = s[i + 1]
    BY DEF Rep
  <1> HIDE DEF t
  <1>2. /\ q = [head |-> s[1], tail |-> s[Len(s)]] /\ nx[s[Len(s)]] = NULL
        /\ \A i \in 1 .. Len(s) - 1 : nx[s[i]] = s[i + 1]
        /\ Distinct(s)
    BY DEF Rep
  <1>3. Distinct(t)
    <2>1. DOMAIN t = 1 .. Len(s) - 1
      BY <1>1
    <2>2. ASSUME NEW i \in DOMAIN t, NEW j \in DOMAIN t, t[i] = t[j] PROVE i = j
      <3>1. i + 1 \in DOMAIN s /\ j + 1 \in DOMAIN s /\ s[i + 1] = s[j + 1]
        BY <1>1, <2>1, <2>2
      <3>2. i + 1 = j + 1
        BY <1>2, <3>1 DEF Distinct
      <3>3. QED
        BY <1>1, <2>1, <3>2
    <2>3. QED
      BY <2>2 DEF Distinct
  <1>4. Members(t) = Members(s) \ {s[1]}
    <2>1. ASSUME NEW b \in Members(t) PROVE b \in Members(s) \ {s[1]}
      <3>1. PICK i \in 1 .. Len(s) - 1 : b = s[i + 1]
        BY <1>1 DEF Members
      <3>2. i + 1 \in DOMAIN s /\ 1 \in DOMAIN s /\ i + 1 # 1
        BY <1>1
      <3>3. QED
        BY <1>2, <3>1, <3>2 DEF Members, Distinct
    <2>2. ASSUME NEW b \in Members(s) \ {s[1]} PROVE b \in Members(t)
      <3>1. PICK i \in 1 .. Len(s) : b = s[i]
        BY <1>1 DEF Members
      <3>2. i # 1
        BY <3>1
      <3>3. i - 1 \in 1 .. Len(t) /\ t[i - 1] = b
        BY <1>1, <3>1, <3>2
      <3>4. QED
        BY <1>1, <3>3 DEF Members
    <2>3. QED
      BY <2>1, <2>2
  <1>5. s[1] \in Blocks /\ s[1] # NULL
    BY <1>1, BoundType
  <1>6. Q_pop(q, nx) = [head |-> nx[s[1]], tail |-> IF nx[s[1]] = NULL THEN NULL ELSE s[Len(s)]]
    BY <1>2, <1>5 DEF Q_pop, PopRest
  <1>7. CASE Len(s) = 1
    <2>1. t = <<>> /\ nx[s[1]] = NULL
      BY <1>1, <1>2, <1>7
    <2>2. Q_pop(q, nx) = EmptyQ
      BY <1>6, <2>1 DEF EmptyQ
    <2>3. QED
      BY <1>1, <1>4, <2>1, <2>2, RepEmpty DEF t
  <1>8. CASE Len(s) > 1
    <2>1. nx[s[1]] = s[2] /\ s[2] \in Blocks /\ s[2] # NULL
      BY <1>1, <1>2, <1>8, BoundType
    <2>2. t # <<>> /\ t[1] = s[2] /\ t[Len(t)] = s[Len(s)]
      BY <1>1, <1>8
    <2>3. \A i \in 1 .. Len(t) - 1 : nx[t[i]] = t[i + 1]
      BY <1>1, <1>2
    <2>4. Rep(Q_pop(q, nx), nx, t)
      BY <1>1, <1>2, <1>3, <1>6, <2>1, <2>2, <2>3 DEF Rep
    <2>5. QED
      BY <1>1, <1>4, <2>4 DEF t
  <1>9. QED
    BY <1>1, <1>7, <1>8

\* Q_append adds a block that is not in the list after its last one.
LEMMA RepAppend ==
    ASSUME NEW q, NEW nx, NEW s, Rep(q, nx, s), NEW e \in Blocks, e \notin Members(s)
    PROVE  /\ Rep(Q_append(q, e), Linked(q, nx, e), Append(s, e))
           /\ Members(Append(s, e)) = Members(s) \cup {e}
           /\ Len(Append(s, e)) = Len(s) + 1
  <1> DEFINE t == Append(s, e)
  <1>1. /\ s \in Seq(Blocks) /\ Len(s) \in Nat /\ DOMAIN s = 1 .. Len(s)
        /\ t \in Seq(Blocks) /\ Len(t) = Len(s) + 1 /\ DOMAIN t = 1 .. Len(s) + 1
        /\ t[Len(s) + 1] = e /\ \A i \in 1 .. Len(s) : t[i] = s[i]
    BY DEF Rep
  <1>2. \A i \in 1 .. Len(s) : s[i] \in Blocks /\ s[i] # e
    BY <1>1 DEF Members
  <1> HIDE DEF t
  <1>3. Distinct(s)
    BY DEF Rep
  <1>4. Distinct(t)
    BY <1>1, <1>2, <1>3 DEF Distinct
  <1>5. Members(t) = Members(s) \cup {e}
    <2>1. \A b \in Members(t) : b \in Members(s) \cup {e}
      BY <1>1 DEF Members
    <2>2. \A b \in Members(s) : b \in Members(t)
      BY <1>1 DEF Members
    <2>3. e \in Members(t)
      BY <1>1 DEF Members
    <2>4. QED
      BY <2>1, <2>2, <2>3
  <1>6. /\ Linked(q, nx, e)[e] = NULL
        /\ \A b \in Blocks : b # e => Linked(q, nx, e)[b] = IF b = q.tail THEN e ELSE nx[b]
    BY DEF Linked
  <1>7. CASE s = <<>>
    <2>1. q = EmptyQ /\ Q_append(q, e) = [head |-> e, tail |-> e] /\ Len(s) = 0
      BY <1>7 DEF Rep, Q_append, EmptyQ
    <2>2. t # <<>> /\ t[1] = e /\ t[Len(t)] = e
      BY <1>1, <2>1
    <2>3. Rep(Q_append(q, e), Linked(q, nx, e), t)
      BY <1>1, <1>4, <1>6, <2>1, <2>2 DEF Rep
    <2>4. QED
      BY <1>1, <1>5, <2>3 DEF t
  <1>8. CASE s # <<>>
    <2>1. /\ Len(s) > 0 /\ q = [head |-> s[1], tail |-> s[Len(s)]]
          /\ \A i \in 1 .. Len(s) - 1 : nx[s[i]] = s[i + 1]
      BY <1>1, <1>8 DEF Rep
    <2>2. q.tail # NULL
      BY <1>1, <1>2, <2>1, BoundType
    <2>3. Q_append(q, e) = [head |-> s[1], tail |-> e]
      BY <2>1, <2>2 DEF Q_append
    <2>4. ASSUME NEW i \in 1 .. Len(s)
          PROVE  Linked(q, nx, e)[t[i]] = t[i + 1]
      <3>1. CASE i = Len(s)
        BY <1>1, <1>2, <1>6, <2>1, <3>1
      <3>2. CASE i < Len(s)
        <4>1. s[i] # s[Len(s)] /\ i + 1 \in 1 .. Len(s)
          BY <1>1, <1>3, <3>2 DEF Distinct
        <4>2. Linked(q, nx, e)[s[i]] = nx[s[i]] /\ nx[s[i]] = s[i + 1]
          BY <1>1, <1>2, <1>6, <2>1, <3>2, <4>1
        <4>3. QED
          BY <1>1, <4>1, <4>2
      <3>3. QED
        BY <1>1, <3>1, <3>2
    <2>5. t # <<>> /\ t[1] = s[1] /\ t[Len(t)] = e /\ Len(t) - 1 = Len(s)
      BY <1>1, <2>1
    <2>6. Rep(Q_append(q, e), Linked(q, nx, e), t)
      BY <1>1, <1>4, <1>6, <2>3, <2>4, <2>5 DEF Rep
    <2>7. QED
      BY <1>1, <1>5, <2>6 DEF t
  <1>9. QED
    BY <1>7, <1>8
-----------------------------------------------------------------------------
(* The tasks that wait, in the order of their blocks *)

Waiting(r, c) == [i \in DOMAIN r |-> c[r[i]]]

LEMMA WaitingType ==
    ASSUME NEW r \in Seq(Blocks), NEW c \in [Blocks -> Tasks \cup {None}]
    PROVE  /\ Waiting(r, c) \in Seq(Tasks \cup {None})
           /\ Len(Waiting(r, c)) = Len(r)
           /\ \A i \in 1 .. Len(r) : Waiting(r, c)[i] = c[r[i]]
           /\ Waiting(r, c) = <<>> <=> r = <<>>
           /\ r # <<>> => Head(Waiting(r, c)) = c[r[1]]
  <1>1. DOMAIN r = 1 .. Len(r) /\ Len(r) \in Nat
    OBVIOUS
  <1>2. Waiting(r, c) \in [1 .. Len(r) -> Tasks \cup {None}]
    BY <1>1 DEF Waiting
  <1>3. Waiting(r, c) \in Seq(Tasks \cup {None}) /\ Len(Waiting(r, c)) = Len(r)
    BY <1>1, <1>2
  <1>4. \A i \in 1 .. Len(r) : Waiting(r, c)[i] = c[r[i]]
    BY <1>1 DEF Waiting
  <1>5. QED
    BY <1>1, <1>3, <1>4

LEMMA WaitingAppend ==
    ASSUME NEW r \in Seq(Blocks), NEW e \in Blocks,
           NEW c \in [Blocks -> Tasks \cup {None}], NEW d \in [Blocks -> Tasks \cup {None}],
           \A b \in Members(r) : d[b] = c[b]
    PROVE  Waiting(Append(r, e), d) = Append(Waiting(r, c), d[e])
  <1> DEFINE v == Waiting(Append(r, e), d)
             w == Append(Waiting(r, c), d[e])
             T == Tasks \cup {None}
  <1>1. /\ Append(r, e) \in Seq(Blocks) /\ Len(Append(r, e)) = Len(r) + 1
        /\ Append(r, e)[Len(r) + 1] = e /\ Len(r) \in Nat
        /\ \A i \in 1 .. Len(r) : Append(r, e)[i] = r[i] /\ d[r[i]] = c[r[i]]
    BY DEF Members
  <1>2. /\ v \in Seq(T) /\ Len(v) = Len(r) + 1 /\ v[Len(r) + 1] = d[e]
        /\ \A i \in 1 .. Len(r) : v[i] = d[r[i]]
    <2> DEFINE a == Append(r, e)
    <2>1. /\ a \in Seq(Blocks) /\ Len(a) = Len(r) + 1 /\ a[Len(r) + 1] = e
          /\ \A i \in 1 .. Len(r) : a[i] = r[i]
      BY <1>1
    <2> HIDE DEF a
    <2>2. /\ Waiting(a, d) \in Seq(T) /\ Len(Waiting(a, d)) = Len(a)
          /\ \A i \in 1 .. Len(a) : Waiting(a, d)[i] = d[a[i]]
      BY <2>1, WaitingType
    <2>3. Len(r) + 1 \in 1 .. Len(a) /\ \A i \in 1 .. Len(r) : i \in 1 .. Len(a)
      BY <1>1, <2>1
    <2>4. /\ Waiting(a, d)[Len(r) + 1] = d[e]
          /\ \A i \in 1 .. Len(r) : Waiting(a, d)[i] = d[r[i]]
      BY <2>1, <2>2, <2>3
    <2>5. QED
      BY <2>1, <2>2, <2>4 DEF a
  <1>3. Waiting(r, c) \in Seq(T) /\ Len(Waiting(r, c)) = Len(r) /\ d[e] \in T
    BY WaitingType
  <1>4. /\ w \in Seq(T) /\ Len(w) = Len(r) + 1 /\ w[Len(r) + 1] = d[e]
        /\ \A i \in 1 .. Len(r) : w[i] = Waiting(r, c)[i]
    <2> HIDE DEF T
    <2> QED
      BY <1>3
  <1>5. \A i \in 1 .. Len(r) : v[i] = w[i]
    <2>1. \A i \in 1 .. Len(r) : Waiting(r, c)[i] = c[r[i]]
      BY WaitingType
    <2>2. QED
      BY <1>1, <1>2, <1>4, <2>1
  <1>6. \A i \in 1 .. Len(v) : v[i] = w[i]
    BY <1>1, <1>2, <1>4, <1>5
  <1> HIDE DEF v, w, T
  <1>7. v = w
    BY <1>2, <1>4, <1>6, SeqEqual
  <1>8. QED
    BY <1>7 DEF v, w

LEMMA WaitingTail ==
    ASSUME NEW r \in Seq(Blocks), r # <<>>,
           NEW c \in [Blocks -> Tasks \cup {None}], NEW d \in [Blocks -> Tasks \cup {None}],
           \A b \in Members(Tail(r)) : d[b] = c[b]
    PROVE  Waiting(Tail(r), d) = Tail(Waiting(r, c))
  <1> DEFINE t == Tail(r)
             x == Waiting(r, c)
             v == Waiting(t, d)
             w == Tail(x)
             T == Tasks \cup {None}
  <1>1. /\ t \in Seq(Blocks) /\ Len(t) = Len(r) - 1 /\ Len(r) \in Nat /\ Len(r) > 0
        /\ DOMAIN t = 1 .. Len(t)
        /\ \A i \in 1 .. Len(r) - 1 : t[i] = r[i + 1]
    OBVIOUS
  <1>2. /\ x \in Seq(T) /\ Len(x) = Len(r) /\ x # <<>>
        /\ \A i \in 1 .. Len(r) : x[i] = c[r[i]]
    BY WaitingType
  <1>3. /\ v \in Seq(T) /\ Len(v) = Len(r) - 1
        /\ \A i \in 1 .. Len(r) - 1 : v[i] = d[t[i]]
    <2> HIDE DEF t
    <2> QED
      BY <1>1, WaitingType
  <1>4. /\ w \in Seq(T) /\ Len(w) = Len(r) - 1
        /\ \A i \in 1 .. Len(r) - 1 : w[i] = x[i + 1]
    <2> HIDE DEF T, x
    <2> QED
      BY <1>1, <1>2
  <1>5. \A i \in 1 .. Len(r) - 1 : d[t[i]] = c[t[i]]
    BY <1>1 DEF Members
  <1> HIDE DEF t, x, v, w, T
  <1>6. \A i \in 1 .. Len(v) : v[i] = w[i]
    <2>1. ASSUME NEW i \in 1 .. Len(r) - 1 PROVE v[i] = w[i]
      <3>1. i + 1 \in 1 .. Len(r)
        BY <1>1
      <3>2. x[i + 1] = c[t[i]]
        BY <1>1, <1>2, <3>1
      <3>3. QED
        BY <1>3, <1>4, <1>5, <3>2
    <2>2. QED
      BY <1>3, <2>1
  <1>7. v = w
    BY <1>1, <1>3, <1>4, <1>6, SeqEqual
  <1>8. QED
    BY <1>7 DEF v, w, x, t
-----------------------------------------------------------------------------
(* The inductive invariant, about the run queue r and the cache f as lists *)

\* The tasks there are.
Live == {Client} \cup (0 .. nthreads - 1)

Typed ==
    /\ next \in [Blocks -> Blocks \cup {NULL}]
    /\ ctx \in [Blocks -> Tasks \cup {None}]
    /\ {cur_thread, scheduler_thread} \subseteq Blocks \cup {NULL}
    /\ nthreads \in 0 .. MaxThreads /\ starts \in 0 .. MaxStarts
    /\ nblocks \in Nat /\ nblocks <= nthreads + starts
    /\ executing \in Live /\ inStart \in BOOLEAN

\* No block is in two places, and none beyond the last one allocated is used.
Apart(r, f) ==
    /\ Members(r) \cap Members(f) = {}
    /\ cur_thread \notin Members(r) \cup Members(f)
    /\ Members(r) \cup Members(f) \cup ({cur_thread, scheduler_thread} \ {NULL})
         \subseteq 1 .. nblocks
    /\ executing # Client => cur_thread # NULL

\* The run queue holds different tasks, none of them the running one.
Saved(r) ==
    /\ \A b \in Members(r) : ctx[b] \in Live \ {executing}
    /\ \A b, c \in Members(r) : ctx[b] = ctx[c] => b = c

\* The client runs, waits in the run queue or, during rpi_thread_start, waits
\* in the scheduler's block, which is nowhere else.
ClientPlace(r, f) ==
    /\ inStart =>
         /\ executing # Client
         /\ scheduler_thread \in Blocks \ (Members(r) \cup Members(f) \cup {cur_thread})
         /\ ctx[scheduler_thread] = Client
         /\ \A b \in Members(r) : ctx[b] # Client
    /\ ~inStart => executing = Client \/ \E b \in Members(r) : ctx[b] = Client

Counted(r, f) == nblocks <= Len(r) + Len(f) + starts + (IF inStart THEN 1 ELSE 0)

Sound(r, f) ==
    /\ Rep(runq, next, r) /\ Rep(freeq, next, f)
    /\ Apart(r, f) /\ Saved(r) /\ ClientPlace(r, f) /\ Counted(r, f)

IInv == Typed /\ \E r, f : Sound(r, f)
-----------------------------------------------------------------------------
(* Every operation keeps the invariant and takes the abstract step *)

LEMMA SoundLists ==
    ASSUME NEW r, NEW f, Sound(r, f)
    PROVE  /\ r \in Seq(Blocks) /\ Len(r) \in Nat /\ f \in Seq(Blocks) /\ Len(f) \in Nat
           /\ Members(r) \subseteq Blocks /\ Members(f) \subseteq Blocks
           /\ runq.head = NULL <=> r = <<>>
           /\ r # <<>> => runq.head = r[1] /\ r[1] \in Members(r)
           /\ runq.tail # NULL => runq.tail \in Members(r)
           /\ freeq.tail # NULL => freeq.tail \in Members(f)
  <1>1. r \in Seq(Blocks) /\ f \in Seq(Blocks)
    BY DEF Sound, Rep
  <1>2. Len(r) \in Nat /\ Len(f) \in Nat
    BY <1>1
  <1>3. QED
    BY <1>1, <1>2, RepEnds DEF Sound

LEMMA LiveTasks == Typed => Live \subseteq Tasks /\ None \notin Live
  BY BoundAssumption DEF Typed, Live, Tasks, Client, None

\* mk_thread answers with a block that nobody uses, cached or new.
LEMMA MkThread ==
    ASSUME NEW r, NEW f, Typed, Sound(r, f), mk_thread, nblocks < Bound
    PROVE  \E e \in Blocks : \E ff :
             /\ e = NewBlock
             /\ Rep(freeq', next, ff) /\ Members(ff) = Members(f) \ {e} /\ Len(ff) \in Nat
             /\ e \notin Members(r) \cup {cur_thread}
             /\ inStart => e # scheduler_thread
             /\ nblocks' \in Nat /\ nblocks' <= nblocks + 1 /\ nblocks <= nblocks'
             /\ nblocks' - Len(ff) = nblocks - Len(f) + 1
             /\ e \in 1 .. nblocks'
  <1>1. /\ nblocks \in Nat /\ Len(f) \in Nat /\ Rep(freeq, next, f)
        /\ f \in Seq(Blocks)
    BY SoundLists DEF Typed, Sound
  <1>2. CASE freeq.head = NULL
    <2>1. f = <<>> /\ Members(f) = {} /\ Len(f) = 0
      BY <1>1, <1>2, RepEnds DEF Members
    <2>2. freeq' = freeq /\ nblocks' = nblocks + 1 /\ NewBlock = nblocks + 1
      BY <1>2 DEF mk_thread, Q_pop, NewBlock
    <2>3. nblocks + 1 \in Blocks /\ nblocks + 1 \notin 1 .. nblocks /\ nblocks + 1 # NULL
      BY <1>1, BoundType DEF NULL
    <2>4. nblocks + 1 \notin Members(r) \cup {cur_thread} /\ nblocks + 1 # scheduler_thread
      BY <2>3 DEF Sound, Apart
    <2>5. /\ nblocks + 1 = NewBlock /\ Rep(freeq', next, f)
          /\ Members(f) = Members(f) \ {nblocks + 1} /\ Len(f) \in Nat
          /\ nblocks' \in Nat /\ nblocks' <= nblocks + 1 /\ nblocks <= nblocks'
          /\ nblocks' - Len(f) = nblocks - Len(f) + 1
          /\ nblocks + 1 \in 1 .. nblocks'
      BY <1>1, <2>1, <2>2
    <2>6. QED
      BY <2>3, <2>4, <2>5
  <1>3. CASE freeq.head # NULL
    <2>1. f # <<>> /\ freeq.head = f[1] /\ f[1] \in Members(f)
      BY <1>1, <1>3, RepEnds
    <2>2. freeq' = Q_pop(freeq, next) /\ nblocks' = nblocks /\ NewBlock = f[1]
      BY <1>3, <2>1 DEF mk_thread, NewBlock
    <2> DEFINE t == Tail(f)
    <2>3. /\ Rep(freeq', next, t) /\ Members(t) = Members(f) \ {f[1]}
          /\ Len(t) = Len(f) - 1
      BY <1>1, <2>1, <2>2, RepPop
    <2> HIDE DEF t
    <2>4. t \in Seq(Blocks) /\ Len(t) \in Nat
      BY <2>3 DEF Rep
    <2>5. f[1] \in Blocks /\ f[1] \in 1 .. nblocks
      BY <2>1, SoundLists DEF Sound, Apart
    <2>6. /\ f[1] \notin Members(r) \cup {cur_thread}
          /\ inStart => f[1] # scheduler_thread
      BY <2>1 DEF Sound, Apart, ClientPlace
    <2>7. nblocks' - Len(t) = nblocks - Len(f) + 1
      BY <1>1, <2>2, <2>3
    <2>8. nblocks' \in Nat /\ nblocks' <= nblocks + 1 /\ nblocks <= nblocks'
      BY <1>1, <2>2
    <2>9. QED
      BY <2>2, <2>3, <2>4, <2>5, <2>6, <2>7, <2>8
  <1>4. QED
    BY <1>2, <1>3

\* rpi_fork: the new thread waits behind all others.
LEMMA ForkStep ==
    ASSUME NEW r, NEW f, Typed, Sound(r, f), rpi_fork
    PROVE  /\ Typed'
           /\ \E rr, ff : /\ Sound(rr, ff)'
                          /\ Waiting(rr, ctx') = Append(Waiting(r, ctx), nthreads)
  <1>1. /\ nblocks \in Nat /\ nthreads \in Nat /\ starts \in Nat /\ nthreads < MaxThreads
        /\ MaxThreads \in Nat /\ MaxStarts \in Nat
        /\ nblocks <= nthreads + starts /\ starts <= MaxStarts
    BY BoundAssumption DEF Typed, rpi_fork
  <1>2. nblocks < Bound
    BY <1>1 DEF Bound
  <1>3. PICK e, ff :
             /\ e \in Blocks /\ e = NewBlock
             /\ Rep(freeq', next, ff) /\ Members(ff) = Members(f) \ {e} /\ Len(ff) \in Nat
             /\ e \notin Members(r) \cup {cur_thread}
             /\ inStart => e # scheduler_thread
             /\ nblocks' \in Nat /\ nblocks' <= nblocks + 1 /\ nblocks <= nblocks'
             /\ nblocks' - Len(ff) = nblocks - Len(f) + 1
             /\ e \in 1 .. nblocks'
    BY <1>2, MkThread DEF rpi_fork
  <1> DEFINE rr == Append(r, e)
  <1>4. /\ nthreads' = nthreads + 1 /\ ctx' = [ctx EXCEPT ![e] = nthreads]
        /\ next' = Linked(runq, next, e) /\ runq' = Q_append(runq, e)
        /\ UNCHANGED <<cur_thread, scheduler_thread, executing, starts, inStart>>
    BY <1>3 DEF rpi_fork
  <1>5. /\ r \in Seq(Blocks) /\ Len(r) \in Nat /\ Len(f) \in Nat
        /\ Members(r) \subseteq Blocks /\ Members(f) \subseteq Blocks
        /\ runq.tail # NULL => runq.tail \in Members(r)
        /\ Rep(runq, next, r)
    BY SoundLists DEF Sound
  <1>6. /\ Rep(runq', next', rr) /\ Members(rr) = Members(r) \cup {e}
        /\ Len(rr) = Len(r) + 1
    BY <1>3, <1>4, <1>5, RepAppend
  <1>7. \A b \in Members(ff) : next'[b] = next[b]
    <2>1. ASSUME NEW b \in Members(ff) PROVE next'[b] = next[b]
      <3>1. b \in Members(f) /\ b # e /\ b \in Blocks /\ b # NULL
        BY <1>3, <1>5, BoundType
      <3>2. b # runq.tail
        BY <1>5, <3>1 DEF Sound, Apart
      <3>3. QED
        BY <1>4, <3>1, <3>2 DEF Linked
    <2>2. QED
      BY <2>1
  <1>8. Rep(freeq', next', ff)
    BY <1>3, <1>7, RepFrame
  <1>9. /\ ctx \in [Blocks -> Tasks \cup {None}] /\ nthreads \in Tasks
        /\ ctx' \in [Blocks -> Tasks \cup {None}]
        /\ ctx'[e] = nthreads /\ \A b \in Blocks : b # e => ctx'[b] = ctx[b]
    <2>1. ctx \in [Blocks -> Tasks \cup {None}] /\ nthreads \in Tasks
      BY <1>1 DEF Typed, Tasks
    <2>2. QED
      BY <1>3, <1>4, <2>1
  <1>10. \A b \in Members(r) : ctx'[b] = ctx[b]
    BY <1>3, <1>5, <1>9
  <1>11. Waiting(rr, ctx') = Append(Waiting(r, ctx), nthreads)
    BY <1>3, <1>5, <1>9, <1>10, WaitingAppend
  <1>12. Live' = Live \cup {nthreads} /\ nthreads \notin Live
    BY <1>1, <1>4 DEF Live, Client
  <1>13. next' \in [Blocks -> Blocks \cup {NULL}]
    <2>1. next \in [Blocks -> Blocks \cup {NULL}]
      BY DEF Typed
    <2>2. QED
      BY <1>3, <1>4, <2>1 DEF Linked
  <1>14. Typed'
    <2>1. nthreads' \in 0 .. MaxThreads /\ nblocks' <= nthreads' + starts'
      BY <1>1, <1>3, <1>4
    <2>2. QED
      BY <1>3, <1>4, <1>9, <1>12, <1>13, <2>1 DEF Typed
  <1> HIDE DEF rr
  <1>15. Apart(rr, ff)'
    <2>1. 1 .. nblocks \subseteq 1 .. nblocks'
      BY <1>1, <1>3
    <2>2. QED
      BY <1>3, <1>4, <1>6, <2>1 DEF Sound, Apart
  <1>16. Saved(rr)'
    <2>1. executing \in Live
      BY DEF Typed
    <2>2. QED
      BY <1>3, <1>4, <1>6, <1>9, <1>10, <1>12, <2>1 DEF Sound, Saved
  <1>17. ClientPlace(rr, ff)'
    <2>1. nthreads # Client
      BY <1>1 DEF Client
    <2>2. CASE inStart
      <3>1. /\ executing # Client /\ ctx[scheduler_thread] = Client
            /\ scheduler_thread \in Blocks \ (Members(r) \cup Members(f) \cup {cur_thread})
            /\ \A b \in Members(r) : ctx[b] # Client
        BY <2>2 DEF Sound, ClientPlace
      <3>2. scheduler_thread # e /\ ctx'[scheduler_thread] = Client
        BY <1>3, <1>9, <2>2, <3>1
      <3>3. QED
        BY <1>3, <1>4, <1>6, <1>9, <1>10, <2>1, <2>2, <3>1, <3>2 DEF ClientPlace
    <2>3. CASE ~inStart
      BY <1>4, <1>6, <1>10, <2>3 DEF Sound, ClientPlace
    <2>4. QED
      BY <2>2, <2>3
  <1>18. Counted(rr, ff)'
    <2>1. nblocks <= Len(r) + Len(f) + starts + (IF inStart THEN 1 ELSE 0)
      BY DEF Sound, Counted
    <2>2. nblocks' <= Len(rr) + Len(ff) + starts + (IF inStart THEN 1 ELSE 0)
      BY <1>1, <1>3, <1>5, <1>6, <2>1
    <2>3. QED
      BY <1>4, <2>2 DEF Counted
  <1>19. Sound(rr, ff)'
    BY <1>6, <1>8, <1>15, <1>16, <1>17, <1>18 DEF Sound
  <1>20. QED
    BY <1>11, <1>14, <1>19

\* Taking the head of the run queue: what is known of the rest.
LEMMA TakeHead ==
    ASSUME NEW r, NEW f, Typed, Sound(r, f), r # <<>>
    PROVE  /\ Rep(Q_pop(runq, next), next, Tail(r))
           /\ Members(Tail(r)) = Members(r) \ {r[1]}
           /\ Tail(r) \in Seq(Blocks) /\ Len(Tail(r)) \in Nat /\ Len(Tail(r)) = Len(r) - 1
           /\ runq.head = r[1] /\ r[1] \in Members(r) /\ r[1] \in Blocks /\ r[1] \in 1 .. nblocks
           /\ ctx[r[1]] \in Live /\ ctx[r[1]] # executing
           /\ \A b \in Members(Tail(r)) : ctx[b] \in Live \ {executing, ctx[r[1]]}
  <1> DEFINE t == Tail(r)
  <1>1. /\ Rep(Q_pop(runq, next), next, t) /\ Members(t) = Members(r) \ {r[1]}
        /\ Len(t) = Len(r) - 1
    BY RepPop DEF Sound
  <1> HIDE DEF t
  <1>2. t \in Seq(Blocks) /\ Len(t) \in Nat
    BY <1>1 DEF Rep
  <1>3. /\ runq.head = r[1] /\ r[1] \in Members(r) /\ r[1] \in Blocks
        /\ r[1] \in 1 .. nblocks
    BY SoundLists DEF Sound, Apart
  <1>4. ctx[r[1]] \in Live /\ ctx[r[1]] # executing
    BY <1>3 DEF Sound, Saved
  <1>5. \A b \in Members(t) : ctx[b] \in Live \ {executing, ctx[r[1]]}
    BY <1>1, <1>3 DEF Sound, Saved
  <1>6. QED
    BY <1>1, <1>2, <1>3, <1>4, <1>5 DEF t

\* rpi_thread_start: the client waits in a block of its own.
LEMMA StartStep ==
    ASSUME NEW r, NEW f, Typed, Sound(r, f), rpi_thread_start
    PROVE  /\ Typed' /\ r # <<>>
           /\ \E rr, ff : /\ Sound(rr, ff)'
                          /\ Waiting(rr, ctx') = Tail(Waiting(r, ctx))
           /\ executing' = ctx[r[1]]
  <1>1. /\ nblocks \in Nat /\ nthreads \in Nat /\ starts \in Nat /\ starts < MaxStarts
        /\ MaxThreads \in Nat /\ MaxStarts \in Nat
        /\ nblocks <= nthreads + starts /\ nthreads <= MaxThreads
    BY BoundAssumption DEF Typed, rpi_thread_start
  <1>2. nblocks < Bound
    BY <1>1 DEF Bound
  <1>3. PICK e, ff :
             /\ e \in Blocks /\ e = NewBlock
             /\ Rep(freeq', next, ff) /\ Members(ff) = Members(f) \ {e} /\ Len(ff) \in Nat
             /\ e \notin Members(r) \cup {cur_thread}
             /\ inStart => e # scheduler_thread
             /\ nblocks' \in Nat /\ nblocks' <= nblocks + 1 /\ nblocks <= nblocks'
             /\ nblocks' - Len(ff) = nblocks - Len(f) + 1
             /\ e \in 1 .. nblocks'
    BY <1>2, MkThread DEF rpi_thread_start
  <1>4. r # <<>>
    BY SoundLists DEF rpi_thread_start
  <1> DEFINE rr == Tail(r)
  <1>5. /\ Rep(Q_pop(runq, next), next, rr) /\ Members(rr) = Members(r) \ {r[1]}
        /\ Len(rr) \in Nat /\ Len(rr) = Len(r) - 1
        /\ runq.head = r[1] /\ r[1] \in Members(r) /\ r[1] \in Blocks /\ r[1] \in 1 .. nblocks
        /\ ctx[r[1]] \in Live /\ ctx[r[1]] # executing
        /\ \A b \in Members(rr) : ctx[b] \in Live \ {executing, ctx[r[1]]}
    BY <1>4, TakeHead
  <1>6. /\ executing = Client /\ cur_thread' = r[1] /\ scheduler_thread' = e
        /\ runq' = Q_pop(runq, next)
        /\ executing' = ctx[r[1]] /\ ctx' = [ctx EXCEPT ![e] = Client]
        /\ starts' = starts + 1 /\ inStart' = TRUE /\ UNCHANGED <<next, nthreads>>
    BY <1>3, <1>5 DEF rpi_thread_start, rpi_cswitch
  <1>7. ~inStart
    BY <1>6 DEF Sound, ClientPlace
  <1>8. /\ r \in Seq(Blocks) /\ Len(r) \in Nat /\ Len(f) \in Nat
        /\ Members(r) \subseteq Blocks /\ Members(f) \subseteq Blocks
    BY SoundLists
  <1>9. /\ ctx \in [Blocks -> Tasks \cup {None}]
        /\ ctx' \in [Blocks -> Tasks \cup {None}]
        /\ ctx'[e] = Client /\ \A b \in Blocks : b # e => ctx'[b] = ctx[b]
    <2>1. ctx \in [Blocks -> Tasks \cup {None}] /\ Client \in Tasks
      BY DEF Typed, Tasks
    <2>2. QED
      BY <1>3, <1>6, <2>1
  <1>10. \A b \in Members(rr) : ctx'[b] = ctx[b] /\ b \in Members(r) /\ b # e
    BY <1>3, <1>5, <1>8, <1>9
  <1>11. Waiting(rr, ctx') = Tail(Waiting(r, ctx))
    BY <1>4, <1>8, <1>9, <1>10, WaitingTail
  <1> HIDE DEF rr
  <1>12. Typed'
    <2>1. starts' \in 0 .. MaxStarts /\ nblocks' <= nthreads' + starts'
      BY <1>1, <1>3, <1>6
    <2>2. Live' = Live
      BY <1>6 DEF Live
    <2>3. QED
      BY <1>3, <1>5, <1>6, <1>9, <2>1, <2>2 DEF Typed
  <1>13. Apart(rr, ff)'
    <2>1. 1 .. nblocks \subseteq 1 .. nblocks' /\ NULL \notin Blocks
      BY <1>1, <1>3, BoundType
    <2>2. QED
      BY <1>3, <1>5, <1>6, <2>1 DEF Sound, Apart
  <1>14. Saved(rr)'
    <2>1. Live' = Live
      BY <1>6 DEF Live
    <2>2. QED
      BY <1>5, <1>6, <1>10, <2>1 DEF Sound, Saved
  <1>15. ClientPlace(rr, ff)'
    BY <1>3, <1>5, <1>6, <1>9, <1>10 DEF ClientPlace
  <1>16. Counted(rr, ff)'
    <2>1. nblocks <= Len(r) + Len(f) + starts
      BY <1>1, <1>7, <1>8 DEF Sound, Counted
    <2>2. nblocks' <= Len(rr) + Len(ff) + (starts + 1) + 1
      BY <1>1, <1>3, <1>5, <1>8, <2>1
    <2>3. QED
      BY <1>6, <2>2 DEF Counted
  <1>17. Sound(rr, ff)'
    BY <1>3, <1>5, <1>6, <1>13, <1>14, <1>15, <1>16 DEF Sound
  <1>18. QED
    BY <1>4, <1>6, <1>11, <1>12, <1>17

\* rpi_yield: the running task goes to the end of the queue.
LEMMA YieldStep ==
    ASSUME NEW r, NEW f, Typed, Sound(r, f), rpi_yield
    PROVE  /\ Typed' /\ r # <<>>
           /\ \E rr : /\ Sound(rr, f)'
                      /\ Waiting(rr, ctx') = Append(Tail(Waiting(r, ctx)), executing)
           /\ executing' = ctx[r[1]]
  <1>1. r # <<>>
    BY SoundLists DEF rpi_yield
  <1> DEFINE t == Tail(r)
  <1>2. /\ Rep(Q_pop(runq, next), next, t) /\ Members(t) = Members(r) \ {r[1]}
        /\ t \in Seq(Blocks) /\ Len(t) \in Nat /\ Len(t) = Len(r) - 1
        /\ runq.head = r[1] /\ r[1] \in Members(r) /\ r[1] \in Blocks /\ r[1] \in 1 .. nblocks
        /\ ctx[r[1]] \in Live /\ ctx[r[1]] # executing
        /\ \A b \in Members(t) : ctx[b] \in Live \ {executing, ctx[r[1]]}
    BY <1>1, TakeHead
  <1>3. PICK c \in Blocks : c = cur_thread
    BY DEF Typed, rpi_yield
  <1>4. /\ cur_thread' = r[1] /\ next' = Linked(Q_pop(runq, next), next, c)
        /\ runq' = Q_append(Q_pop(runq, next), c)
        /\ executing' = ctx[r[1]] /\ ctx' = [ctx EXCEPT ![c] = executing]
        /\ UNCHANGED <<freeq, scheduler_thread, nthreads, nblocks, starts, inStart>>
    BY <1>2, <1>3 DEF rpi_yield, rpi_cswitch
  <1>5. /\ r \in Seq(Blocks) /\ Len(r) \in Nat /\ Len(f) \in Nat
        /\ Members(r) \subseteq Blocks /\ Members(f) \subseteq Blocks
    BY SoundLists
  <1>6. c \notin Members(r) /\ c \notin Members(f) /\ c \in 1 .. nblocks /\ c # r[1]
    BY <1>2, <1>3, BoundType DEF Sound, Apart
  <1> HIDE DEF t
  <1>7. PICK q : q = Append(t, c)
    OBVIOUS
  <1>8. /\ Rep(runq', next', q) /\ Members(q) = Members(t) \cup {c}
        /\ Len(q) = Len(t) + 1
    BY <1>2, <1>3, <1>4, <1>6, <1>7, RepAppend
  <1>9. Rep(freeq', next', f)
    <2>1. ASSUME NEW b \in Members(f) PROVE next'[b] = next[b]
      <3>1. b \in Blocks /\ b # c /\ b # NULL /\ b \notin Members(r)
        BY <1>5, <1>6, BoundType DEF Sound, Apart
      <3>2. Q_pop(runq, next).tail # b
        BY <1>2, <3>1, RepEnds
      <3>3. QED
        BY <1>4, <3>1, <3>2 DEF Linked
    <2>2. Rep(freeq, next, f)
      BY DEF Sound
    <2>3. QED
      BY <1>4, <2>1, <2>2, RepFrame
  <1>10. /\ ctx \in [Blocks -> Tasks \cup {None}]
         /\ ctx' \in [Blocks -> Tasks \cup {None}]
         /\ ctx'[c] = executing /\ \A b \in Blocks : b # c => ctx'[b] = ctx[b]
    <2>1. ctx \in [Blocks -> Tasks \cup {None}] /\ executing \in Tasks
      BY LiveTasks DEF Typed
    <2>2. QED
      BY <1>3, <1>4, <2>1
  <1>11. \A b \in Members(t) : ctx'[b] = ctx[b] /\ b \in Members(r) /\ b # c
    BY <1>2, <1>5, <1>6, <1>10
  <1>12. Waiting(q, ctx') = Append(Tail(Waiting(r, ctx)), executing)
    <2>1. Waiting(t, ctx) = Tail(Waiting(r, ctx))
      BY <1>1, <1>5, <1>10, WaitingTail DEF t
    <2>2. Waiting(q, ctx') = Append(Waiting(t, ctx), executing)
      <3>1. t \in Seq(Blocks) /\ \A b \in Members(t) : ctx'[b] = ctx[b]
        BY <1>2, <1>11
      <3>2. Waiting(Append(t, c), ctx') = Append(Waiting(t, ctx), ctx'[c])
        BY <1>10, <3>1, WaitingAppend
      <3>3. QED
        BY <1>7, <1>10, <3>2
    <2>3. QED
      BY <2>1, <2>2
  <1>13. Live' = Live
    BY <1>4 DEF Live
  <1>14. Typed'
    <2>1. next' \in [Blocks -> Blocks \cup {NULL}]
      <3>1. next \in [Blocks -> Blocks \cup {NULL}]
        BY DEF Typed
      <3>2. QED
        BY <1>3, <1>4, <3>1 DEF Linked
    <2>2. QED
      BY <1>2, <1>4, <1>10, <1>13, <2>1 DEF Typed
  <1>15. Apart(q, f)'
    <2>1. NULL \notin Blocks
      BY BoundType
    <2>2. QED
      BY <1>2, <1>4, <1>6, <1>8, <2>1 DEF Sound, Apart
  <1>16. Saved(q)'
    <2>1. executing \in Live
      BY DEF Typed
    <2>2. \A b \in Members(q) : ctx'[b] \in Live \ {ctx[r[1]]}
      BY <1>2, <1>8, <1>10, <1>11, <2>1
    <2>3. ASSUME NEW a \in Members(q), NEW b \in Members(q), ctx'[a] = ctx'[b]
          PROVE  a = b
      <3>1. CASE a = c \/ b = c
        BY <1>2, <1>8, <1>10, <1>11, <2>3, <3>1
      <3>2. CASE a # c /\ b # c
        <4>1. a \in Members(r) /\ b \in Members(r) /\ ctx[a] = ctx[b]
          BY <1>8, <1>11, <2>3, <3>2
        <4>2. QED
          BY <4>1 DEF Sound, Saved
      <3>3. QED
        BY <3>1, <3>2
    <2>4. QED
      BY <1>4, <1>13, <2>2, <2>3 DEF Saved
  <1>17. ClientPlace(q, f)'
    <2>1. CASE inStart
      <3>1. /\ executing # Client /\ ctx[scheduler_thread] = Client
            /\ scheduler_thread \in Blocks \ (Members(r) \cup Members(f) \cup {c})
            /\ \A b \in Members(r) : ctx[b] # Client
        BY <1>3, <2>1 DEF Sound, ClientPlace
      <3>2. /\ scheduler_thread \notin Members(q) \cup Members(f) \cup {r[1]}
            /\ ctx'[scheduler_thread] = Client
        BY <1>2, <1>8, <1>10, <3>1
      <3>3. \A b \in Members(q) : ctx'[b] # Client
        BY <1>8, <1>10, <1>11, <3>1
      <3>4. QED
        BY <1>2, <1>4, <2>1, <3>1, <3>2, <3>3 DEF ClientPlace
    <2>2. CASE ~inStart
      <3>1. CASE executing = Client
        BY <1>4, <1>8, <1>10, <2>2, <3>1 DEF ClientPlace
      <3>2. CASE executing # Client
        <4>1. PICK b \in Members(r) : ctx[b] = Client
          BY <2>2, <3>2 DEF Sound, ClientPlace
        <4>2. CASE b = r[1]
          BY <1>4, <2>2, <4>1, <4>2 DEF ClientPlace
        <4>3. CASE b # r[1]
          BY <1>2, <1>4, <1>8, <1>11, <2>2, <4>1, <4>3 DEF ClientPlace
        <4>4. QED
          BY <4>2, <4>3
      <3>3. QED
        BY <3>1, <3>2
    <2>3. QED
      BY <2>1, <2>2
  <1>18. Counted(q, f)'
    <2>1. Len(q) = Len(r)
      BY <1>2, <1>5, <1>8
    <2>2. QED
      BY <1>4, <2>1 DEF Sound, Counted
  <1>19. Sound(q, f)'
    BY <1>8, <1>9, <1>15, <1>16, <1>17, <1>18 DEF Sound
  <1>20. QED
    BY <1>1, <1>4, <1>12, <1>14, <1>19

\* rpi_exit: what is common to its two endings.  The block of the thread joins
\* the cache, and what is in the run queue is left alone.
LEMMA ExitBlock ==
    ASSUME NEW r, NEW f, Typed, Sound(r, f), rpi_exit
    PROVE  \E c \in Blocks : \E ff :
             /\ c = cur_thread /\ c \notin Members(r) /\ c \in 1 .. nblocks
             /\ Rep(freeq', next', ff) /\ Members(ff) = Members(f) \cup {c}
             /\ Len(ff) = Len(f) + 1
             /\ \A b \in Members(r) : next'[b] = next[b]
             /\ next' \in [Blocks -> Blocks \cup {NULL}]
             /\ ctx' \in [Blocks -> Tasks \cup {None}]
             /\ \A b \in Blocks : b # c => ctx'[b] = ctx[b]
  <1>1. PICK c \in Blocks : c = cur_thread
    BY DEF Typed, Sound, Apart, rpi_exit
  <1>2. /\ c \notin Members(r) /\ c \notin Members(f) /\ c \in 1 .. nblocks
        /\ Rep(freeq, next, f)
    BY <1>1, BoundType DEF Sound, Apart
  <1>3. /\ next' = Linked(freeq, next, c) /\ freeq' = Q_append(freeq, c)
        /\ ctx' = [ctx EXCEPT ![c] = None]
    BY <1>1 DEF rpi_exit
  <1>4. PICK ff : ff = Append(f, c)
    OBVIOUS
  <1>5. /\ Rep(freeq', next', ff) /\ Members(ff) = Members(f) \cup {c}
        /\ Len(ff) = Len(f) + 1
    BY <1>2, <1>3, <1>4, RepAppend
  <1>6. \A b \in Members(r) : next'[b] = next[b]
    <2>1. ASSUME NEW b \in Members(r) PROVE next'[b] = next[b]
      <3>1. b \in Blocks /\ b # c /\ b # NULL /\ b \notin Members(f)
        BY <1>2, SoundLists, BoundType DEF Sound, Apart
      <3>2. freeq.tail # b
        BY <3>1, SoundLists
      <3>3. QED
        BY <1>3, <3>1, <3>2 DEF Linked
    <2>2. QED
      BY <2>1
  <1>7. next' \in [Blocks -> Blocks \cup {NULL}]
    <2>1. next \in [Blocks -> Blocks \cup {NULL}]
      BY DEF Typed
    <2>2. QED
      BY <1>3, <2>1 DEF Linked
  <1>8. ctx' \in [Blocks -> Tasks \cup {None}] /\ \A b \in Blocks : b # c => ctx'[b] = ctx[b]
    <2>1. ctx \in [Blocks -> Tasks \cup {None}]
      BY DEF Typed
    <2>2. QED
      BY <1>3, <2>1
  <1>9. QED
    BY <1>1, <1>2, <1>5, <1>6, <1>7, <1>8

\* rpi_exit with a thread that waits: the first of them runs.
LEMMA ExitNext ==
    ASSUME NEW r, NEW f, Typed, Sound(r, f), rpi_exit, r # <<>>
    PROVE  /\ Typed'
           /\ \E rr, ff : /\ Sound(rr, ff)'
                          /\ Waiting(rr, ctx') = Tail(Waiting(r, ctx))
           /\ executing' = ctx[r[1]] /\ inStart' = inStart
  <1>1. PICK c, ff :
             /\ c \in Blocks /\ c = cur_thread /\ c \notin Members(r) /\ c \in 1 .. nblocks
             /\ Rep(freeq', next', ff) /\ Members(ff) = Members(f) \cup {c}
             /\ Len(ff) = Len(f) + 1
             /\ \A b \in Members(r) : next'[b] = next[b]
             /\ next' \in [Blocks -> Blocks \cup {NULL}]
             /\ ctx' \in [Blocks -> Tasks \cup {None}]
             /\ \A b \in Blocks : b # c => ctx'[b] = ctx[b]
    BY ExitBlock
  <1> DEFINE t == Tail(r)
  <1>2. /\ Rep(Q_pop(runq, next), next, t) /\ Members(t) = Members(r) \ {r[1]}
        /\ t \in Seq(Blocks) /\ Len(t) \in Nat /\ Len(t) = Len(r) - 1
        /\ runq.head = r[1] /\ r[1] \in Members(r) /\ r[1] \in Blocks /\ r[1] \in 1 .. nblocks
        /\ ctx[r[1]] \in Live /\ ctx[r[1]] # executing
        /\ \A b \in Members(t) : ctx[b] \in Live \ {executing, ctx[r[1]]}
    BY TakeHead
  <1>3. /\ cur_thread' = r[1] /\ runq' = Q_pop(runq, next) /\ executing # Client
        /\ executing' = ctx[r[1]] /\ inStart' = (inStart /\ ctx[r[1]] # Client)
        /\ UNCHANGED <<scheduler_thread, nthreads, nblocks, starts>>
    BY <1>2, BoundType DEF rpi_exit, Successor
  <1>4. inStart \in BOOLEAN /\ (inStart => ctx[r[1]] # Client)
    BY <1>2 DEF Typed, Sound, ClientPlace
  <1>5. inStart' = inStart
    BY <1>3, <1>4
  <1>6. /\ r \in Seq(Blocks) /\ Len(r) \in Nat /\ Len(f) \in Nat
        /\ Members(r) \subseteq Blocks /\ Members(f) \subseteq Blocks
    BY SoundLists
  <1>7. \A b \in Members(t) : ctx'[b] = ctx[b] /\ b \in Members(r) /\ b # c /\ next'[b] = next[b]
    BY <1>1, <1>2, <1>6
  <1>8. Waiting(t, ctx') = Tail(Waiting(r, ctx))
    BY <1>1, <1>6, <1>7, WaitingTail DEF Typed
  <1> HIDE DEF t
  <1>9. Rep(runq', next', t)
    BY <1>2, <1>3, <1>7, RepFrame
  <1>10. Live' = Live
    BY <1>3 DEF Live
  <1>11. Typed'
    BY <1>1, <1>2, <1>3, <1>4, <1>5, <1>10 DEF Typed
  <1>12. Apart(t, ff)'
    <2>1. NULL \notin Blocks
      BY BoundType
    <2>2. QED
      BY <1>1, <1>2, <1>3, <2>1 DEF Sound, Apart
  <1>13. Saved(t)'
    BY <1>2, <1>3, <1>7, <1>10 DEF Sound, Saved
  <1>14. ClientPlace(t, ff)'
    <2>1. CASE inStart
      <3>1. /\ ctx[scheduler_thread] = Client
            /\ scheduler_thread \in Blocks \ (Members(r) \cup Members(f) \cup {c})
            /\ \A b \in Members(r) : ctx[b] # Client
        BY <1>1, <2>1 DEF Sound, ClientPlace
      <3>2. /\ scheduler_thread \notin Members(t) \cup Members(ff) \cup {r[1]}
            /\ ctx'[scheduler_thread] = Client
        BY <1>1, <1>2, <3>1
      <3>3. \A b \in Members(t) : ctx'[b] # Client
        BY <1>7, <3>1
      <3>4. QED
        BY <1>2, <1>3, <1>5, <2>1, <3>1, <3>2, <3>3 DEF ClientPlace
    <2>2. CASE ~inStart
      <3>1. PICK b \in Members(r) : ctx[b] = Client
        BY <1>3, <2>2 DEF Sound, ClientPlace
      <3>2. CASE b = r[1]
        BY <1>3, <1>5, <2>2, <3>1, <3>2 DEF ClientPlace
      <3>3. CASE b # r[1]
        BY <1>2, <1>3, <1>5, <1>7, <2>2, <3>1, <3>3 DEF ClientPlace
      <3>4. QED
        BY <3>2, <3>3
    <2>3. QED
      BY <2>1, <2>2
  <1>15. Counted(t, ff)'
    <2>1. Len(t) + Len(ff) = Len(r) + Len(f)
      BY <1>1, <1>2, <1>6
    <2>2. nblocks <= Len(r) + Len(f) + starts + (IF inStart THEN 1 ELSE 0)
      BY DEF Sound, Counted
    <2>3. nblocks <= Len(t) + Len(ff) + starts + (IF inStart THEN 1 ELSE 0)
      BY <2>1, <2>2
    <2>4. QED
      BY <1>3, <1>5, <2>3 DEF Counted
  <1>16. Sound(t, ff)'
    BY <1>1, <1>9, <1>12, <1>13, <1>14, <1>15 DEF Sound
  <1>17. QED
    BY <1>3, <1>5, <1>8, <1>11, <1>16

\* rpi_exit of the last thread: the client resumes in rpi_thread_start.
LEMMA ExitLast ==
    ASSUME NEW r, NEW f, Typed, Sound(r, f), rpi_exit, r = <<>>
    PROVE  /\ Typed'
           /\ \E ff : Sound(r, ff)'
           /\ executing' = Client /\ inStart' = FALSE
  <1>1. PICK c, ff :
             /\ c \in Blocks /\ c = cur_thread /\ c \notin Members(r) /\ c \in 1 .. nblocks
             /\ Rep(freeq', next', ff) /\ Members(ff) = Members(f) \cup {c}
             /\ Len(ff) = Len(f) + 1
             /\ \A b \in Members(r) : next'[b] = next[b]
             /\ next' \in [Blocks -> Blocks \cup {NULL}]
             /\ ctx' \in [Blocks -> Tasks \cup {None}]
             /\ \A b \in Blocks : b # c => ctx'[b] = ctx[b]
    BY ExitBlock
  <1>2. Members(r) = {} /\ runq.head = NULL /\ Len(r) = 0 /\ Len(f) \in Nat
    BY SoundLists DEF Members
  <1>3. executing # Client /\ inStart
    BY <1>2 DEF Sound, ClientPlace, rpi_exit
  <1>4. /\ ctx[scheduler_thread] = Client
        /\ scheduler_thread \in Blocks \ (Members(f) \cup {c})
        /\ scheduler_thread \in 1 .. nblocks
    BY <1>1, <1>3, BoundType DEF Sound, ClientPlace, Apart
  <1>5. /\ cur_thread' = scheduler_thread /\ runq' = runq
        /\ executing' = Client /\ inStart' = FALSE
        /\ UNCHANGED <<scheduler_thread, nthreads, nblocks, starts>>
    BY <1>2, <1>4 DEF rpi_exit, Successor, Q_pop
  <1>6. Rep(runq', next', r)
    <2>1. Rep(runq, next, r)
      BY DEF Sound
    <2>2. QED
      BY <1>1, <1>5, <2>1, RepFrame
  <1>7. Live' = Live /\ Client \in Live
    BY <1>5 DEF Live
  <1>8. Typed'
    BY <1>1, <1>4, <1>5, <1>7 DEF Typed
  <1>9. Apart(r, ff)'
    BY <1>1, <1>2, <1>4, <1>5 DEF Sound, Apart
  <1>10. Saved(r)' /\ ClientPlace(r, ff)'
    BY <1>2, <1>5 DEF Saved, ClientPlace
  <1>11. Counted(r, ff)'
    <2>1. nblocks <= Len(r) + Len(f) + starts + 1
      BY <1>3 DEF Sound, Counted
    <2>2. nblocks <= Len(r) + Len(ff) + starts
      BY <1>1, <1>2, <2>1 DEF Typed
    <2>3. QED
      BY <1>1, <1>2, <1>5, <2>2 DEF Counted, Typed
  <1>12. Sound(r, ff)'
    BY <1>1, <1>6, <1>9, <1>10, <1>11 DEF Sound
  <1>13. QED
    BY <1>5, <1>8, <1>12
-----------------------------------------------------------------------------
(* The invariant and what follows from it *)

\* At first there are no threads and no blocks.
LEMMA InitInv == Init => IInv
  <1>1. SUFFICES ASSUME Init PROVE IInv
    OBVIOUS
  <1>2. /\ Rep(runq, next, <<>>) /\ Rep(freeq, next, <<>>)
        /\ Members(<<>>) = {} /\ Len(<<>>) = 0
    BY <1>1, RepEmpty DEF Init, Members
  <1>3. Typed
    <2>1. next \in [Blocks -> Blocks \cup {NULL}] /\ ctx \in [Blocks -> Tasks \cup {None}]
      BY <1>1 DEF Init
    <2>2. /\ nthreads \in 0 .. MaxThreads /\ starts \in 0 .. MaxStarts
          /\ nblocks \in Nat /\ nblocks <= nthreads + starts
      BY <1>1, BoundAssumption DEF Init
    <2>3. executing \in Live /\ inStart \in BOOLEAN
      BY <1>1 DEF Init, Live
    <2>4. QED
      BY <1>1, <2>1, <2>2, <2>3 DEF Typed, Init
  <1>4. Sound(<<>>, <<>>)
    BY <1>1, <1>2, BoundType DEF Sound, Apart, Saved, ClientPlace, Counted, Init
  <1>5. QED
    BY <1>3, <1>4 DEF IInv

\* A start without threads changes no queue.
LEMMA StartEmptyStep ==
    ASSUME NEW r, NEW f, Typed, Sound(r, f), StartEmpty
    PROVE  Typed' /\ Sound(r, f)'
  <1>1. /\ executing = Client /\ cur_thread' = NULL
        /\ UNCHANGED <<next, ctx, runq, freeq, scheduler_thread, nthreads, nblocks,
                       executing, starts, inStart>>
    BY DEF StartEmpty
  <1>2. ~inStart /\ NULL \notin Members(r) \cup Members(f)
    BY <1>1, SoundLists, BoundType DEF Sound, ClientPlace
  <1>3. Typed'
    BY <1>1 DEF Typed, Live
  <1>4. QED
    BY <1>1, <1>2, <1>3 DEF Sound, Apart, Saved, ClientPlace, Counted, Live

\* Nothing changes for either queue in a step that changes no variable.
LEMMA StutterStep ==
    ASSUME NEW r, NEW f, Typed, Sound(r, f), UNCHANGED vars
    PROVE  Typed' /\ Sound(r, f)'
  BY DEF vars, Typed, Live, Sound, Apart, Saved, ClientPlace, Counted

LEMMA StepInv == IInv /\ [Next]_vars => IInv'
  <1>1. SUFFICES ASSUME IInv, [Next]_vars PROVE IInv'
    OBVIOUS
  <1>2. PICK r, f : Typed /\ Sound(r, f)
    BY <1>1 DEF IInv
  <1>3. CASE rpi_fork
    BY <1>2, <1>3, ForkStep DEF IInv
  <1>4. CASE StartEmpty
    BY <1>2, <1>4, StartEmptyStep DEF IInv
  <1>5. CASE rpi_thread_start
    BY <1>2, <1>5, StartStep DEF IInv
  <1>6. CASE rpi_yield
    BY <1>2, <1>6, YieldStep DEF IInv
  <1>7. CASE rpi_exit
    BY <1>2, <1>7, ExitNext, ExitLast DEF IInv
  <1>8. CASE UNCHANGED vars
    BY <1>2, <1>8, StutterStep DEF IInv
  <1>9. QED
    BY <1>1, <1>3, <1>4, <1>5, <1>6, <1>7, <1>8 DEF Next

LEMMA Invariant == Spec => []IInv
  BY InitInv, StepInv, PTL DEF Spec

\* A list that represents a queue makes it well formed.
LEMMA RepWellFormed ==
    ASSUME NEW q, NEW s, Rep(q, next, s)
    PROVE  /\ WellFormed(q) /\ Elems(q) = Members(s) /\ Items(q) = s
           /\ Cardinality(Elems(q)) = Len(s)
  <1>1. Items(q) = s
    BY ChainIs DEF Items
  <1>2. s \in Seq(Blocks) /\ Distinct(s)
    BY DEF Rep
  <1>3. Cardinality(Members(s)) = Len(s) /\ Len(s) <= MaxThreads + MaxStarts
    BY <1>2, DistinctCount DEF Bound
  <1>4. Elems(q) = Members(s)
    BY <1>1 DEF Elems, Members
  <1>5. WellFormed(q)
    BY <1>1, <1>3, RepEnds DEF WellFormed
  <1>6. QED
    BY <1>1, <1>3, <1>4, <1>5

\* TypeOK: every variable keeps its type, and the links of the run queue and of
\* the cache of free blocks always form lists that end where the tail says,
\* however threads are forked, yield and exit (Q.h, rpi-thread.c).
THEOREM TypeCorrect == Spec => []TypeOK
  <1>1. IInv => TypeOK
    <2>1. SUFFICES ASSUME IInv PROVE TypeOK
      OBVIOUS
    <2>2. PICK r, f : Typed /\ Sound(r, f)
      BY <2>1 DEF IInv
    <2>3. Rep(runq, next, r) /\ Rep(freeq, next, f)
      BY <2>2 DEF Sound
    <2>4. WellFormed(runq) /\ WellFormed(freeq)
      BY <2>3, RepWellFormed
    <2>5. {runq, freeq} \subseteq [head : Blocks \cup {NULL}, tail : Blocks \cup {NULL}]
      BY <2>3, RepEnds
    <2>6. nblocks \in 0 .. MaxThreads + MaxStarts
      BY <2>2, BoundAssumption DEF Typed
    <2>7. executing \in Tasks
      BY <2>2, LiveTasks DEF Typed
    <2>8. QED
      BY <2>2, <2>4, <2>5, <2>6, <2>7 DEF TypeOK, Typed
  <1>2. QED
    BY <1>1, Invariant, PTL

\* BlocksApart: no block is in two places, no saved execution is lost or
\* doubled, and no block leaks (mk_thread, rpi_yield, rpi_exit).
THEOREM BlocksApartCorrect == Spec => []BlocksApart
  <1>1. IInv => BlocksApart
    <2>1. SUFFICES ASSUME IInv PROVE BlocksApart
      OBVIOUS
    <2>2. PICK r, f : Typed /\ Sound(r, f)
      BY <2>1 DEF IInv
    <2>3. /\ Elems(runq) = Members(r) /\ Elems(freeq) = Members(f)
          /\ Cardinality(Elems(runq)) = Len(r) /\ Cardinality(Elems(freeq)) = Len(f)
      BY <2>2, RepWellFormed DEF Sound
    <2>4. /\ Members(r) \cap Members(f) = {}
          /\ cur_thread \notin Members(r) \cup Members(f)
      BY <2>2 DEF Sound, Apart
    <2>5. /\ \A b \in Members(r) : ctx[b] \notin {None, executing}
          /\ \A b, c \in Members(r) : ctx[b] = ctx[c] => b = c
      BY <2>2, LiveTasks DEF Sound, Saved
    <2>6. nblocks <= Len(r) + Len(f) + starts + (IF executing # Client THEN 1 ELSE 0)
      <3>1. /\ nblocks \in Nat /\ starts \in Nat /\ Len(r) \in Nat /\ Len(f) \in Nat
            /\ nblocks <= Len(r) + Len(f) + starts + (IF inStart THEN 1 ELSE 0)
            /\ inStart => executing # Client
        BY <2>2, SoundLists DEF Typed, Sound, Counted, ClientPlace
      <3>2. QED
        BY <3>1
    <2>7. QED
      BY <2>3, <2>4, <2>5, <2>6 DEF BlocksApart
  <1>2. QED
    BY <1>1, Invariant, PTL

\* The abstract queue of a state with the run queue r.
LEMMA AbstractQueue ==
    ASSUME NEW r, NEW f, Sound(r, f)
    PROVE  [i \in DOMAIN Items(runq) |-> ctx[Items(runq)[i]]] = Waiting(r, ctx)
  <1>1. Items(runq) = r
    BY RepWellFormed DEF Sound
  <1>2. QED
    BY <1>1 DEF Waiting

LEMMA AbstractQueueNext ==
    ASSUME NEW r, NEW f, Sound(r, f)'
    PROVE  [i \in DOMAIN Items(runq) |-> ctx[Items(runq)[i]]]' = Waiting(r, ctx')
  <1>1. Items(runq)' = r
    BY ChainIs DEF Sound, Items
  <1>2. QED
    BY <1>1 DEF Waiting

\* RoundRobin: the linked queues, the cache and the context switch implement
\* first come first served scheduling of the client and the threads
\* (rpi-thread.c): each operation is one step of RunQueue, or changes nothing
\* that RunQueue speaks of.
THEOREM RoundRobinCorrect == Spec => RoundRobin
  <1> DEFINE W == [i \in DOMAIN Items(runq) |-> ctx[Items(runq)[i]]]
  <1>1. Init => Abstract!Init
    <2>1. SUFFICES ASSUME Init PROVE Abstract!Init
      OBVIOUS
    <2>2. Items(runq) = <<>>
      BY <2>1, RepEmpty, RepWellFormed DEF Init
    <2>3. W = <<>>
      BY <2>2
    <2>4. QED
      BY <2>1, <2>3 DEF Init, Client, Abstract!Init, Abstract!Client
  <1>2. IInv /\ [Next]_vars => [Abstract!Next]_(Abstract!rvars)
    <2>1. SUFFICES ASSUME IInv, [Next]_vars PROVE [Abstract!Next]_(Abstract!rvars)
      OBVIOUS
    <2>2. PICK r, f : Typed /\ Sound(r, f)
      BY <2>1 DEF IInv
    <2>3. W = Waiting(r, ctx)
      BY <2>2, AbstractQueue
    <2>4. /\ r \in Seq(Blocks) /\ ctx \in [Blocks -> Tasks \cup {None}]
          /\ (Waiting(r, ctx) = <<>>) <=> (r = <<>>)
          /\ r # <<>> => Head(Waiting(r, ctx)) = ctx[r[1]]
      BY <2>2, SoundLists, WaitingType DEF Typed
    <2>5. CASE rpi_fork
      <3>1. W' = Append(W, nthreads)
        BY <2>2, <2>3, <2>5, ForkStep, AbstractQueueNext
      <3> HIDE DEF W
      <3>2. Abstract!Fork
        BY <2>5, <3>1 DEF rpi_fork, Abstract!Fork, W
      <3>3. QED
        BY <3>2 DEF Abstract!Next
    <2>6. CASE StartEmpty
      <3>1. W' = W
        BY <2>2, <2>3, <2>6, StartEmptyStep, AbstractQueueNext DEF StartEmpty
      <3>2. QED
        BY <2>6, <3>1 DEF StartEmpty, Abstract!rvars
    <2>7. CASE rpi_thread_start
      <3>1. /\ W' = Tail(W) /\ W # <<>> /\ executing' = Head(W)
        BY <2>2, <2>3, <2>4, <2>7, StartStep, AbstractQueueNext
      <3>2. Abstract!Start
        BY <2>7, <3>1 DEF rpi_thread_start, Client, Abstract!Start, Abstract!Client
      <3>3. QED
        BY <3>2 DEF Abstract!Next
    <2>8. CASE rpi_yield
      <3>1. /\ W' = Append(Tail(W), executing) /\ W # <<>> /\ executing' = Head(W)
        BY <2>2, <2>3, <2>4, <2>8, YieldStep, AbstractQueueNext
      <3>2. Abstract!Yield
        BY <2>8, <3>1 DEF rpi_yield, Abstract!Yield
      <3>3. QED
        BY <3>2 DEF Abstract!Next
    <2>9. CASE rpi_exit /\ r # <<>>
      <3>1. /\ W' = Tail(W) /\ W # <<>> /\ executing' = Head(W) /\ inStart' = inStart
        BY <2>2, <2>3, <2>4, <2>9, ExitNext, AbstractQueueNext
      <3>2. Abstract!Exit
        BY <2>9, <3>1 DEF rpi_exit, Client, Abstract!Exit, Abstract!Client
      <3>3. QED
        BY <3>2 DEF Abstract!Next
    <2>10. CASE rpi_exit /\ r = <<>>
      <3>1. /\ W = <<>> /\ executing' = Client /\ inStart' = FALSE
        BY <2>2, <2>3, <2>4, <2>10, ExitLast
      <3>2. W' = Waiting(r, ctx')
        BY <2>2, <2>10, ExitLast, AbstractQueueNext
      <3>3. W' = W
        BY <2>10, <3>1, <3>2 DEF Waiting
      <3>4. Abstract!Exit
        BY <2>10, <3>1, <3>3 DEF rpi_exit, Client, Abstract!Exit, Abstract!Client
      <3>5. QED
        BY <3>4 DEF Abstract!Next
    <2>11. CASE UNCHANGED vars
      <3>1. W' = W
        BY <2>2, <2>3, <2>11, StutterStep, AbstractQueueNext DEF vars
      <3>2. QED
        BY <2>11, <3>1 DEF vars, Abstract!rvars
    <2>12. QED
      BY <2>1, <2>5, <2>6, <2>7, <2>8, <2>9, <2>10, <2>11 DEF Next
  <1>3. QED
    BY <1>1, <1>2, Invariant, PTL DEF Spec, RoundRobin, Abstract!Spec
=============================================================================
