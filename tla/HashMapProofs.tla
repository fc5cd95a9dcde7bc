---------------------------- MODULE HashMapProofs ----------------------------
(***************************************************************************)
(* The hash map finds what was put into it, keeps its chains sound and     *)
(* loses no entry until a removal cuts some off, for any keys, values,     *)
(* hash function and number of entries.                                    *)
(***************************************************************************)
EXTENDS HashMap, FiniteSetTheorems, SequenceTheorems, NaturalsInduction,
        WellFoundedInduction, TLAPS

EntryOf(D) == [key : Keys, value : Values, prev : D \cup {NULL}, next : D \cup {NULL}]

\* e is the one of S with the highest rank, and NULL when there is none.
IsTop(e, S, rank) ==
  IF S = {} THEN e = NULL ELSE e \in S /\ \A y \in S : rank[y] <= rank[e]

\* The ranks order S, and every next is the first of those that are ranked lower.
IsRanked(es, S, rank) ==
  /\ \A x, y \in S : rank[x] = rank[y] => x = y
  /\ \A x \in S : IsTop(es[x].next, {y \in S : rank[y] < rank[x]}, rank)

\* at begins with h and goes on by g.
IsPath(at, h, g) == at[0] = h /\ \A k \in Nat : at[k + 1] = g[at[k]]

IsWalk(h, es, n, at) ==
  /\ at[0] = h
  /\ \A k \in 0 .. n - 1 : at[k + 1] = IF at[k] = NULL THEN NULL ELSE es[at[k]].next

\* The walk goes down through S in m steps.
GoesDown(at, m, n, S, rank) ==
  /\ \A k \in 0 .. n : IF k < m THEN at[k] \in S ELSE at[k] = NULL
  /\ \A k \in 0 .. n : \A j \in 0 .. k - 1 : k < m => rank[at[k]] < rank[at[j]]
  /\ \A x \in S : \E k \in 0 .. m - 1 : at[k] = x

\* s lists the elements of S in the order of their links, beginning with h.
IsListOf(s, h, S, es) ==
  /\ s \in Seq(S) /\ ToSet(s) = S /\ IsInjective(s)
  /\ IF s = <<>> THEN h = NULL ELSE s[1] = h
  /\ \A i \in DOMAIN s : es[s[i]].next = IF i = Len(s) THEN NULL ELSE s[i + 1]

-----------------------------------------------------------------------------
NatLess == {p \in Nat \X Nat : p[1] < p[2]}

\* A set of natural numbers that is not empty has a least one: what stands in
\* for induction in this module.
LEMMA Least ==
  ASSUME NEW S \in SUBSET Nat, S # {}
  PROVE  \E m \in S : \A k \in S : m <= k
<1>1. IsWellFoundedOn(NatLess, Nat)
  BY NatLessThanWellFounded DEF OpToRel, NatLess
<1>2. \E x \in S : \A y \in S : ~(<<y, x>> \in NatLess)
  BY <1>1, WFMin
<1>3. PICK m \in S : \A y \in S : ~(<<y, m>> \in NatLess)
  BY <1>2
<1>4. \A y \in S : ~(y < m)
  BY <1>3 DEF NatLess
<1> QED BY <1>4

\* A set of numbers up to n has a greatest one.
LEMMA Greatest ==
  ASSUME NEW n \in Nat, NEW S \in SUBSET (1 .. n), S # {}
  PROVE  \E m \in S : \A k \in S : k <= m
<1> DEFINE R == {j \in Nat : n - j \in S}
<1>1. ASSUME NEW k \in S PROVE n - k \in R
  <2>1. k \in 1 .. n /\ n - k \in Nat /\ n - (n - k) = k
    OBVIOUS
  <2> QED BY <2>1
<1>2. R \in SUBSET Nat /\ R # {}
  BY <1>1
<1>3. PICK r \in R : \A j \in R : r <= j
  <2> HIDE DEF R
  <2> QED BY <1>2, Least
<1>4. ASSUME NEW k \in S PROVE k <= n - r
  <2>1. k \in 1 .. n /\ r \in Nat /\ r <= n - k
    BY <1>1, <1>3
  <2> QED BY <2>1
<1> QED BY <1>3, <1>4

LEMMA MinIs ==
  ASSUME NEW S \in SUBSET Nat, S # {}
  PROVE  Min(S) \in S /\ \A k \in S : Min(S) <= k
BY Least DEF Min

LEMMA MaxIs ==
  ASSUME NEW n \in Nat, NEW S \in SUBSET (1 .. n), S # {}
  PROVE  Max(S) \in S /\ \A k \in S : k <= Max(S)
<1>1. \E m \in S : \A k \in S : k <= m
  BY Greatest
<1>2. \E m \in S : \A k \in S : m >= k
  BY <1>1
<1> QED BY <1>2 DEF Max

\* Every step has a successor, so there is a walk.
LEMMA WalkExists ==
  ASSUME NEW S, NEW h \in S, NEW g \in [S -> S]
  PROVE  \E at \in [Nat -> S] : IsPath(at, h, g)
<1> DEFINE Start(n, f) == f[0] = h /\ \A k \in 0 .. n - 1 : f[k + 1] = g[f[k]]
           Bad == {n \in Nat : ~\E f \in [0 .. n -> S] : Start(n, f)}
<1>1. Bad = {}
  <2> SUFFICES ASSUME Bad # {} PROVE FALSE
    OBVIOUS
  <2>1. PICK m \in Bad : \A k \in Bad : m <= k
    <3> HIDE DEF Start
    <3>1. Bad \in SUBSET Nat
      OBVIOUS
    <3> HIDE DEF Bad
    <3> QED BY <3>1, Least
  <2>2. CASE m = 0
    <3>1. [k \in 0 .. 0 |-> h] \in [0 .. 0 -> S] /\ Start(0, [k \in 0 .. 0 |-> h])
      OBVIOUS
    <3> QED BY <2>2, <3>1
  <2>3. CASE m # 0
    <3>1. m - 1 \in Nat /\ m - 1 \notin Bad
      BY <2>1, <2>3
    <3>2. PICK f \in [0 .. m - 1 -> S] : Start(m - 1, f)
      BY <3>1
    <3> DEFINE e == [k \in 0 .. m |-> IF k = m THEN g[f[m - 1]] ELSE f[k]]
    <3>3. e \in [0 .. m -> S]
      BY <3>1
    <3>4. Start(m, e)
      <4>1. e[0] = h
        BY <3>1, <3>2
      <4>2. ASSUME NEW k \in 0 .. m - 1 PROVE e[k + 1] = g[e[k]]
        <5>1. CASE k = m - 1
          BY <3>1, <5>1
        <5>2. CASE k # m - 1
          BY <3>1, <3>2, <5>2
        <5> QED BY <5>1, <5>2
      <4> HIDE DEF e
      <4> QED BY <4>1, <4>2
    <3> HIDE DEF e, Start
    <3> QED BY <3>3, <3>4
  <2> QED BY <2>2, <2>3
<1>2. ASSUME NEW n \in Nat, NEW m \in Nat, NEW f, NEW e,
             Start(n, f), Start(m, e), n <= m
      PROVE  \A k \in 0 .. n : f[k] = e[k]
  <2> DEFINE Differ == {k \in 0 .. n : f[k] # e[k]}
  <2> SUFFICES ASSUME Differ # {} PROVE FALSE
    OBVIOUS
  <2>1. PICK d \in Differ : \A k \in Differ : d <= k
    <3>1. Differ \in SUBSET Nat
      OBVIOUS
    <3> HIDE DEF Differ
    <3> QED BY <3>1, Least
  <2>2. d # 0
    BY <1>2
  <2>3. d - 1 \in 0 .. n - 1 /\ d - 1 \in 0 .. m - 1 /\ f[d - 1] = e[d - 1]
    BY <1>2, <2>1, <2>2
  <2> QED BY <1>2, <2>3
<1> DEFINE F == [n \in Nat |-> CHOOSE f \in [0 .. n -> S] : Start(n, f)]
           at == [n \in Nat |-> F[n][n]]
<1>3. \A n \in Nat : F[n] \in [0 .. n -> S] /\ Start(n, F[n])
  <2> SUFFICES ASSUME NEW n \in Nat
               PROVE  F[n] \in [0 .. n -> S] /\ Start(n, F[n])
    OBVIOUS
  <2>1. \E f \in [0 .. n -> S] : Start(n, f)
    BY <1>1
  <2> HIDE DEF Start
  <2> QED BY <2>1
<1> HIDE DEF F, Bad
<1>4. at \in [Nat -> S]
  BY <1>3
<1>5. at[0] = h
  BY <1>3
<1>6. ASSUME NEW k \in Nat PROVE at[k + 1] = g[at[k]]
  <2>1. \A m \in 0 .. k : F[k][m] = F[k + 1][m]
    <3>1. Start(k, F[k]) /\ Start(k + 1, F[k + 1]) /\ k + 1 \in Nat /\ k <= k + 1
      BY <1>3
    <3> HIDE DEF Start
    <3> QED BY <1>2, <3>1
  <2>2. F[k + 1][k + 1] = g[F[k + 1][k]]
    BY <1>3
  <2> QED BY <2>1, <2>2
<1> HIDE DEF at
<1> QED BY <1>4, <1>5, <1>6 DEF IsPath


-----------------------------------------------------------------------------
LEMMA LessThrough ==
  ASSUME NEW a \in Nat, NEW b \in Nat, NEW c \in Nat, a < b, b < c
  PROVE  a < c
OBVIOUS

\* A walk from the first of S goes down through all of S and ends.
LEMMA WalkDown ==
  ASSUME NEW n \in Nat, NEW es, NEW S \in SUBSET (1 .. n), NEW rank \in [1 .. n -> Nat],
         IsRanked(es, S, rank), NEW h, IsTop(h, S, rank), NEW at, IsWalk(h, es, n, at)
  PROVE  \E m \in 0 .. n : GoesDown(at, m, n, S, rank)
<1> USE DEF IsRanked, IsWalk
<1>1. /\ at[0] = NULL \/ at[0] \in S
      /\ \A x \in S : rank[x] \in Nat /\ x # NULL
  BY DEF IsTop, NULL
<1>2. ASSUME NEW k \in 0 .. n - 1
      PROVE  /\ at[k] = NULL => at[k + 1] = NULL
             /\ at[k] \in S => \/ at[k + 1] = NULL
                               \/ at[k + 1] \in S /\ rank[at[k + 1]] < rank[at[k]]
  BY <1>1 DEF IsTop
<1>3. \A k \in 0 .. n : at[k] = NULL \/ at[k] \in S
  <2> DEFINE Bad == {k \in 0 .. n : ~(at[k] = NULL \/ at[k] \in S)}
  <2> SUFFICES ASSUME Bad # {} PROVE FALSE
    OBVIOUS
  <2>1. PICK k \in Bad : \A j \in Bad : k <= j
    <3>1. Bad \in SUBSET Nat
      OBVIOUS
    <3> HIDE DEF Bad
    <3> QED BY <3>1, Least
  <2>2. k # 0 /\ k \in 1 .. n
    BY <1>1, <2>1
  <2>3. k - 1 \in 0 .. n - 1 /\ (k - 1) + 1 = k /\ k - 1 \notin Bad
    BY <2>1, <2>2
  <2> QED BY <1>2, <2>1, <2>3
<1>4. ASSUME NEW k \in 0 .. n, at[k] \in S, NEW j \in 0 .. k - 1
      PROVE  at[j] \in S /\ rank[at[k]] < rank[at[j]]
  <2> DEFINE Down(l) == \A i \in 0 .. l - 1 : at[i] \in S /\ rank[at[l]] < rank[at[i]]
             Bad == {l \in 0 .. n : at[l] \in S /\ ~Down(l)}
  <2>1. ASSUME Bad # {} PROVE FALSE
    <3>1. PICK l \in Bad : \A i \in Bad : l <= i
      <4>1. Bad \in SUBSET Nat
        OBVIOUS
      <4> HIDE DEF Bad
      <4> QED BY <2>1, <4>1, Least
    <3>2. l \in 1 .. n
      BY <3>1
    <3>3. l - 1 \in 0 .. n - 1 /\ (l - 1) + 1 = l /\ l - 1 \notin Bad /\ l - 1 \in 0 .. n
      <4>1. /\ l - 1 \in 0 .. n - 1 /\ (l - 1) + 1 = l /\ l - 1 \in 0 .. n
            /\ ~(l <= l - 1)
        BY <3>2
      <4>2. l - 1 \notin Bad
        <5> HIDE DEF Bad
        <5> QED BY <3>1, <4>1
      <4> QED BY <4>1, <4>2
    <3>4. at[l] \in S /\ at[l] # NULL
      BY <1>1, <3>1
    <3>5. at[l - 1] \in S /\ rank[at[l]] < rank[at[l - 1]]
      BY <1>2, <1>3, <3>3, <3>4
    <3>6. Down(l - 1)
      BY <3>3, <3>5
    <3>7. ASSUME NEW i \in 0 .. l - 1
          PROVE  at[i] \in S /\ rank[at[l]] < rank[at[i]]
      <4>1. CASE i = l - 1
        BY <3>5, <4>1
      <4>2. CASE i # l - 1
        <5>1. i \in 0 .. (l - 1) - 1
          BY <3>2, <4>2
        <5>2. at[i] \in S /\ rank[at[l - 1]] < rank[at[i]]
          BY <3>6, <5>1
        <5>3. rank[at[l]] \in Nat /\ rank[at[l - 1]] \in Nat /\ rank[at[i]] \in Nat
          BY <1>1, <3>4, <3>5, <5>2
        <5>4. rank[at[l]] < rank[at[l - 1]] /\ rank[at[l - 1]] < rank[at[i]]
          BY <3>5, <5>2
        <5>5. rank[at[l]] < rank[at[i]]
          BY <5>3, <5>4, LessThrough
        <5> QED BY <5>2, <5>5
      <4> QED BY <4>1, <4>2
    <3> QED BY <3>1, <3>7
  <2> QED BY <1>4, <2>1
<1>5. \E k \in 0 .. n : at[k] = NULL
  <2> SUFFICES ASSUME \A k \in 0 .. n : at[k] \in S PROVE FALSE
    BY <1>3
  <2> DEFINE f == [k \in 0 .. n |-> at[k]]
  <2>1. f \in [0 .. n -> 1 .. n]
    OBVIOUS
  <2>2. ASSUME NEW j \in 0 .. n, NEW k \in 0 .. n, j # k PROVE at[j] # at[k]
    <3>1. j < k \/ k < j
      BY <2>2
    <3>2. CASE j < k
      <4>1. j \in 0 .. k - 1
        BY <3>2
      <4>2. rank[at[k]] < rank[at[j]] /\ rank[at[k]] \in Nat
        BY <1>1, <1>4, <4>1
      <4> QED BY <4>2
    <3>3. CASE k < j
      <4>1. k \in 0 .. j - 1
        BY <3>3
      <4>2. rank[at[j]] < rank[at[k]] /\ rank[at[k]] \in Nat
        BY <1>1, <1>4, <4>1
      <4> QED BY <4>2
    <3> QED BY <3>1, <3>2, <3>3
  <2>3. IsFiniteSet(0 .. n) /\ Cardinality(0 .. n) = n + 1
    <3>1. 0 \in Int /\ n \in Int /\ ~(0 > n) /\ n - 0 + 1 = n + 1
      OBVIOUS
    <3> QED BY <3>1, FS_Interval
  <2>4. IsFiniteSet(1 .. n) /\ Cardinality(1 .. n) = n
    <3>1. 1 \in Int /\ n \in Int /\ (1 > n => n = 0) /\ n - 1 + 1 = n
      OBVIOUS
    <3> QED BY <3>1, FS_Interval
  <2>5. Cardinality(1 .. n) < Cardinality(0 .. n)
    BY <2>3, <2>4
  <2>6. \E j, k \in 0 .. n : j # k /\ f[j] = f[k]
    <3> DEFINE A == 0 .. n
               B == 1 .. n
    <3> HIDE DEF f
    <3>1. f \in [A -> B] /\ IsFiniteSet(A) /\ IsFiniteSet(B) /\ Cardinality(B) < Cardinality(A)
      BY <2>1, <2>3, <2>4, <2>5
    <3> HIDE DEF A, B
    <3>2. \E j, k \in A : j # k /\ f[j] = f[k]
      BY <3>1, FS_PigeonHole
    <3> QED BY <3>2 DEF A
  <2> QED BY <2>2, <2>6
<1>6. PICK m \in 0 .. n : at[m] = NULL /\ \A k \in 0 .. n : at[k] = NULL => m <= k
  <2> DEFINE Ends == {k \in 0 .. n : at[k] = NULL}
  <2>1. Ends \in SUBSET Nat /\ Ends # {}
    BY <1>5
  <2>2. \E m \in Ends : \A k \in Ends : m <= k
    <3> HIDE DEF Ends
    <3> QED BY <2>1, Least
  <2> QED BY <2>2
<1>7. ASSUME NEW k \in 0 .. n PROVE IF k < m THEN at[k] \in S ELSE at[k] = NULL
  <2>1. CASE k < m
    BY <1>3, <1>6, <2>1
  <2>2. CASE ~(k < m)
    <3>1. CASE k = m
      BY <1>6, <2>2, <3>1
    <3>2. CASE k # m
      <4>1. m \in 0 .. k - 1
        BY <2>2, <3>2
      <4>2. at[k] \in S => at[m] \in S
        BY <1>4, <4>1
      <4> QED BY <1>1, <1>3, <1>6, <2>2, <4>2
    <3> QED BY <3>1, <3>2
  <2> QED BY <2>1, <2>2
<1>8. \A k \in 0 .. n : \A j \in 0 .. k - 1 : k < m => rank[at[k]] < rank[at[j]]
  BY <1>4, <1>7
<1>9. ASSUME NEW x \in S PROVE \E k \in 0 .. m - 1 : at[k] = x
  <2>1. m # 0 /\ at[0] \in S /\ rank[x] <= rank[at[0]]
    BY <1>1, <1>6 DEF IsTop
  <2> SUFFICES ASSUME \A k \in 0 .. m - 1 : at[k] # x PROVE FALSE
    OBVIOUS
  <2> DEFINE Bad == {k \in 0 .. m - 1 : ~(rank[x] < rank[at[k]])}
  <2>2. ASSUME NEW k \in 0 .. m - 1 PROVE at[k] \in S /\ rank[at[k]] # rank[x]
    <3>1. at[k] \in S
      BY <1>7
    <3> QED BY <3>1
  <2>3. CASE Bad = {}
    <3>1. m - 1 \in 0 .. m - 1 /\ m - 1 \in 0 .. n - 1 /\ (m - 1) + 1 = m
      BY <2>1
    <3>2. rank[x] < rank[at[m - 1]]
      BY <2>3, <3>1
    <3>3. at[m] = es[at[m - 1]].next /\ at[m - 1] \in S
      BY <1>1, <2>2, <3>1
    <3>4. x \in {y \in S : rank[y] < rank[at[m - 1]]}
      BY <3>2
    <3>5. at[m] \in S
      BY <3>3, <3>4 DEF IsTop
    <3> QED BY <1>1, <1>6, <3>5
  <2>4. CASE Bad # {}
    <3>1. PICK k \in Bad : \A j \in Bad : k <= j
      <4>1. Bad \in SUBSET Nat
        OBVIOUS
      <4> HIDE DEF Bad
      <4> QED BY <2>4, <4>1, Least
    <3>2. rank[at[k]] < rank[x] /\ k # 0
      <4>1. k \in 0 .. m - 1 /\ ~(rank[x] < rank[at[k]])
        BY <3>1
      <4>2. at[k] \in S /\ rank[at[k]] # rank[x]
        BY <2>2, <4>1
      <4>3. rank[x] \in Nat /\ rank[at[k]] \in Nat
        BY <1>1, <4>2
      <4>4. rank[at[k]] < rank[x]
        BY <4>1, <4>2, <4>3
      <4>5. k # 0
        BY <2>1, <4>3, <4>4
      <4> QED BY <4>4, <4>5
    <3>3. /\ k - 1 \in 0 .. m - 1 /\ k - 1 \in 0 .. n - 1 /\ (k - 1) + 1 = k
          /\ k - 1 \notin Bad
      BY <3>1, <3>2
    <3>4. at[k - 1] \in S /\ rank[x] < rank[at[k - 1]]
      BY <2>2, <3>3
    <3>5. at[k] = es[at[k - 1]].next
      BY <1>1, <3>3, <3>4
    <3>6. rank[x] <= rank[at[k]]
      BY <3>4, <3>5 DEF IsTop
    <3>7. rank[x] \in Nat /\ rank[at[k]] \in Nat
      BY <1>1, <2>2, <3>1
    <3> QED BY <3>2, <3>6, <3>7
  <2> QED BY <2>3, <2>4
<1> QED BY <1>7, <1>8, <1>9 DEF GoesDown

\* ListFrom gives the elements of S from the highest rank to the lowest.
LEMMA ListIs ==
  ASSUME NEW n \in Nat, entries \in [1 .. n -> EntryOf(1 .. n)],
         NEW S \in SUBSET (1 .. n), NEW rank \in [1 .. n -> Nat],
         IsRanked(entries, S, rank), NEW h, IsTop(h, S, rank)
  PROVE  IsListOf(ListFrom(h), h, S, entries)
<1> DEFINE D == 1 .. n \cup {NULL}
           g == [x \in D |-> IF x = NULL THEN NULL ELSE entries[x].next]
           walk == CHOOSE at : at = [k \in 0 .. Len(entries) |->
                     IF k = 0 THEN h
                     ELSE IF at[k - 1] = NULL THEN NULL ELSE entries[at[k - 1]].next]
<1>1. Len(entries) = n /\ entries \in Seq(EntryOf(1 .. n))
  OBVIOUS
<1>2. h \in D
  BY DEF IsTop
<1>3. g \in [D -> D]
  <2>1. \A x \in 1 .. n : entries[x].next \in D
    BY DEF EntryOf
  <2> QED BY <2>1
<1>4. PICK f \in [Nat -> D] : f[0] = h /\ \A k \in Nat : f[k + 1] = g[f[k]]
  <2> HIDE DEF D, g, walk
  <2>1. \E f \in [Nat -> D] : IsPath(f, h, g)
    BY <1>2, <1>3, WalkExists
  <2> QED BY <2>1 DEF IsPath
<1> DEFINE at == [k \in 0 .. n |-> f[k]]
<1>5. at = [k \in 0 .. Len(entries) |->
              IF k = 0 THEN h
              ELSE IF at[k - 1] = NULL THEN NULL ELSE entries[at[k - 1]].next]
  <2>1. ASSUME NEW k \in 0 .. n
        PROVE  at[k] = IF k = 0 THEN h
                       ELSE IF at[k - 1] = NULL THEN NULL ELSE entries[at[k - 1]].next
    <3>1. CASE k = 0
      BY <1>4, <3>1
    <3>2. CASE k # 0
      <4>1. k - 1 \in Nat /\ k - 1 \in 0 .. n /\ (k - 1) + 1 = k
        BY <3>2
      <4>2. f[k] = g[f[k - 1]] /\ f[k - 1] \in D
        BY <1>4, <4>1
      <4>3. at[k] = f[k] /\ at[k - 1] = f[k - 1]
        BY <4>1
      <4> HIDE DEF at
      <4> QED BY <3>2, <4>2, <4>3
    <3> QED BY <3>1, <3>2
  <2> QED BY <1>1, <2>1
<1>6. walk = [k \in 0 .. Len(entries) |->
                IF k = 0 THEN h
                ELSE IF walk[k - 1] = NULL THEN NULL ELSE entries[walk[k - 1]].next]
  <2> HIDE DEF at
  <2> QED BY <1>5
<1>7. ListFrom(h) =
        [k \in 1 .. Cardinality({j \in DOMAIN walk : walk[j] # NULL}) |-> walk[k - 1]]
  BY DEF ListFrom
<1> HIDE DEF walk, at, g
<1>8. DOMAIN walk = 0 .. n /\ walk[0] = h
  BY <1>1, <1>6
<1>9. ASSUME NEW k \in 0 .. n - 1
      PROVE  walk[k + 1] = IF walk[k] = NULL THEN NULL ELSE entries[walk[k]].next
  <2>1. k + 1 \in 0 .. n /\ k + 1 # 0 /\ (k + 1) - 1 = k
    OBVIOUS
  <2> QED BY <1>1, <1>6, <2>1
<1>10. PICK m \in 0 .. n : GoesDown(walk, m, n, S, rank)
  <2>1. IsWalk(h, entries, n, walk)
    BY <1>8, <1>9 DEF IsWalk
  <2> QED BY <2>1, WalkDown
<1>11. \A k \in 0 .. m - 1 : k \in 0 .. n /\ walk[k] \in S /\ walk[k] # NULL
  BY <1>10 DEF GoesDown, NULL
<1>12. {j \in DOMAIN walk : walk[j] # NULL} = 0 .. m - 1
  BY <1>8, <1>10, <1>11 DEF GoesDown
<1>13. Cardinality(0 .. m - 1) = m
  <2>1. 0 \in Int /\ m - 1 \in Int /\ (0 > m - 1 => m = 0) /\ (m - 1) - 0 + 1 = m
    OBVIOUS
  <2> QED BY <2>1, FS_Interval
<1> DEFINE s == ListFrom(h)
<1>14. s = [k \in 1 .. m |-> walk[k - 1]]
  BY <1>7, <1>12, <1>13
<1> HIDE DEF s
<1>15. \A k \in 1 .. m : k - 1 \in 0 .. m - 1
  OBVIOUS
<1>16. s \in [1 .. m -> S]
  BY <1>11, <1>14, <1>15
<1>17. s \in Seq(S) /\ Len(s) = m /\ DOMAIN s = 1 .. m
  BY <1>16
<1>18. ToSet(s) = S
  <2>1. ASSUME NEW x \in S PROVE \E k \in 1 .. m : s[k] = x
    <3>1. PICK k \in 0 .. m - 1 : walk[k] = x
      BY <1>10 DEF GoesDown
    <3>2. k + 1 \in 1 .. m /\ (k + 1) - 1 = k
      OBVIOUS
    <3> QED BY <1>14, <3>1, <3>2
  <2>2. ToSet(s) = {s[k] : k \in 1 .. m}
    BY <1>17 DEF ToSet
  <2>3. S \subseteq {s[k] : k \in 1 .. m}
    BY <2>1
  <2>4. {s[k] : k \in 1 .. m} \subseteq S
    BY <1>16
  <2> QED BY <2>2, <2>3, <2>4
<1>19. ASSUME NEW j \in 1 .. m, NEW k \in 1 .. m, j < k PROVE s[j] # s[k]
  <2>1. k - 1 \in 0 .. n /\ k - 1 < m /\ j - 1 \in 0 .. (k - 1) - 1
    BY <1>19
  <2>2. rank[walk[k - 1]] < rank[walk[j - 1]]
    BY <1>10, <2>1 DEF GoesDown
  <2>3. rank[walk[k - 1]] \in Nat
    BY <1>11, <1>15
  <2>4. walk[k - 1] # walk[j - 1]
    BY <2>2, <2>3
  <2> QED BY <1>14, <2>4
<1>20. IsInjective(s)
  <2>1. ASSUME NEW j \in 1 .. m, NEW k \in 1 .. m, s[j] = s[k] PROVE j = k
    <3>1. j < k \/ k < j \/ j = k
      OBVIOUS
    <3> QED BY <1>19, <2>1, <3>1
  <2> QED BY <1>17, <2>1 DEF IsInjective
<1>21. ASSUME NEW i \in 1 .. m
       PROVE  entries[s[i]].next = IF i = m THEN NULL ELSE s[i + 1]
  <2>1. i - 1 \in 0 .. n - 1 /\ i - 1 \in 0 .. m - 1 /\ (i - 1) + 1 = i
    OBVIOUS
  <2>2. walk[i] = entries[walk[i - 1]].next
    BY <1>9, <1>11, <2>1
  <2>3. s[i] = walk[i - 1]
    BY <1>14
  <2>4. CASE i = m
    <3>1. walk[i] = NULL
      BY <1>10, <2>4 DEF GoesDown
    <3> QED BY <2>2, <2>3, <2>4, <3>1
  <2>5. CASE i # m
    <3>1. i + 1 \in 1 .. m /\ (i + 1) - 1 = i
      BY <2>5
    <3>2. s[i + 1] = walk[i]
      BY <1>14, <3>1
    <3> QED BY <2>2, <2>3, <2>5, <3>2
  <2> QED BY <2>4, <2>5
<1>22. IF s = <<>> THEN h = NULL ELSE s[1] = h
  <2>1. CASE m = 0
    BY <1>8, <1>10, <1>17, <2>1 DEF GoesDown
  <2>2. CASE m # 0
    <3>1. 1 \in 1 .. m /\ 1 - 1 = 0 /\ s # <<>>
      BY <1>17, <2>2
    <3>2. s[1] = walk[0]
      BY <1>14, <3>1
    <3> QED BY <1>8, <3>1, <3>2
  <2> QED BY <2>1, <2>2
<1> QED BY <1>17, <1>18, <1>20, <1>21, <1>22 DEF s, IsListOf

-----------------------------------------------------------------------------
LEMMA AppendAgain ==
  ASSUME NEW R, NEW s \in Seq(R), NEW a \in R, NEW b \in R
  PROVE  /\ Append(s, a)[Len(s) + 1] = a
         /\ [Append(s, a) EXCEPT ![Len(s) + 1] = b] = Append(s, b)
<1> DEFINE n == Len(s)
           t == Append(s, a)
           u == Append(s, b)
<1>1. /\ n \in Nat /\ t \in Seq(R) /\ u \in Seq(R) /\ Len(t) = n + 1 /\ Len(u) = n + 1
      /\ t[n + 1] = a /\ u[n + 1] = b /\ \A i \in 1 .. n : t[i] = u[i]
  OBVIOUS
<1> HIDE DEF t, u, n
<1>2. /\ t = [i \in 1 .. n + 1 |-> t[i]] /\ u = [i \in 1 .. n + 1 |-> u[i]]
  BY <1>1
<1>3. ASSUME NEW i \in 1 .. n + 1 PROVE [t EXCEPT ![n + 1] = b][i] = u[i]
  <2>1. CASE i = n + 1
    BY <1>1, <1>2, <2>1
  <2>2. CASE i # n + 1
    <3>1. i \in 1 .. n
      BY <1>1, <2>2
    <3> QED BY <1>1, <1>2, <2>2, <3>1
  <2> QED BY <2>1, <2>2
<1>4. [t EXCEPT ![n + 1] = b] = [i \in 1 .. n + 1 |-> [t EXCEPT ![n + 1] = b][i]]
  BY <1>2
<1>5. [t EXCEPT ![n + 1] = b] = u
  BY <1>2, <1>3, <1>4
<1> QED BY <1>1, <1>5 DEF t, u, n

\* A sequence behind another.
LEMMA Concatenated ==
  ASSUME NEW E, NEW p \in Seq(E), NEW q \in Seq(E)
  PROVE  /\ p \o q \in Seq(E)
         /\ ToSet(p \o q) = ToSet(p) \cup ToSet(q)
         /\ IsInjective(p) /\ IsInjective(q) /\ ToSet(p) \cap ToSet(q) = {}
              => IsInjective(p \o q)
<1> DEFINE r == p \o q
           l == Len(p)
           k == Len(q)
<1>1. /\ r \in Seq(E) /\ l \in Nat /\ k \in Nat
      /\ DOMAIN p = 1 .. l /\ DOMAIN q = 1 .. k /\ DOMAIN r = 1 .. l + k
      /\ \A i \in 1 .. l + k : r[i] = IF i <= l THEN p[i] ELSE q[i - l]
  OBVIOUS
<1> HIDE DEF r, l, k
<1>2. \A i \in 1 .. l + k : i <= l => i \in 1 .. l
  BY <1>1
<1>3. \A i \in 1 .. l + k : ~(i <= l) => i - l \in 1 .. k
  BY <1>1
<1>4. ToSet(r) \subseteq ToSet(p) \cup ToSet(q)
  BY <1>1, <1>2, <1>3 DEF ToSet
<1>5. ToSet(p) \subseteq ToSet(r)
  <2>1. \A i \in 1 .. l : i \in 1 .. l + k /\ i <= l
    BY <1>1
  <2> QED BY <1>1, <2>1 DEF ToSet
<1>6. ToSet(q) \subseteq ToSet(r)
  <2>1. \A i \in 1 .. k : l + i \in 1 .. l + k /\ ~(l + i <= l) /\ (l + i) - l = i
    BY <1>1
  <2>2. \A i \in 1 .. k : r[l + i] = q[i]
    BY <1>1, <2>1
  <2>3. ASSUME NEW i \in 1 .. k PROVE q[i] \in ToSet(r)
    BY <1>1, <2>1, <2>2 DEF ToSet
  <2> QED BY <1>1, <2>3 DEF ToSet
<1>7. ASSUME IsInjective(p), IsInjective(q), ToSet(p) \cap ToSet(q) = {},
             NEW i \in 1 .. l + k, NEW j \in 1 .. l + k, r[i] = r[j]
      PROVE  i = j
  <2>1. i \in Int /\ j \in Int /\ l \in Int
    BY <1>1
  <2>2. CASE i <= l /\ j <= l
    <3>1. i \in 1 .. l /\ j \in 1 .. l /\ p[i] = p[j]
      BY <1>1, <1>2, <1>7, <2>2
    <3> QED BY <1>1, <1>7, <3>1 DEF IsInjective
  <2>3. CASE ~(i <= l) /\ ~(j <= l)
    <3>1. i - l \in 1 .. k /\ j - l \in 1 .. k /\ q[i - l] = q[j - l]
      BY <1>1, <1>3, <1>7, <2>3
    <3>2. i - l = j - l
      BY <1>1, <1>7, <3>1 DEF IsInjective
    <3> QED BY <2>1, <3>2
  <2>4. ASSUME NEW a \in 1 .. l, NEW b \in 1 .. k, p[a] = q[b] PROVE FALSE
    <3>1. p[a] \in ToSet(p) /\ q[b] \in ToSet(q)
      BY <1>1 DEF ToSet
    <3> QED BY <1>7, <2>4, <3>1
  <2>5. CASE i <= l /\ ~(j <= l)
    <3>1. i \in 1 .. l /\ j - l \in 1 .. k /\ p[i] = q[j - l]
      BY <1>1, <1>2, <1>3, <1>7, <2>5
    <3> QED BY <2>4, <3>1
  <2>6. CASE ~(i <= l) /\ j <= l
    <3>1. j \in 1 .. l /\ i - l \in 1 .. k /\ p[j] = q[i - l]
      BY <1>1, <1>2, <1>3, <1>7, <2>6
    <3> QED BY <2>4, <3>1
  <2> QED BY <2>2, <2>3, <2>5, <2>6
<1>8. IsInjective(p) /\ IsInjective(q) /\ ToSet(p) \cap ToSet(q) = {} => IsInjective(r)
  BY <1>1, <1>7 DEF IsInjective
<1> QED BY <1>1, <1>4, <1>5, <1>6, <1>8 DEF r

\* FlattenSeq puts the sequences of cs one behind the other: it has their
\* elements, each once if none of them has one twice or one of another.
LEMMA FlattenIs ==
  ASSUME NEW E, NEW cs \in Seq(Seq(E)),
         \A b \in DOMAIN cs : IsInjective(cs[b]),
         \A b, c \in DOMAIN cs : b # c => ToSet(cs[b]) \cap ToSet(cs[c]) = {}
  PROVE  /\ FlattenSeq(cs) \in Seq(E)
         /\ ToSet(FlattenSeq(cs)) = UNION {ToSet(cs[b]) : b \in DOMAIN cs}
         /\ IsInjective(FlattenSeq(cs))
<1> DEFINE n == Len(cs)
<1>1. n \in Nat /\ DOMAIN cs = 1 .. n /\ \A b \in 1 .. n : cs[b] \in Seq(E)
  OBVIOUS
<1> HIDE DEF n
<1>2. CASE n = 0
  <2>1. FlattenSeq(cs) = cs /\ cs = <<>>
    BY <1>1, <1>2 DEF FlattenSeq, n
  <2> QED BY <1>1, <1>2, <2>1 DEF ToSet, IsInjective
<1>3. CASE n # 0
  <2> DEFINE flat == CHOOSE flat : flat = [i \in 1 .. n |->
                       IF i = 1 THEN cs[i] ELSE flat[i - 1] \o cs[i]]
  <2>1. FlattenSeq(cs) = flat[n]
    BY <1>3 DEF FlattenSeq, n
  \* A walk through pairs of an index and the sequence so far.
  <2> DEFINE D == (Nat \X Seq(E))
             g == [p \in D |-> IF p[1] + 1 \in 1 .. n
                               THEN <<p[1] + 1, p[2] \o cs[p[1] + 1]>> ELSE p]
  <2>2. g \in [D -> D]
    <3>1. ASSUME NEW p \in D PROVE g[p] \in D
      <4>1. CASE p[1] + 1 \in 1 .. n
        <5>1. p[1] + 1 \in Nat /\ p[2] \o cs[p[1] + 1] \in Seq(E)
          BY <1>1, <4>1
        <5> QED BY <4>1, <5>1
      <4>2. CASE ~(p[1] + 1 \in 1 .. n)
        BY <4>2
      <4> QED BY <4>1, <4>2
    <3>2. g = [p \in D |-> g[p]]
      OBVIOUS
    <3> HIDE DEF g, D
    <3> QED BY <3>1, <3>2
  <2> DEFINE start == <<1, cs[1]>>
  <2>3. start \in D
    BY <1>1, <1>3
  <2>4. PICK at \in [Nat -> D] : at[0] = start /\ \A k \in Nat : at[k + 1] = g[at[k]]
    <3> HIDE DEF D, g, start, flat
    <3>1. \E at \in [Nat -> D] : IsPath(at, start, g)
      BY <2>2, <2>3, WalkExists
    <3> QED BY <3>1 DEF IsPath
  <2>5. ASSUME NEW k \in 0 .. n - 1 PROVE at[k][1] = k + 1
    <3> DEFINE Bad == {j \in 0 .. n - 1 : at[j][1] # j + 1}
    <3>1. ASSUME Bad # {} PROVE FALSE
      <4>1. PICK j \in Bad : \A i \in Bad : j <= i
        <5>1. Bad \in SUBSET Nat
          BY <1>1
        <5> HIDE DEF Bad
        <5> QED BY <3>1, <5>1, Least
      <4>2. j # 0
        BY <2>4, <4>1
      <4>3. j - 1 \in 0 .. n - 1 /\ (j - 1) + 1 = j /\ j - 1 \notin Bad /\ j \in 1 .. n /\ j + 1 \in 1 .. n
        BY <1>1, <4>1, <4>2
      <4>4. at[j] = g[at[j - 1]] /\ at[j - 1][1] = j /\ at[j - 1] \in D
        <5>1. j - 1 \in Nat /\ at[(j - 1) + 1] = g[at[j - 1]]
          <6> HIDE DEF D, g, flat, Bad
          <6>1. j - 1 \in Nat
            BY <1>1, <4>3
          <6> QED BY <2>4, <6>1
        <5>2. at[j - 1][1] = (j - 1) + 1
          BY <4>3
        <5> HIDE DEF D, g, flat, Bad
        <5> QED BY <4>3, <5>1, <5>2
      <4>5. at[j] = <<j + 1, at[j - 1][2] \o cs[j + 1]>>
        BY <4>3, <4>4
      <4> QED BY <4>1, <4>5
    <3> HIDE DEF D, g
    <3> QED BY <3>1
  <2> DEFINE f == [i \in 1 .. n |-> at[i - 1][2]]
  <2>6. f = [i \in 1 .. n |-> IF i = 1 THEN cs[i] ELSE f[i - 1] \o cs[i]]
    <3>1. ASSUME NEW i \in 1 .. n
          PROVE  f[i] = IF i = 1 THEN cs[i] ELSE f[i - 1] \o cs[i]
      <4>1. ASSUME i = 1 PROVE f[i] = cs[i]
        <5>1. f[1] = at[0][2]
          BY <4>1
        <5>2. at[0] = <<1, cs[1]>>
          BY <2>4
        <5> HIDE DEF f, D, g, flat
        <5> QED BY <4>1, <5>1, <5>2
      <4>2. ASSUME i # 1 PROVE f[i] = f[i - 1] \o cs[i]
        <5>1. i - 2 \in Nat /\ i - 2 \in 0 .. n - 1 /\ (i - 2) + 1 = i - 1 /\ i - 1 \in 1 .. n
              /\ (i - 1) - 1 = i - 2
          BY <1>1, <4>2
        <5>2. at[i - 2][1] = i - 1 /\ at[i - 1] = g[at[i - 2]] /\ at[i - 2] \in D
          <6>1. at[i - 2][1] = (i - 2) + 1 /\ at[(i - 2) + 1] = g[at[i - 2]]
            BY <2>4, <2>5, <5>1
          <6> QED BY <2>4, <5>1, <6>1
        <5>3. (i - 1) + 1 = i
          BY <1>1
        <5>4. at[i - 1] = <<i, at[i - 2][2] \o cs[i]>>
          BY <5>2, <5>3
        <5>5. f[i] = at[i - 1][2] /\ f[i - 1] = at[i - 2][2]
          BY <5>1
        <5>6. at[i - 1][2] = at[i - 2][2] \o cs[i]
          <6> DEFINE longer == at[i - 2][2] \o cs[i]
          <6>1. at[i - 1] = <<i, longer>>
            BY <5>4
          <6> HIDE DEF longer
          <6>2. at[i - 1][2] = longer
            BY <6>1
          <6> QED BY <6>2 DEF longer
        <5> HIDE DEF f, D, g, flat, start
        <5> QED BY <5>5, <5>6
      <4> HIDE DEF f
      <4> QED BY <4>1, <4>2
    <3>2. f = [i \in 1 .. n |-> f[i]]
      OBVIOUS
    <3> HIDE DEF D, g, f
    <3> QED BY <3>1, <3>2
  <2>7. flat = [i \in 1 .. n |-> IF i = 1 THEN cs[i] ELSE flat[i - 1] \o cs[i]]
    <3> HIDE DEF f
    <3> QED BY <2>6
  <2> HIDE DEF flat, f, D, g
  <2> DEFINE Good(i) == /\ flat[i] \in Seq(E)
                        /\ ToSet(flat[i]) = UNION {ToSet(cs[b]) : b \in 1 .. i}
                        /\ IsInjective(flat[i])
             Bad == {i \in 1 .. n : ~Good(i)}
  <2>8. flat[1] = cs[1] /\ \A i \in 2 .. n : flat[i] = flat[i - 1] \o cs[i]
    <3>1. 1 \in 1 .. n /\ \A i \in 2 .. n : i \in 1 .. n /\ i # 1
      BY <1>1, <1>3
    <3>2. \A i \in 1 .. n : flat[i] = IF i = 1 THEN cs[i] ELSE flat[i - 1] \o cs[i]
      BY <2>7
    <3> QED BY <3>1, <3>2
  <2>9. Good(1)
    <3>1. 1 \in 1 .. n /\ {b \in 1 .. 1 : TRUE} = {1}
      BY <1>1, <1>3
    <3>2. UNION {ToSet(cs[b]) : b \in 1 .. 1} = ToSet(cs[1])
      OBVIOUS
    <3> QED BY <1>1, <2>8, <3>1, <3>2
  <2>10. ASSUME NEW i \in 2 .. n, Good(i - 1) PROVE Good(i)
    <3> DEFINE p == flat[i - 1]
               q == cs[i]
               r == flat[i]
    <3>0. i \in 1 .. n
      BY <1>1
    <3>1. p \in Seq(E) /\ q \in Seq(E) /\ r = p \o q /\ IsInjective(p) /\ IsInjective(q)
      BY <1>1, <2>8, <2>10, <3>0
    <3>2. ToSet(p) = UNION {ToSet(cs[b]) : b \in 1 .. i - 1}
      BY <2>10
    <3>3. ToSet(p) \cap ToSet(q) = {}
      <4>1. \A b \in 1 .. i - 1 : b \in 1 .. n /\ b # i
        BY <1>1
      <4>2. \A b \in 1 .. i - 1 : ToSet(cs[b]) \cap ToSet(q) = {}
        <5>1. DOMAIN cs = 1 .. n /\ \A b, c \in DOMAIN cs :
                b # c => ToSet(cs[b]) \cap ToSet(cs[c]) = {}
          BY <1>1
        <5>2. i \in DOMAIN cs /\ \A b \in 1 .. i - 1 : b \in DOMAIN cs /\ b # i
          BY <3>0, <4>1, <5>1
        <5> HIDE DEF n
        <5> QED BY <5>1, <5>2
      <4> HIDE DEF p, q
      <4> QED BY <3>2, <4>2
    <3>4. UNION {ToSet(cs[b]) : b \in 1 .. i} = ToSet(p) \cup ToSet(q)
      <4>1. 1 .. i = (1 .. i - 1) \cup {i}
        BY <1>1
      <4> HIDE DEF p
      <4> QED BY <3>2, <4>1
    <3> HIDE DEF p, q, r
    <3>5. r \in Seq(E) /\ ToSet(r) = ToSet(p) \cup ToSet(q) /\ IsInjective(r)
      BY <3>1, <3>3, Concatenated
    <3> QED BY <3>4, <3>5 DEF r
  <2>11. Bad = {}
    <3> SUFFICES ASSUME Bad # {} PROVE FALSE
      OBVIOUS
    <3>1. PICK i \in Bad : \A j \in Bad : i <= j
      <4>1. Bad \in SUBSET Nat
        BY <1>1
      <4> HIDE DEF Bad
      <4> QED BY <4>1, Least
    <3> HIDE DEF Good
    <3>2. i \in 2 .. n /\ i - 1 \in 1 .. n /\ i - 1 \notin Bad
      BY <1>1, <2>9, <3>1
    <3> QED BY <2>10, <3>1, <3>2
  <2>12. n \in 1 .. n
    BY <1>1, <1>3
  <2> HIDE DEF Good
  <2>13. Good(n)
    BY <2>11, <2>12
  <2> QED BY <1>1, <2>1, <2>13 DEF Good
<1> QED BY <1>2, <1>3

-----------------------------------------------------------------------------
(***************************************************************************)
(* The invariant.  Every entry has a place: a bucket, the free list, or    *)
(* none (it was cut off).  The entries of a place are ranked by the time   *)
(* when they were put there, and a list goes from the last to the first.   *)
(***************************************************************************)
Free == -1
Lost == -2

At(place, p) == {x \in DOMAIN place : place[x] = p}
Chained(place) == {x \in DOMAIN place : place[x] \in Nat}

Typed(n, c, es, bs, place, rank, top) ==
  /\ n \in Nat /\ c \in Nat /\ top \in Nat
  /\ es \in [1 .. n -> EntryOf(1 .. n)]
  /\ bs \in [0 .. c - 1 -> 1 .. n \cup {NULL}]
  /\ place \in [1 .. n -> 0 .. c - 1 \cup {Free, Lost}]
  /\ rank \in [1 .. n -> 0 .. top]

Linked(es, bs, free, place, rank) ==
  /\ \A p \in DOMAIN bs \cup {Free} : IsRanked(es, At(place, p), rank)
  /\ \A b \in DOMAIN bs : IsTop(bs[b], At(place, b), rank)
  /\ IsTop(free, At(place, Free), rank)

LinkedBack(es, place) ==
  \A x \in Chained(place) :
    \/ es[x].prev = NULL
    \/ es[x].prev \in At(place, place[x]) /\ es[es[x].prev].next = x

\* The chained entries hold what the client means, each in the bucket of its key.
Keyed(es, c, place, cont) ==
  /\ \A x \in Chained(place) : /\ BucketOf(es[x].key, c) = place[x]
                               /\ cont[es[x].key] = es[x].value
  /\ \A x, y \in Chained(place) : es[x].key = es[y].key => x = y

\* No entry is lost, and every key that the client means has one.
Complete(es, place, cont) ==
  /\ \A x \in DOMAIN place : place[x] # Lost
  /\ \A k \in Keys : cont[k] # NULL => \E x \in Chained(place) : es[x].key = k

Sound(n, c, es, bs, free, place, rank, top, cont, whole) ==
  /\ Typed(n, c, es, bs, place, rank, top)
  /\ Linked(es, bs, free, place, rank)
  /\ LinkedBack(es, place)
  /\ Keyed(es, c, place, cont)
  /\ whole => Complete(es, place, cont)

NoKey(es, place, k) == \A x \in Chained(place) : es[x].key # k

-----------------------------------------------------------------------------
LEMMA Counted ==
  ASSUME NEW c \in Nat
  PROVE  IsFiniteSet(0 .. c - 1) /\ Cardinality(0 .. c - 1) = c
<1>1. 0 \in Int /\ c - 1 \in Int /\ (0 > c - 1 => c = 0) /\ (c - 1) - 0 + 1 = c
  OBVIOUS
<1> QED BY <1>1, FS_Interval

\* What the invariant says of places, one by one.
LEMMA PlaceFacts ==
  ASSUME NEW n, NEW c, NEW es, NEW bs, NEW place, NEW rank, NEW top,
         Typed(n, c, es, bs, place, rank, top)
  PROVE  /\ n \in Nat /\ c \in Nat /\ top \in Nat
         /\ DOMAIN es = 1 .. n /\ DOMAIN place = 1 .. n /\ DOMAIN rank = 1 .. n
         /\ DOMAIN bs = 0 .. c - 1
         /\ \A p : At(place, p) \in SUBSET (1 .. n)
         /\ Chained(place) = {x \in 1 .. n : place[x] \in 0 .. c - 1}
         /\ Chained(place) = UNION {At(place, b) : b \in 0 .. c - 1}
         /\ rank \in [1 .. n -> Nat]
         /\ \A x \in 1 .. n : /\ rank[x] \in 0 .. top /\ x # NULL
                              /\ place[x] \in 0 .. c - 1 \cup {Free, Lost}
                              /\ es[x] \in EntryOf(1 .. n)
<1>1. /\ n \in Nat /\ c \in Nat /\ top \in Nat
      /\ DOMAIN es = 1 .. n /\ DOMAIN place = 1 .. n /\ DOMAIN rank = 1 .. n
      /\ DOMAIN bs = 0 .. c - 1 /\ rank \in [1 .. n -> Nat]
  BY DEF Typed
<1>2. \A x \in 1 .. n : /\ rank[x] \in 0 .. top /\ x # NULL
                        /\ place[x] \in 0 .. c - 1 \cup {Free, Lost}
                        /\ es[x] \in EntryOf(1 .. n)
  BY DEF Typed, NULL
<1>3. \A p : At(place, p) \in SUBSET (1 .. n)
  BY <1>1 DEF At
<1>4. Chained(place) = {x \in 1 .. n : place[x] \in 0 .. c - 1}
  <2>1. \A x \in 1 .. n : place[x] \in Nat <=> place[x] \in 0 .. c - 1
    BY <1>1, <1>2 DEF Free, Lost
  <2> QED BY <1>1, <2>1 DEF Chained
<1>5. Chained(place) = UNION {At(place, b) : b \in 0 .. c - 1}
  BY <1>1, <1>4 DEF At
<1> QED BY <1>1, <1>2, <1>3, <1>4, <1>5

\* The lists of the map.
LEMMA ListsAre ==
  ASSUME NEW n, NEW c, NEW place, NEW rank, NEW top,
         Typed(n, c, entries, m_buckets, place, rank, top),
         Linked(entries, m_buckets, m_free_entries, place, rank)
  PROVE  /\ \A b \in 0 .. c - 1 : IsListOf(Chain(b), m_buckets[b], At(place, b), entries)
         /\ IsListOf(ListFrom(m_free_entries), m_free_entries, At(place, Free), entries)
<1>1. /\ n \in Nat /\ rank \in [1 .. n -> Nat] /\ DOMAIN m_buckets = 0 .. c - 1
      /\ \A p : At(place, p) \in SUBSET (1 .. n)
  BY PlaceFacts
<1>2. entries \in [1 .. n -> EntryOf(1 .. n)]
  BY DEF Typed
<1>3. ASSUME NEW b \in 0 .. c - 1
      PROVE  IsListOf(Chain(b), m_buckets[b], At(place, b), entries)
  <2>1. At(place, b) \in SUBSET (1 .. n)
    BY <1>1
  <2>2. IsRanked(entries, At(place, b), rank) /\ IsTop(m_buckets[b], At(place, b), rank)
    BY <1>1 DEF Linked
  <2>3. IsListOf(ListFrom(m_buckets[b]), m_buckets[b], At(place, b), entries)
    BY <1>1, <1>2, <2>1, <2>2, ListIs
  <2> QED BY <2>3 DEF Chain
<1>4. IsListOf(ListFrom(m_free_entries), m_free_entries, At(place, Free), entries)
  <2>1. At(place, Free) \in SUBSET (1 .. n)
    BY <1>1
  <2>2. IsRanked(entries, At(place, Free), rank) /\ IsTop(m_free_entries, At(place, Free), rank)
    BY <1>1 DEF Linked
  <2> QED BY <1>1, <1>2, <2>1, <2>2, ListIs
<1> QED BY <1>3, <1>4

\* All chains, bucket by bucket, have every chained entry once.
LEMMA WalkedIs ==
  ASSUME NEW n, NEW c, NEW place, NEW rank, NEW top,
         Typed(n, c, entries, m_buckets, place, rank, top),
         Linked(entries, m_buckets, m_free_entries, place, rank)
  PROVE  /\ m_bucket_count = c
         /\ Walked \in Seq(1 .. n)
         /\ ToSet(Walked) = Chained(place)
         /\ IsInjective(Walked)
<1>1. /\ n \in Nat /\ c \in Nat /\ DOMAIN m_buckets = 0 .. c - 1
      /\ Chained(place) = UNION {At(place, b) : b \in 0 .. c - 1}
      /\ \A p : At(place, p) \in SUBSET (1 .. n)
  BY PlaceFacts
<1>2. m_bucket_count = c
  BY <1>1, Counted DEF m_bucket_count
<1> DEFINE cs == [b \in 1 .. c |-> Chain(b - 1)]
<1>3. Walked = FlattenSeq(cs)
  BY <1>2 DEF Walked
<1>4. ASSUME NEW b \in 1 .. c
      PROVE  cs[b] \in Seq(1 .. n) /\ ToSet(cs[b]) = At(place, b - 1) /\ IsInjective(cs[b])
  <2>1. b - 1 \in 0 .. c - 1
    BY <1>1
  <2>2. IsListOf(Chain(b - 1), m_buckets[b - 1], At(place, b - 1), entries)
    BY <2>1, ListsAre
  <2>3. At(place, b - 1) \in SUBSET (1 .. n)
    BY <1>1
  <2>4. cs[b] = Chain(b - 1)
    OBVIOUS
  <2>5. Chain(b - 1) \in Seq(1 .. n)
    <3> DEFINE E == 1 .. n
               S == At(place, b - 1)
               s == Chain(b - 1)
    <3>1. S \subseteq E /\ s \in Seq(S)
      BY <2>2, <2>3 DEF IsListOf
    <3> HIDE DEF E, S, s
    <3>2. s \in Seq(E)
      BY <3>1
    <3> QED BY <3>2 DEF E, s
  <2> HIDE DEF cs
  <2> QED BY <2>2, <2>4, <2>5 DEF IsListOf
<1>5. cs \in Seq(Seq(1 .. n)) /\ DOMAIN cs = 1 .. c
  <2>1. cs = [b \in 1 .. c |-> cs[b]] /\ DOMAIN cs = 1 .. c
    OBVIOUS
  <2> HIDE DEF cs
  <2>2. cs \in [1 .. c -> Seq(1 .. n)]
    BY <1>4, <2>1
  <2> QED BY <1>1, <2>1, <2>2
<1> HIDE DEF cs
<1>6. \A b \in DOMAIN cs : IsInjective(cs[b])
  BY <1>4, <1>5
<1>7. ASSUME NEW b \in DOMAIN cs, NEW d \in DOMAIN cs, b # d
      PROVE  ToSet(cs[b]) \cap ToSet(cs[d]) = {}
  <2>1. b - 1 # d - 1
    BY <1>5, <1>7
  <2>2. At(place, b - 1) \cap At(place, d - 1) = {}
    BY <2>1 DEF At
  <2>3. ToSet(cs[b]) = At(place, b - 1) /\ ToSet(cs[d]) = At(place, d - 1)
    <3>1. b \in 1 .. c /\ d \in 1 .. c
      BY <1>5
    <3> QED BY <1>4, <3>1
  <2> QED BY <2>2, <2>3
<1>8. /\ FlattenSeq(cs) \in Seq(1 .. n) /\ IsInjective(FlattenSeq(cs))
      /\ ToSet(FlattenSeq(cs)) = UNION {ToSet(cs[b]) : b \in DOMAIN cs}
  <2> DEFINE E == 1 .. n
  <2>1. cs \in Seq(Seq(E))
    BY <1>5
  <2> HIDE DEF E
  <2>2. /\ FlattenSeq(cs) \in Seq(E) /\ IsInjective(FlattenSeq(cs))
        /\ ToSet(FlattenSeq(cs)) = UNION {ToSet(cs[b]) : b \in DOMAIN cs}
    BY <1>6, <1>7, <2>1, FlattenIs
  <2> QED BY <2>2 DEF E
<1>9. UNION {ToSet(cs[b]) : b \in DOMAIN cs} = UNION {At(place, b) : b \in 0 .. c - 1}
  <2>1. UNION {ToSet(cs[b]) : b \in DOMAIN cs} = UNION {At(place, b - 1) : b \in 1 .. c}
    <3>1. \A b \in 1 .. c : ToSet(cs[b]) = At(place, b - 1)
      BY <1>4
    <3>2. {ToSet(cs[b]) : b \in 1 .. c} = {At(place, b - 1) : b \in 1 .. c}
      BY <3>1
    <3> QED BY <1>5, <3>2
  <2>2. \A b \in 0 .. c - 1 : b + 1 \in 1 .. c /\ (b + 1) - 1 = b
    BY <1>1
  <2>3. \A b \in 1 .. c : b - 1 \in 0 .. c - 1
    BY <1>1
  <2>4. {At(place, b - 1) : b \in 1 .. c} = {At(place, b) : b \in 0 .. c - 1}
    BY <2>2, <2>3
  <2> QED BY <2>1, <2>4
<1> QED BY <1>1, <1>2, <1>3, <1>8, <1>9

-----------------------------------------------------------------------------
\* What the invariant says in a state.
SoundNow(n, c, place, rank, top) ==
  Sound(n, c, entries, m_buckets, m_free_entries, place, rank, top, content, intact)

\* The search of a bucket finds the entry of the key if there is one.
LEMMA LookupIs ==
  ASSUME HashMapAssumption, m_hash_fn \in [Keys -> Hashes],
         NEW n, NEW c, NEW place, NEW rank, NEW top, SoundNow(n, c, place, rank, top),
         NEW k \in Keys
  PROVE  IF Exists(k) THEN Lookup(k) \in Chained(place) /\ entries[Lookup(k)].key = k
         ELSE NoKey(entries, place, k)
<1>1. /\ Typed(n, c, entries, m_buckets, place, rank, top)
      /\ Linked(entries, m_buckets, m_free_entries, place, rank)
      /\ Keyed(entries, c, place, content)
  BY DEF SoundNow, Sound
<1>2. /\ n \in Nat /\ c \in Nat /\ DOMAIN place = 1 .. n
      /\ Chained(place) = {x \in 1 .. n : place[x] \in 0 .. c - 1}
      /\ \A x \in 1 .. n : x # NULL
  BY <1>1, PlaceFacts
<1>3. m_bucket_count = c
  BY <1>1, WalkedIs
<1>4. CASE c = 0
  <2>1. Chained(place) = {}
    BY <1>2, <1>4
  <2> QED BY <1>3, <1>4, <2>1 DEF Exists, NoKey
<1>5. CASE c # 0
  <2> DEFINE b == BucketOf(k, c)
             ch == Chain(b)
             same == {i \in DOMAIN ch : entries[ch[i]].key = k}
  <2>1. b \in 0 .. c - 1
    <3>1. m_hash_fn[k] \in Nat
      BY DEF HashMapAssumption
    <3> QED BY <1>2, <1>5, <3>1 DEF BucketOf
  <2>2. IsListOf(ch, m_buckets[b], At(place, b), entries)
    BY <1>1, <2>1, ListsAre
  <2>3. Lookup(k) = IF same = {} THEN NULL ELSE ch[Min(same)]
    BY <1>3 DEF Lookup
  <2>4. ch \in Seq(At(place, b)) /\ ToSet(ch) = At(place, b)
    BY <2>2 DEF IsListOf
  <2> HIDE DEF b, ch
  <2>5. CASE same = {}
    <3>1. ~Exists(k)
      BY <2>3, <2>5 DEF Exists
    <3>2. ASSUME NEW x \in Chained(place), entries[x].key = k PROVE FALSE
      <4>1. place[x] = b /\ x \in DOMAIN place
        BY <1>1, <1>2, <3>2 DEF Keyed, b
      <4>2. x \in ToSet(ch)
        BY <2>4, <4>1 DEF At
      <4>3. PICK i \in DOMAIN ch : ch[i] = x
        BY <4>2 DEF ToSet
      <4> QED BY <2>5, <3>2, <4>3
    <3> QED BY <3>1, <3>2 DEF NoKey
  <2>6. CASE same # {}
    <3>1. same \in SUBSET Nat
      BY <2>4
    <3>2. Min(same) \in same
      <4> HIDE DEF same
      <4> QED BY <2>6, <3>1, MinIs
    <3>3. Lookup(k) \in At(place, b) /\ entries[Lookup(k)].key = k
      BY <2>3, <2>4, <2>6, <3>2
    <3>4. Lookup(k) \in Chained(place) /\ Lookup(k) # NULL
      BY <1>2, <2>1, <3>3 DEF At
    <3> QED BY <1>3, <1>5, <3>3, <3>4 DEF Exists
  <2> QED BY <2>5, <2>6
<1> QED BY <1>4, <1>5

\* The keys that the client means to be in the map.
Given == {k \in Keys : content[k] # NULL}

LEMMA FindsNow ==
  ASSUME HashMapAssumption, m_hash_fn \in [Keys -> Hashes],
         NEW n, NEW c, NEW place, NEW rank, NEW top, SoundNow(n, c, place, rank, top),
         NEW k \in Keys
  PROVE  Found(k) \in {content[k]} \cup (IF intact THEN {} ELSE {NULL})
<1>1. CASE Exists(k)
  <2>1. Lookup(k) \in Chained(place) /\ entries[Lookup(k)].key = k
    BY <1>1, LookupIs
  <2>2. entries[Lookup(k)].value = content[k]
    BY <2>1 DEF SoundNow, Sound, Keyed
  <2> QED BY <1>1, <2>2 DEF Found
<1>2. CASE ~Exists(k)
  <2>1. NoKey(entries, place, k)
    BY <1>2, LookupIs
  <2>2. Found(k) = NULL
    BY <1>2 DEF Found
  <2>3. intact => content[k] = NULL
    BY <2>1 DEF SoundNow, Sound, Complete, NoKey
  <2> QED BY <2>2, <2>3
<1> QED BY <1>1, <1>2

LEMMA ChainsNow ==
  ASSUME NEW n, NEW c, NEW place, NEW rank, NEW top, SoundNow(n, c, place, rank, top),
         NEW b \in DOMAIN m_buckets
  PROVE  LET ch == Chain(b) IN
           /\ IsInjective(ch)
           /\ ToSet(ch) \cap ToSet(ListFrom(m_free_entries)) = {}
           /\ \A i \in DOMAIN ch :
                /\ BucketOf(entries[ch[i]].key, m_bucket_count) = b
                /\ entries[ch[i]].prev \in {NULL} \cup {ch[m] : m \in {i - 1} \cap DOMAIN ch}
<1>1. /\ Typed(n, c, entries, m_buckets, place, rank, top)
      /\ Linked(entries, m_buckets, m_free_entries, place, rank)
      /\ LinkedBack(entries, place) /\ Keyed(entries, c, place, content)
  BY DEF SoundNow, Sound
<1>2. /\ n \in Nat /\ c \in Nat /\ DOMAIN place = 1 .. n /\ DOMAIN m_buckets = 0 .. c - 1
      /\ Chained(place) = {x \in 1 .. n : place[x] \in 0 .. c - 1}
      /\ \A x \in 1 .. n : x # NULL
  BY <1>1, PlaceFacts
<1>3. m_bucket_count = c
  BY <1>1, WalkedIs
<1> DEFINE ch == Chain(b)
<1>4. /\ IsListOf(ch, m_buckets[b], At(place, b), entries)
      /\ IsListOf(ListFrom(m_free_entries), m_free_entries, At(place, Free), entries)
  BY <1>1, <1>2, ListsAre
<1> HIDE DEF ch
<1>5. /\ ch \in Seq(At(place, b)) /\ ToSet(ch) = At(place, b) /\ IsInjective(ch)
      /\ ToSet(ListFrom(m_free_entries)) = At(place, Free)
      /\ \A i \in DOMAIN ch : entries[ch[i]].next = IF i = Len(ch) THEN NULL ELSE ch[i + 1]
  BY <1>4 DEF IsListOf
<1>6. ToSet(ch) \cap ToSet(ListFrom(m_free_entries)) = {}
  <2>1. b # Free
    BY <1>2 DEF Free
  <2> QED BY <1>5, <2>1 DEF At
<1>7. ASSUME NEW i \in DOMAIN ch
      PROVE  /\ BucketOf(entries[ch[i]].key, m_bucket_count) = b
             /\ entries[ch[i]].prev \in {NULL} \cup {ch[m] : m \in {i - 1} \cap DOMAIN ch}
  <2>1. ch[i] \in At(place, b)
    BY <1>5
  <2>2. ch[i] \in Chained(place) /\ place[ch[i]] = b
    BY <1>2, <2>1 DEF At
  <2>3. BucketOf(entries[ch[i]].key, m_bucket_count) = b
    BY <1>1, <1>3, <2>2 DEF Keyed
  <2>4. ASSUME entries[ch[i]].prev # NULL
        PROVE  \E m \in {i - 1} \cap DOMAIN ch : ch[m] = entries[ch[i]].prev
    <3> DEFINE q == entries[ch[i]].prev
    <3>1. q \in At(place, b) /\ entries[q].next = ch[i]
      BY <1>1, <2>2, <2>4 DEF LinkedBack
    <3> HIDE DEF q
    <3>2. PICK j \in DOMAIN ch : ch[j] = q
      BY <1>5, <3>1 DEF ToSet
    <3>3. entries[q].next = IF j = Len(ch) THEN NULL ELSE ch[j + 1]
      BY <1>5, <3>2
    <3>4. ch[i] # NULL
      BY <1>2, <2>2
    <3>5. DOMAIN ch = 1 .. Len(ch) /\ Len(ch) \in Nat
      BY <1>5
    <3>6. j + 1 \in DOMAIN ch /\ ch[j + 1] = ch[i]
      BY <3>1, <3>3, <3>4, <3>5
    <3>7. j + 1 = i
      BY <1>5, <3>6 DEF IsInjective
    <3>8. j = i - 1
      BY <3>5, <3>7
    <3> QED BY <3>2, <3>8 DEF q
  <2> QED BY <2>3, <2>4
<1> QED BY <1>5, <1>6, <1>7 DEF ch

LEMMA OnceNow ==
  ASSUME NEW n, NEW c, NEW place, NEW rank, NEW top, SoundNow(n, c, place, rank, top), intact
  PROVE  LET all == ListFrom(m_free_entries) \o Walked
         IN IsInjective(all) /\ ToSet(all) = Entries
<1>1. /\ Typed(n, c, entries, m_buckets, place, rank, top)
      /\ Linked(entries, m_buckets, m_free_entries, place, rank)
      /\ Complete(entries, place, content)
  BY DEF SoundNow, Sound
<1>2. /\ n \in Nat /\ c \in Nat /\ DOMAIN place = 1 .. n /\ DOMAIN entries = 1 .. n
      /\ Chained(place) = {x \in 1 .. n : place[x] \in 0 .. c - 1}
      /\ \A x \in 1 .. n : place[x] \in 0 .. c - 1 \cup {Free, Lost}
      /\ At(place, Free) \in SUBSET (1 .. n)
  BY <1>1, PlaceFacts
<1> DEFINE p == ListFrom(m_free_entries)
           q == Walked
           E == 1 .. n
<1>3. q \in Seq(E) /\ ToSet(q) = Chained(place) /\ IsInjective(q)
  BY <1>1, WalkedIs
<1>4. p \in Seq(At(place, Free)) /\ ToSet(p) = At(place, Free) /\ IsInjective(p)
  BY <1>1, ListsAre DEF IsListOf
<1>5. p \in Seq(E)
  <2> DEFINE S == At(place, Free)
  <2>1. S \subseteq E /\ p \in Seq(S)
    BY <1>2, <1>4
  <2> HIDE DEF S, E, p
  <2> QED BY <2>1
<1>6. ToSet(p) \cap ToSet(q) = {}
  BY <1>2, <1>3, <1>4 DEF At, Free
<1>7. ToSet(p) \cup ToSet(q) = 1 .. n
  <2>1. \A x \in 1 .. n : x \in At(place, Free) \/ x \in Chained(place)
    BY <1>1, <1>2 DEF At, Complete
  <2> QED BY <1>2, <1>3, <1>4, <2>1
<1> HIDE DEF p, q, E
<1>8. ToSet(p \o q) = ToSet(p) \cup ToSet(q) /\ IsInjective(p \o q)
  BY <1>3, <1>4, <1>5, <1>6, Concatenated
<1> QED BY <1>2, <1>7, <1>8 DEF p, q, Entries

-----------------------------------------------------------------------------
(***************************************************************************)
(* What the operations do to the list of a place.                          *)
(***************************************************************************)

SameOn(S, es, es2, rank, rank2) ==
  \A x \in S : es2[x].next = es[x].next /\ rank2[x] = rank[x]

Below(S, rank, e) == {y \in S : rank[y] < rank[e]}

PutOnTop(e, h, S, es, es2, rank, rank2) ==
  /\ SameOn(S, es, es2, rank, rank2)
  /\ es2[e].next = h
  /\ rank2[e] \in Nat
  /\ \A x \in S : rank[x] \in Nat /\ rank[x] < rank2[e]

TakenFromBehind(p, e, S, es, es2) ==
  /\ es[p].next = e
  /\ es2[p].next = es[e].next
  /\ \A x \in S \ {e, p} : es2[x].next = es[x].next

\* Elsewhere nothing changes.
LEMMA RankedSame ==
  ASSUME NEW S, NEW es, NEW es2, NEW rank, NEW rank2, SameOn(S, es, es2, rank, rank2)
  PROVE  /\ IsRanked(es, S, rank) => IsRanked(es2, S, rank2)
         /\ \A h : IsTop(h, S, rank) => IsTop(h, S, rank2)
<1> USE DEF SameOn
<1>1. \A h : IsTop(h, S, rank) => IsTop(h, S, rank2)
  BY DEF IsTop
<1>2. ASSUME IsRanked(es, S, rank) PROVE IsRanked(es2, S, rank2)
  <2>1. ASSUME NEW x \in S
        PROVE  IsTop(es2[x].next, {y \in S : rank2[y] < rank2[x]}, rank2)
    <3> DEFINE low == {y \in S : rank[y] < rank[x]}
    <3>1. {y \in S : rank2[y] < rank2[x]} = low
      OBVIOUS
    <3>2. IsTop(es[x].next, low, rank)
      BY <1>2 DEF IsRanked
    <3>3. \A y \in low : y \in S
      OBVIOUS
    <3> HIDE DEF low
    <3>4. IsTop(es[x].next, low, rank2)
      BY <3>2, <3>3 DEF IsTop
    <3> QED BY <3>1, <3>4
  <2>2. \A x, y \in S : rank2[x] = rank2[y] => x = y
    BY <1>2 DEF IsRanked
  <2> QED BY <2>1, <2>2 DEF IsRanked
<1> QED BY <1>1, <1>2

\* An entry becomes the first.
LEMMA RankedPush ==
  ASSUME NEW n \in Nat, NEW S \in SUBSET (1 .. n), NEW rank, NEW rank2, NEW es, NEW es2, NEW h, NEW e,
         e \notin S, IsRanked(es, S, rank), IsTop(h, S, rank),
         PutOnTop(e, h, S, es, es2, rank, rank2)
  PROVE  IsRanked(es2, S \cup {e}, rank2) /\ IsTop(e, S \cup {e}, rank2)
<1> DEFINE T == S \cup {e}
<1>0. /\ SameOn(S, es, es2, rank, rank2) /\ es2[e].next = h /\ rank2[e] \in Nat
      /\ \A x \in S : rank2[x] = rank[x] /\ rank[x] \in Nat /\ rank[x] < rank2[e]
  BY DEF PutOnTop, SameOn
<1>1. \A x \in T : rank2[x] \in Nat
  BY <1>0
<1>2. \A x \in S : rank2[x] < rank2[e]
  BY <1>0
<1>3. \A x, y \in T : rank2[x] = rank2[y] => x = y
  <2>1. \A x, y \in S : rank2[x] = rank2[y] => x = y
    BY <1>0 DEF IsRanked
  <2> QED BY <1>1, <1>2, <2>1
<1>4. IsTop(e, T, rank2)
  <2>1. \A y \in T : rank2[y] <= rank2[e]
    BY <1>0, <1>1, <1>2
  <2> QED BY <2>1 DEF IsTop
<1>5. IsRanked(es2, S, rank2) /\ IsTop(h, S, rank2)
  BY <1>0, RankedSame
<1>6. ASSUME NEW x \in T
      PROVE  IsTop(es2[x].next, {y \in T : rank2[y] < rank2[x]}, rank2)
  <2>1. CASE x = e
    <3>1. {y \in T : rank2[y] < rank2[x]} = S
      <4>1. rank2[e] \in Nat /\ ~(rank2[e] < rank2[e])
        BY <1>0
      <4> QED BY <1>2, <2>1, <4>1
    <3> HIDE DEF T
    <3> QED BY <1>0, <1>5, <2>1, <3>1
  <2>2. CASE x # e
    <3>1. x \in S
      BY <2>2
    <3>2. ~(rank2[e] < rank2[x])
      <4>1. rank2[x] < rank2[e]
        BY <1>2, <3>1
      <4>2. rank2[x] \in Nat /\ rank2[e] \in Nat
        BY <1>0, <3>1
      <4> QED BY <4>1, <4>2
    <3>3. {y \in T : rank2[y] < rank2[x]} = {y \in S : rank2[y] < rank2[x]}
      BY <3>2
    <3> HIDE DEF T
    <3> QED BY <1>5, <3>1, <3>3 DEF IsRanked
  <2> QED BY <2>1, <2>2
<1> QED BY <1>3, <1>4, <1>6 DEF IsRanked

\* What is behind an entry, when it and those before it are gone.
LEMMA RankedBelow ==
  ASSUME NEW n \in Nat, NEW S \in SUBSET (1 .. n), NEW rank, NEW es, NEW e \in S,
         \A x \in S : rank[x] \in Nat,
         IsRanked(es, S, rank)
  PROVE  /\ IsRanked(es, Below(S, rank, e), rank)
         /\ IsTop(es[e].next, Below(S, rank, e), rank)
         /\ IsTop(e, S, rank) => Below(S, rank, e) = S \ {e}
<1> DEFINE low == {y \in S : rank[y] < rank[e]}
<1>1. IsTop(es[e].next, low, rank)
  BY DEF IsRanked
<1>2. ASSUME NEW x \in low
      PROVE  IsTop(es[x].next, {y \in low : rank[y] < rank[x]}, rank)
  <2>1. {y \in low : rank[y] < rank[x]} = {y \in S : rank[y] < rank[x]}
    <3>1. rank[x] \in Nat /\ rank[e] \in Nat /\ rank[x] < rank[e]
      OBVIOUS
    <3>2. ASSUME NEW y \in S, rank[y] < rank[x] PROVE rank[y] < rank[e]
      <4>1. rank[y] \in Nat
        OBVIOUS
      <4> QED BY <3>1, <3>2, <4>1
    <3> QED BY <3>2
  <2>2. x \in S
    OBVIOUS
  <2> HIDE DEF low, Below
  <2> QED BY <2>1, <2>2 DEF IsRanked
<1>3. \A x, y \in low : rank[x] = rank[y] => x = y
  BY DEF IsRanked
<1>4. ASSUME IsTop(e, S, rank) PROVE low = S \ {e}
  <2>1. ASSUME NEW x \in S PROVE x \in low <=> x # e
    <3>1. rank[x] \in Nat /\ rank[e] \in Nat /\ rank[x] <= rank[e]
      BY <1>4 DEF IsTop
    <3>2. rank[x] = rank[e] => x = e
      BY DEF IsRanked
    <3> QED BY <3>1, <3>2
  <2> QED BY <2>1
<1> HIDE DEF low, Below
<1>5. IsRanked(es, low, rank)
  BY <1>2, <1>3 DEF IsRanked
<1> QED BY <1>1, <1>4, <1>5 DEF low, Below

\* An entry is taken from behind p.
LEMMA RankedTake ==
  ASSUME NEW n \in Nat, NEW S \in SUBSET (1 .. n), NEW rank, NEW es, NEW es2,
         NEW e \in S, NEW p \in S, TakenFromBehind(p, e, S, es, es2),
         \A x \in S : rank[x] \in Nat,
         IsRanked(es, S, rank),
         NEW h, IsTop(h, S, rank)
  PROVE  IsRanked(es2, S \ {e}, rank) /\ IsTop(h, S \ {e}, rank)
<1> USE DEF TakenFromBehind
<1>1. \A x \in S : x # NULL
  BY DEF NULL
<1>2. ASSUME NEW x \in S, es[x].next = e
      PROVE  rank[e] < rank[x] /\ \A y \in S : rank[y] < rank[x] => rank[y] <= rank[e]
  <2>1. IsTop(e, {y \in S : rank[y] < rank[x]}, rank)
    BY <1>2 DEF IsRanked
  <2> QED BY <1>1, <2>1 DEF IsTop
<1>3. \A x, y \in S : rank[x] = rank[y] => x = y
  BY DEF IsRanked
<1>4. p # e
  <2>1. rank[e] < rank[p]
    BY <1>2
  <2>2. rank[e] \in Nat
    OBVIOUS
  <2> QED BY <2>1, <2>2
<1>5. ASSUME NEW x \in S, es[x].next = e PROVE x = p
  <2>1. rank[x] \in Nat /\ rank[p] \in Nat /\ rank[e] \in Nat
    OBVIOUS
  <2>2. ~(rank[x] < rank[p]) /\ ~(rank[p] < rank[x])
    BY <1>2, <1>5, <2>1
  <2>3. rank[x] = rank[p]
    BY <2>1, <2>2
  <2> QED BY <1>3, <2>3
<1> DEFINE T == S \ {e}
<1>6. ASSUME NEW x \in T
      PROVE  IsTop(es2[x].next, {y \in T : rank[y] < rank[x]}, rank)
  <2>1. CASE x = p
    <3>1. IsTop(es[e].next, {y \in S : rank[y] < rank[e]}, rank)
      BY DEF IsRanked
    <3>2. {y \in T : rank[y] < rank[x]} = {y \in S : rank[y] < rank[e]}
      <4>1. ASSUME NEW y \in S
            PROVE  (y # e /\ rank[y] < rank[p]) <=> rank[y] < rank[e]
        <5>1. rank[y] \in Nat /\ rank[p] \in Nat /\ rank[e] \in Nat
          OBVIOUS
        <5>2. rank[e] < rank[p] /\ (rank[y] < rank[p] => rank[y] <= rank[e])
          BY <1>2
        <5>3. rank[y] = rank[e] => y = e
          BY <1>3
        <5> QED BY <5>1, <5>2, <5>3
      <4> QED BY <2>1, <4>1
    <3> HIDE DEF T
    <3> QED BY <2>1, <3>1, <3>2
  <2>2. CASE x # p
    <3> DEFINE low == {y \in S : rank[y] < rank[x]}
    <3>1. IsTop(es[x].next, low, rank) /\ es[x].next # e /\ es2[x].next = es[x].next
      BY <1>5, <2>2 DEF IsRanked
    <3>2. {y \in T : rank[y] < rank[x]} = low \ {e}
      OBVIOUS
    <3>3. \A y \in low : y # NULL
      BY <1>1
    <3> HIDE DEF low, T
    <3>4. IsTop(es[x].next, low \ {e}, rank)
      BY <3>1, <3>3 DEF IsTop
    <3> QED BY <3>1, <3>2, <3>4
  <2> QED BY <2>1, <2>2
<1>7. IsTop(h, T, rank)
  <2>1. h \in S /\ \A y \in S : rank[y] <= rank[h]
    BY DEF IsTop
  <2>2. h # e
    <3>1. rank[e] < rank[p] /\ rank[p] \in Nat /\ rank[e] \in Nat
      BY <1>2
    <3> QED BY <2>1, <3>1
  <2> QED BY <2>1, <2>2 DEF IsTop
<1>8. \A x, y \in T : rank[x] = rank[y] => x = y
  BY <1>3
<1> HIDE DEF T
<1>9. IsRanked(es2, T, rank)
  BY <1>6, <1>8 DEF IsRanked
<1> QED BY <1>7, <1>9 DEF T

-----------------------------------------------------------------------------
\* malloc gives an entry: as if it had come to the empty free list.
LEMMA Allocated ==
  ASSUME NEW n, NEW c, NEW es, NEW bs, NEW place, NEW rank, NEW top, NEW cont, NEW whole,
         Sound(n, c, es, bs, NULL, place, rank, top, cont, whole),
         NEW new, new \in EntryOf({}), new.next = NULL
  PROVE  \E place2, rank2 :
           /\ Sound(n + 1, c, Append(es, new), bs, n + 1, place2, rank2, top, cont, whole)
           /\ \A k : NoKey(es, place, k) => NoKey(Append(es, new), place2, k)
<1> DEFINE D == 1 .. n
           D2 == 1 .. n + 1
           e == n + 1
           es2 == Append(es, new)
           place2 == [x \in D2 |-> IF x = e THEN Free ELSE place[x]]
           rank2 == [x \in D2 |-> IF x = e THEN 0 ELSE rank[x]]
<1>1. /\ Typed(n, c, es, bs, place, rank, top) /\ Linked(es, bs, NULL, place, rank)
      /\ LinkedBack(es, place) /\ Keyed(es, c, place, cont)
      /\ whole => Complete(es, place, cont)
  BY DEF Sound
<1>2. /\ n \in Nat /\ c \in Nat /\ top \in Nat
      /\ DOMAIN es = D /\ DOMAIN place = D /\ DOMAIN bs = 0 .. c - 1
      /\ \A p : At(place, p) \in SUBSET D
      /\ Chained(place) = {x \in D : place[x] \in 0 .. c - 1}
      /\ rank \in [D -> Nat]
      /\ \A x \in D : /\ rank[x] \in 0 .. top /\ x # NULL
                      /\ place[x] \in 0 .. c - 1 \cup {Free, Lost}
                      /\ es[x] \in EntryOf(D)
  BY <1>1, PlaceFacts
<1>3. /\ e \notin D /\ D2 = D \cup {e} /\ e \in D2 /\ e # NULL
      /\ \A x \in D : x \in D2 /\ x # e
  BY <1>2 DEF NULL
<1>4. /\ es2[e] = new /\ DOMAIN es2 = D2 /\ \A x \in D : es2[x] = es[x]
      /\ es2 = [x \in D2 |-> es2[x]]
  <2>1. es \in Seq(EntryOf(D)) /\ Len(es) = n
    BY <1>1, <1>2 DEF Typed
  <2>2. es2[e] = new /\ DOMAIN es2 = D2 /\ \A x \in D : es2[x] = es[x]
    BY <1>2, <2>1
  <2>3. es2 = [x \in D2 |-> es2[x]]
    <3> DEFINE R == EntryOf(D) \cup {new}
    <3>1. es \in Seq(R) /\ new \in R
      BY <2>1
    <3> HIDE DEF R
    <3>2. es2 \in Seq(R)
      BY <3>1
    <3> HIDE DEF es2, D2
    <3> QED BY <2>2, <3>2
  <2> HIDE DEF es2, D, D2
  <2> QED BY <2>2, <2>3
<1>5. \A x \in D2 : es2[x] \in EntryOf(D2)
  <2>1. EntryOf(D) \subseteq EntryOf(D2) /\ EntryOf({}) \subseteq EntryOf(D2)
    BY <1>3 DEF EntryOf
  <2>2. ASSUME NEW x \in D2 PROVE es2[x] \in EntryOf(D2)
    <3>1. CASE x = e
      BY <1>4, <2>1, <3>1
    <3>2. CASE x # e
      <4>1. x \in D
        BY <1>3, <3>2
      <4> QED BY <1>2, <1>4, <2>1, <4>1
    <3> QED BY <3>1, <3>2
  <2> QED BY <2>2
<1>6. /\ DOMAIN place2 = D2 /\ place2[e] = Free /\ \A x \in D : place2[x] = place[x]
      /\ DOMAIN rank2 = D2 /\ rank2[e] = 0 /\ \A x \in D : rank2[x] = rank[x]
  BY <1>3
<1> HIDE DEF es2, place2, rank2, D, D2, e
<1>7. Typed(e, c, es2, bs, place2, rank2, top)
  <2>1. es2 \in [D2 -> EntryOf(D2)]
    <3>1. es2 = [x \in D2 |-> es2[x]]
      BY <1>4
    <3> QED BY <1>5, <3>1
  <2>2. place2 \in [D2 -> 0 .. c - 1 \cup {Free, Lost}]
    <3>1. \A x \in D2 : place2[x] \in 0 .. c - 1 \cup {Free, Lost}
      BY <1>2, <1>3, <1>6
    <3> QED BY <3>1 DEF place2
  <2>3. rank2 \in [D2 -> 0 .. top]
    <3>1. \A x \in D2 : rank2[x] \in 0 .. top
      BY <1>2, <1>3, <1>6
    <3> QED BY <3>1 DEF rank2
  <2>4. bs \in [0 .. c - 1 -> D2 \cup {NULL}]
    <3>1. bs \in [0 .. c - 1 -> D \cup {NULL}]
      BY <1>1 DEF Typed, D
    <3> QED BY <1>3, <3>1
  <2>5. e \in Nat
    BY <1>2 DEF e
  <2> QED BY <1>2, <2>1, <2>2, <2>3, <2>4, <2>5 DEF Typed, D2, e
<1>8. At(place, Free) = {}
  <2>1. IsTop(NULL, At(place, Free), rank)
    BY <1>1 DEF Linked
  <2> QED BY <1>2, <2>1 DEF IsTop
<1>9. At(place2, Free) = {e} /\ \A p : p # Free => At(place2, p) = At(place, p)
  <2>1. At(place2, Free) = {e}
    <3>1. \A x \in D : place2[x] # Free
      BY <1>2, <1>6, <1>8 DEF At
    <3> QED BY <1>3, <1>6, <3>1 DEF At
  <2>2. ASSUME NEW p, p # Free PROVE At(place2, p) = At(place, p)
    <3>1. {x \in D2 : place2[x] = p} = {x \in D : place[x] = p}
      BY <1>3, <1>6, <2>2
    <3> QED BY <1>2, <1>6, <3>1 DEF At
  <2> QED BY <2>1, <2>2
<1>10. Chained(place2) = Chained(place)
  <2>1. {x \in D2 : place2[x] \in Nat} = {x \in D : place[x] \in Nat}
    <3>1. Free \notin Nat
      BY DEF Free
    <3> QED BY <1>3, <1>6, <3>1
  <2> QED BY <1>2, <1>6, <2>1 DEF Chained
<1>11. Linked(es2, bs, e, place2, rank2)
  <2>1. ASSUME NEW b \in DOMAIN bs
        PROVE  IsRanked(es2, At(place2, b), rank2) /\ IsTop(bs[b], At(place2, b), rank2)
    <3>1. b # Free
      BY <1>2 DEF Free
    <3>2. At(place2, b) = At(place, b)
      BY <1>9, <3>1
    <3>3. IsRanked(es, At(place, b), rank) /\ IsTop(bs[b], At(place, b), rank)
      BY <1>1 DEF Linked
    <3>4. SameOn(At(place, b), es, es2, rank, rank2)
      BY <1>2, <1>4, <1>6 DEF SameOn
    <3> QED BY <3>2, <3>3, <3>4, RankedSame
  <2>2. IsRanked(es2, {e}, rank2) /\ IsTop(e, {e}, rank2)
    <3>1. es2[e].next = NULL /\ rank2[e] = 0
      BY <1>4, <1>6
    <3>2. {y \in {e} : rank2[y] < rank2[e]} = {}
      BY <3>1
    <3>3. IsTop(NULL, {}, rank2)
      BY DEF IsTop
    <3>4. \A x \in {e} : IsTop(es2[x].next, {y \in {e} : rank2[y] < rank2[x]}, rank2)
      BY <3>1, <3>2, <3>3
    <3>5. IsTop(e, {e}, rank2)
      BY <3>1 DEF IsTop
    <3> QED BY <3>4, <3>5 DEF IsRanked
  <2> QED BY <1>9, <2>1, <2>2 DEF Linked
<1>12. LinkedBack(es2, place2)
  <2> SUFFICES ASSUME NEW x \in Chained(place), es[x].prev # NULL
               PROVE  es2[x].prev \in At(place2, place2[x]) /\ es2[es2[x].prev].next = x
    <3>1. \A x \in Chained(place) : es2[x] = es[x]
      BY <1>2, <1>4
    <3> QED BY <1>10, <3>1 DEF LinkedBack
  <2>1. /\ x \in D /\ place2[x] = place[x] /\ es2[x] = es[x] /\ place[x] # Free
    <3>1. x \in D
      BY <1>2
    <3>2. place[x] \in Nat
      BY DEF Chained
    <3>3. place[x] # Free
      BY <3>2 DEF Free
    <3> QED BY <1>4, <1>6, <3>1, <3>3
  <2>2. es[x].prev \in At(place, place[x]) /\ es[es[x].prev].next = x
    BY <1>1 DEF LinkedBack
  <2>3. es[x].prev \in D
    BY <1>2, <2>2
  <2> QED BY <1>4, <1>9, <2>1, <2>2, <2>3
<1>13. \A x \in Chained(place) : es2[x] = es[x] /\ place2[x] = place[x]
  BY <1>2, <1>4, <1>6
<1>14. Keyed(es2, c, place2, cont)
  BY <1>1, <1>10, <1>13 DEF Keyed
<1>15. whole => Complete(es2, place2, cont)
  <2>1. ASSUME Complete(es, place, cont) PROVE Complete(es2, place2, cont)
    <3>1. Free # Lost
      BY DEF Free, Lost
    <3>2. \A x \in DOMAIN place2 : place2[x] # Lost
      BY <1>2, <1>3, <1>6, <2>1, <3>1 DEF Complete
    <3> QED BY <1>10, <1>13, <2>1, <3>2 DEF Complete
  <2> QED BY <1>1, <2>1
<1>16. \A k : NoKey(es, place, k) => NoKey(es2, place2, k)
  BY <1>10, <1>13 DEF NoKey
<1>17. Sound(e, c, es2, bs, e, place2, rank2, top, cont, whole)
  BY <1>7, <1>11, <1>12, <1>14, <1>15 DEF Sound
<1> QED BY <1>16, <1>17 DEF e, es2

\* The first free entry becomes the first of the bucket of its new key.
LEMMA Pushed ==
  ASSUME HashMapAssumption, m_hash_fn \in [Keys -> Hashes],
         NEW n, NEW c, NEW es, NEW bs, NEW free, NEW place, NEW rank, NEW top, NEW cont, NEW whole,
         Sound(n, c, es, bs, free, place, rank, top, cont, whole),
         free # NULL, c # 0, cont \in [Keys -> Values \cup {NULL}],
         NEW k \in Keys, NEW v \in Values, NoKey(es, place, k)
  PROVE  LET b == BucketOf(k, c)
             new == [key |-> k, value |-> v, prev |-> NULL, next |-> bs[b]]
         IN \E place2, rank2 :
              Sound(n, c, [es EXCEPT ![free] = new], [bs EXCEPT ![b] = free], es[free].next,
                    place2, rank2, top + 1, [cont EXCEPT ![k] = v], whole)
<1> DEFINE D == 1 .. n
           b == BucketOf(k, c)
           new == [key |-> k, value |-> v, prev |-> NULL, next |-> bs[b]]
           es2 == [es EXCEPT ![free] = new]
           bs2 == [bs EXCEPT ![b] = free]
           place2 == [place EXCEPT ![free] = b]
           rank2 == [rank EXCEPT ![free] = top + 1]
           cont2 == [cont EXCEPT ![k] = v]
<1>1. /\ Typed(n, c, es, bs, place, rank, top) /\ Linked(es, bs, free, place, rank)
      /\ LinkedBack(es, place) /\ Keyed(es, c, place, cont)
      /\ whole => Complete(es, place, cont)
  BY DEF Sound
<1>2. /\ n \in Nat /\ c \in Nat /\ top \in Nat
      /\ DOMAIN es = D /\ DOMAIN place = D /\ DOMAIN rank = D /\ DOMAIN bs = 0 .. c - 1
      /\ \A p : At(place, p) \in SUBSET D
      /\ Chained(place) = {x \in D : place[x] \in 0 .. c - 1}
      /\ rank \in [D -> Nat]
      /\ \A x \in D : /\ rank[x] \in 0 .. top /\ x # NULL
                      /\ place[x] \in 0 .. c - 1 \cup {Free, Lost}
                      /\ es[x] \in EntryOf(D)
  BY <1>1, PlaceFacts
<1>3. b \in 0 .. c - 1 /\ b # Free /\ b # Lost /\ Free \notin 0 .. c - 1
  <2>1. m_hash_fn[k] \in Nat
    BY DEF HashMapAssumption
  <2>2. b \in 0 .. c - 1
    BY <1>2, <2>1 DEF BucketOf
  <2> QED BY <2>2 DEF Free, Lost
<1>4. free \in At(place, Free) /\ free \in D /\ place[free] = Free
  <2>1. IsTop(free, At(place, Free), rank)
    BY <1>1 DEF Linked
  <2>2. free \in At(place, Free)
    BY <2>1 DEF IsTop
  <2> QED BY <1>2, <2>2 DEF At
<1> HIDE DEF b
<1>5. bs[b] \in D \cup {NULL}
  BY <1>1, <1>3 DEF Typed
<1>6. /\ DOMAIN es2 = D /\ es2[free] = new /\ \A x \in D : x # free => es2[x] = es[x]
      /\ DOMAIN place2 = D /\ place2[free] = b /\ \A x \in D : x # free => place2[x] = place[x]
      /\ DOMAIN rank2 = D /\ rank2[free] = top + 1 /\ \A x \in D : x # free => rank2[x] = rank[x]
      /\ DOMAIN bs2 = 0 .. c - 1 /\ bs2[b] = free /\ \A d \in 0 .. c - 1 : d # b => bs2[d] = bs[d]
  <2> HIDE DEF new
  <2> QED BY <1>2, <1>3, <1>4
<1>7. /\ new \in EntryOf(D) /\ new.key = k /\ new.value = v /\ new.prev = NULL
      /\ new.next = bs[b]
  BY <1>5 DEF EntryOf
<1>8. Typed(n, c, es2, bs2, place2, rank2, top + 1)
  <2>1. es2 \in [D -> EntryOf(D)]
    <3>1. es \in [D -> EntryOf(D)]
      BY <1>1 DEF Typed, D
    <3> HIDE DEF new
    <3> QED BY <1>7, <3>1
  <2>2. bs2 \in [0 .. c - 1 -> D \cup {NULL}]
    <3>1. bs \in [0 .. c - 1 -> D \cup {NULL}]
      BY <1>1 DEF Typed, D
    <3> QED BY <1>4, <3>1
  <2>3. place2 \in [D -> 0 .. c - 1 \cup {Free, Lost}]
    <3>1. place \in [D -> 0 .. c - 1 \cup {Free, Lost}]
      BY <1>1 DEF Typed, D
    <3> QED BY <1>3, <3>1
  <2>4. rank2 \in [D -> 0 .. top + 1]
    <3>1. rank \in [D -> 0 .. top]
      BY <1>1 DEF Typed, D
    <3>2. rank \in [D -> 0 .. top + 1] /\ top + 1 \in 0 .. top + 1
      BY <1>2, <3>1
    <3> QED BY <3>2
  <2> HIDE DEF es2, bs2, place2, rank2
  <2> QED BY <1>2, <2>1, <2>2, <2>3, <2>4 DEF Typed, D
<1> HIDE DEF es2, bs2, place2, rank2, new, D
<1>9. /\ At(place2, Free) = At(place, Free) \ {free}
      /\ At(place2, b) = At(place, b) \cup {free}
      /\ \A p : p \notin {Free, b} => At(place2, p) = At(place, p)
  <2>1. \A p : At(place2, p) = {x \in D : place2[x] = p} /\ At(place, p) = {x \in D : place[x] = p}
    BY <1>2, <1>6 DEF At
  <2>2. At(place2, Free) = At(place, Free) \ {free}
    BY <1>3, <1>4, <1>6, <2>1
  <2>3. At(place2, b) = At(place, b) \cup {free}
    BY <1>3, <1>4, <1>6, <2>1
  <2>4. ASSUME NEW p, p \notin {Free, b} PROVE At(place2, p) = At(place, p)
    <3>1. \A x \in D : place2[x] = p <=> place[x] = p
      BY <1>4, <1>6, <2>4
    <3> QED BY <2>1, <3>1
  <2> QED BY <2>2, <2>3, <2>4
<1>10. Chained(place2) = Chained(place) \cup {free} /\ free \notin Chained(place)
  <2>1. Chained(place2) = {x \in D : place2[x] \in 0 .. c - 1}
    BY <1>8, PlaceFacts DEF D
  <2> QED BY <1>2, <1>3, <1>4, <1>6, <2>1
<1>11. \A x \in Chained(place) : x \in D /\ es2[x] = es[x] /\ place2[x] = place[x]
  BY <1>2, <1>6, <1>10
<1>12. Linked(es2, bs2, es[free].next, place2, rank2)
  <2>1. \A p : p \in DOMAIN bs \cup {Free} => IsRanked(es, At(place, p), rank)
    BY <1>1 DEF Linked
  <2>2. /\ IsRanked(es2, At(place2, Free), rank2)
        /\ IsTop(es[free].next, At(place2, Free), rank2)
    <3> DEFINE S == At(place, Free)
               low == Below(S, rank, free)
    <3>1. /\ S \in SUBSET (1 .. n) /\ free \in S /\ \A x \in S : rank[x] \in Nat
          /\ IsRanked(es, S, rank) /\ IsTop(free, S, rank)
      BY <1>1, <1>2, <1>4, <2>1 DEF D, Linked
    <3> HIDE DEF S
    <3>2. IsRanked(es, low, rank) /\ IsTop(es[free].next, low, rank) /\ low = S \ {free}
      BY <1>2, <3>1, RankedBelow
    <3> HIDE DEF low
    <3>3. low = At(place2, Free)
      BY <1>9, <3>2 DEF S
    <3>4. SameOn(low, es, es2, rank, rank2)
      BY <1>6, <3>1, <3>2 DEF D, SameOn
    <3> QED BY <3>2, <3>3, <3>4, RankedSame
  <2>3. IsRanked(es2, At(place2, b), rank2) /\ IsTop(free, At(place2, b), rank2)
    <3> DEFINE S == At(place, b)
    <3>1. S \in SUBSET (1 .. n) /\ free \notin S
      BY <1>2, <1>3, <1>4 DEF D, At
    <3>2. IsRanked(es, S, rank) /\ IsTop(bs[b], S, rank)
      BY <1>1, <1>2, <1>3 DEF Linked
    <3>3. \A x \in S : es2[x].next = es[x].next /\ rank2[x] = rank[x] /\ rank[x] \in Nat
      BY <1>2, <1>6, <3>1 DEF D
    <3>4. es2[free].next = bs[b] /\ rank2[free] \in Nat /\ \A x \in S : rank[x] < rank2[free]
      <4>1. \A x \in S : rank[x] \in 0 .. top
        BY <1>2, <3>1 DEF D
      <4> QED BY <1>2, <1>6, <1>7, <4>1
    <3> HIDE DEF S
    <3>5. PutOnTop(free, bs[b], S, es, es2, rank, rank2)
      BY <3>3, <3>4 DEF PutOnTop, SameOn
    <3>6. IsRanked(es2, S \cup {free}, rank2) /\ IsTop(free, S \cup {free}, rank2)
      BY <1>2, <3>1, <3>2, <3>5, RankedPush
    <3> QED BY <1>9, <3>6 DEF S
  <2>4. ASSUME NEW d \in 0 .. c - 1, d # b
        PROVE  IsRanked(es2, At(place2, d), rank2) /\ IsTop(bs2[d], At(place2, d), rank2)
    <3>1. At(place2, d) = At(place, d) /\ d # Free
      BY <1>3, <1>9, <2>4
    <3>2. IsRanked(es, At(place, d), rank) /\ IsTop(bs[d], At(place, d), rank)
      BY <1>1, <1>2 DEF Linked
    <3>3. SameOn(At(place, d), es, es2, rank, rank2)
      <4>1. \A x \in At(place, d) : x \in D /\ x # free
        BY <1>2, <1>4, <3>1 DEF At
      <4> QED BY <1>6, <4>1 DEF SameOn
    <3> QED BY <1>6, <2>4, <3>1, <3>2, <3>3, RankedSame
  <2> QED BY <1>6, <2>2, <2>3, <2>4 DEF Linked
<1>13. LinkedBack(es2, place2)
  <2>1. ASSUME NEW x \in Chained(place), es[x].prev # NULL
        PROVE  es2[x].prev \in At(place2, place2[x]) /\ es2[es2[x].prev].next = x
    <3>1. es[x].prev \in At(place, place[x]) /\ es[es[x].prev].next = x
      BY <1>1, <2>1 DEF LinkedBack
    <3>2. place[x] \in 0 .. c - 1 /\ es[x].prev \in D /\ es[x].prev # free
      BY <1>2, <1>3, <1>4, <3>1 DEF At
    <3>3. es2[x] = es[x] /\ place2[x] = place[x]
      BY <1>11
    <3>4. es[x].prev \in At(place2, place[x])
      BY <1>6, <3>1, <3>2, <1>2 DEF At
    <3> QED BY <1>6, <3>1, <3>2, <3>3, <3>4
  <2>2. es2[free].prev = NULL
    BY <1>6, <1>7
  <2>3. \A x \in Chained(place) : es2[x].prev = es[x].prev
    BY <1>11
  <2> QED BY <1>10, <2>1, <2>2, <2>3 DEF LinkedBack
<1>14. /\ cont2[k] = v /\ v # NULL
       /\ \A j \in Keys : j # k => cont2[j] = cont[j]
       /\ \A x \in Chained(place) : es[x].key \in Keys /\ es[x].key # k
  <2>1. \A x \in Chained(place) : es[x].key \in Keys
    BY <1>2 DEF EntryOf
  <2> QED BY <2>1 DEF NoKey, HashMapAssumption, NULL
<1> HIDE DEF cont2
<1>15. Keyed(es2, c, place2, cont2)
  <2>1. \A x \in Chained(place) : /\ BucketOf(es2[x].key, c) = place2[x]
                                  /\ cont2[es2[x].key] = es2[x].value
    BY <1>1, <1>11, <1>14 DEF Keyed
  <2>2. BucketOf(es2[free].key, c) = place2[free] /\ cont2[es2[free].key] = es2[free].value
    BY <1>6, <1>7, <1>14 DEF b
  <2>3. \A x, y \in Chained(place) : es2[x].key = es2[y].key => x = y
    BY <1>1, <1>11 DEF Keyed
  <2>4. \A x \in Chained(place) : es2[x].key # es2[free].key
    BY <1>6, <1>7, <1>11, <1>14
  <2> QED BY <1>10, <2>1, <2>2, <2>3, <2>4 DEF Keyed
<1>16. whole => Complete(es2, place2, cont2)
  <2>1. ASSUME Complete(es, place, cont) PROVE Complete(es2, place2, cont2)
    <3>1. \A x \in DOMAIN place2 : place2[x] # Lost
      BY <1>2, <1>3, <1>6, <2>1 DEF Complete
    <3>2. ASSUME NEW j \in Keys, cont2[j] # NULL
          PROVE  \E x \in Chained(place2) : es2[x].key = j
      <4>1. CASE j = k
        BY <1>6, <1>7, <1>10, <4>1
      <4>2. CASE j # k
        <5>1. \E x \in Chained(place) : es[x].key = j
          BY <1>14, <2>1, <3>2, <4>2 DEF Complete
        <5> QED BY <1>10, <1>11, <5>1
      <4> QED BY <4>1, <4>2
    <3> QED BY <3>1, <3>2 DEF Complete
  <2> QED BY <1>1, <2>1
<1>17. Sound(n, c, es2, bs2, es[free].next, place2, rank2, top + 1, cont2, whole)
  BY <1>8, <1>12, <1>13, <1>15, <1>16 DEF Sound
<1> QED BY <1>17 DEF es2, bs2, cont2, new, b

\* What Unlinked and Dropped do to the entries.
LEMMA UnlinkedIs ==
  ASSUME NEW n, NEW c, NEW place, NEW rank, NEW top, SoundNow(n, c, place, rank, top),
         NEW e \in Chained(place)
  PROVE  LET es2 == Dropped(Unlinked(e), e) IN
           /\ es2 \in [1 .. n -> EntryOf(1 .. n)]
           /\ \A x \in 1 .. n :
                /\ es2[x].key = entries[x].key /\ es2[x].value = entries[x].value
                /\ es2[x].next = IF x = e THEN m_free_entries
                                 ELSE IF x = entries[e].prev THEN entries[e].next
                                 ELSE entries[x].next
                /\ x # e => es2[x].prev = IF x = entries[e].next /\ x # entries[e].prev
                                          THEN entries[e].prev ELSE entries[x].prev
<1> DEFINE D == 1 .. n
           p == entries[e].prev
           h == entries[e].next
           u == Unlinked(e)
           es2 == Dropped(u, e)
<1>1. /\ Typed(n, c, entries, m_buckets, place, rank, top)
      /\ Linked(entries, m_buckets, m_free_entries, place, rank)
  BY DEF SoundNow, Sound
<1>2. /\ DOMAIN entries = D /\ e \in D /\ At(place, Free) \in SUBSET D
      /\ \A x \in D : entries[x] \in EntryOf(D)
  BY <1>1, PlaceFacts
<1>3. m_free_entries \in D \cup {NULL}
  <2>1. IsTop(m_free_entries, At(place, Free), rank)
    BY <1>1 DEF Linked
  <2> QED BY <1>2, <2>1 DEF IsTop
<1>4. p \in D \cup {NULL} /\ h \in D \cup {NULL}
  BY <1>2 DEF EntryOf
<1> HIDE DEF p, h, D
<1>5. DOMAIN u = D
  BY <1>2 DEF Unlinked
<1>6. \A x \in D : u[x] = IF x = p THEN [entries[x] EXCEPT !.next = h]
                          ELSE IF x = h THEN [entries[x] EXCEPT !.prev = p]
                          ELSE entries[x]
  BY <1>2 DEF Unlinked, p, h
<1> HIDE DEF u
<1>7. ASSUME NEW x \in D
      PROVE  /\ u[x] \in EntryOf(D)
             /\ u[x].key = entries[x].key /\ u[x].value = entries[x].value
             /\ u[x].next = IF x = p THEN h ELSE entries[x].next
             /\ u[x].prev = IF x = h /\ x # p THEN p ELSE entries[x].prev
  <2>1. entries[x] \in EntryOf(D)
    BY <1>2
  <2>2. CASE x = p
    <3>1. u[x] = [entries[x] EXCEPT !.next = h]
      BY <1>6, <2>2
    <3> QED BY <1>4, <2>1, <2>2, <3>1 DEF EntryOf
  <2>3. CASE x # p /\ x = h
    <3>1. u[x] = [entries[x] EXCEPT !.prev = p]
      BY <1>6, <2>3
    <3> QED BY <1>4, <2>1, <2>3, <3>1 DEF EntryOf
  <2>4. CASE x # p /\ x # h
    <3>1. u[x] = entries[x]
      BY <1>6, <2>4
    <3> QED BY <2>1, <2>4, <3>1
  <2> QED BY <2>2, <2>3, <2>4
<1>8. /\ DOMAIN es2 = D /\ es2 = [x \in D |-> es2[x]]
      /\ es2[e] = [u[e] EXCEPT !.next = m_free_entries]
      /\ \A x \in D : x # e => es2[x] = u[x]
  BY <1>2, <1>5 DEF Dropped
<1> HIDE DEF es2
<1>9. ASSUME NEW x \in D
      PROVE  /\ es2[x] \in EntryOf(D)
             /\ es2[x].key = entries[x].key /\ es2[x].value = entries[x].value
             /\ es2[x].next = IF x = e THEN m_free_entries ELSE IF x = p THEN h ELSE entries[x].next
             /\ x # e => es2[x].prev = IF x = h /\ x # p THEN p ELSE entries[x].prev
  <2>1. CASE x = e
    <3>1. u[e] \in EntryOf(D) /\ u[e].key = entries[e].key /\ u[e].value = entries[e].value
      BY <1>2, <1>7
    <3>2. es2[x] = [u[e] EXCEPT !.next = m_free_entries]
      BY <1>8, <2>1
    <3> QED BY <1>3, <2>1, <3>1, <3>2 DEF EntryOf
  <2>2. CASE x # e
    <3>1. es2[x] = u[x]
      BY <1>8, <2>2
    <3> QED BY <1>7, <2>2, <3>1
  <2> QED BY <2>1, <2>2
<1>10. es2 \in [D -> EntryOf(D)]
  BY <1>8, <1>9
<1> QED BY <1>9, <1>10 DEF es2, u, p, h, D

RemovedAs(n, c, k, e, place2, rank2, top2) ==
  LET b == BucketOf(k, c) IN
    Sound(n, c, Dropped(Unlinked(e), e),
          IF entries[e].prev = NULL THEN [m_buckets EXCEPT ![b] = entries[e].next]
          ELSE m_buckets,
          e, place2, rank2, top2, [content EXCEPT ![k] = NULL],
          intact /\ (entries[e].prev = NULL => m_buckets[b] = e))

\* The entry of a key is given back.  If it has no link back but is not the
\* first of its bucket, those before it are lost.
LEMMA Removed ==
  ASSUME HashMapAssumption, m_hash_fn \in [Keys -> Hashes],
         content \in [Keys -> Values \cup {NULL}],
         NEW n, NEW c, NEW place, NEW rank, NEW top, SoundNow(n, c, place, rank, top),
         NEW k \in Keys, NEW e \in Chained(place), entries[e].key = k
  PROVE  \E place2, rank2 : RemovedAs(n, c, k, e, place2, rank2, top + 1)
<1> DEFINE D == 1 .. n
           b == BucketOf(k, c)
           p == entries[e].prev
           h == entries[e].next
           S == At(place, b)
           Cut(x) == p = NULL /\ place[x] = b /\ rank[e] < rank[x]
           es2 == Dropped(Unlinked(e), e)
           bs2 == IF p = NULL THEN [m_buckets EXCEPT ![b] = h] ELSE m_buckets
           place2 == [x \in D |-> IF x = e THEN Free ELSE IF Cut(x) THEN Lost ELSE place[x]]
           rank2 == [rank EXCEPT ![e] = top + 1]
           cont2 == [content EXCEPT ![k] = NULL]
           whole == intact /\ (p = NULL => m_buckets[b] = e)
<1>1. /\ Typed(n, c, entries, m_buckets, place, rank, top)
      /\ Linked(entries, m_buckets, m_free_entries, place, rank)
      /\ LinkedBack(entries, place) /\ Keyed(entries, c, place, content)
      /\ intact => Complete(entries, place, content)
  BY DEF SoundNow, Sound
<1>2. /\ n \in Nat /\ c \in Nat /\ top \in Nat
      /\ DOMAIN entries = D /\ DOMAIN place = D /\ DOMAIN rank = D
      /\ DOMAIN m_buckets = 0 .. c - 1
      /\ \A q : At(place, q) \in SUBSET D
      /\ Chained(place) = {x \in D : place[x] \in 0 .. c - 1}
      /\ rank \in [D -> Nat]
      /\ \A x \in D : /\ rank[x] \in 0 .. top /\ x # NULL
                      /\ place[x] \in 0 .. c - 1 \cup {Free, Lost}
                      /\ entries[x] \in EntryOf(D)
  BY <1>1, PlaceFacts
<1>3. /\ e \in D /\ place[e] = b /\ b \in 0 .. c - 1 /\ e \in S
  <2>1. e \in D /\ place[e] = b /\ place[e] \in 0 .. c - 1
    BY <1>1, <1>2 DEF Keyed
  <2> QED BY <1>2, <2>1 DEF At
<1>4. /\ Free \notin 0 .. c - 1 /\ Lost \notin 0 .. c - 1 /\ Free # Lost
  BY DEF Free, Lost
<1> HIDE DEF b
<1>5. /\ S \in SUBSET (1 .. n) /\ IsRanked(entries, S, rank) /\ IsTop(m_buckets[b], S, rank)
      /\ \A x \in S : x \in D /\ rank[x] \in Nat /\ x # NULL /\ place[x] = b
      /\ \A x \in D : place[x] = b => x \in S
  <2>1. S = {x \in D : place[x] = b}
    BY <1>2 DEF At
  <2>2. IsRanked(entries, S, rank) /\ IsTop(m_buckets[b], S, rank)
    BY <1>1, <1>2, <1>3 DEF Linked
  <2> HIDE DEF S
  <2> QED BY <1>2, <2>1, <2>2
<1>6. /\ h \in D \cup {NULL} /\ p \in D \cup {NULL}
  BY <1>2, <1>3 DEF EntryOf
<1>7. p # NULL => p \in S /\ entries[p].next = e
  BY <1>1, <1>3 DEF LinkedBack
<1>8. h # NULL => h \in S /\ rank[h] < rank[e]
  <2>1. IsTop(h, {y \in S : rank[y] < rank[e]}, rank)
    BY <1>3, <1>5 DEF IsRanked
  <2> QED BY <2>1 DEF IsTop
<1>9. h # e
  BY <1>3, <1>5, <1>8
<1>10. p # e
  <2>1. ASSUME p = e PROVE FALSE
    <3>1. h = e
      BY <1>2, <1>3, <1>7, <2>1
    <3> QED BY <1>9, <3>1
  <2> QED BY <2>1
<1> HIDE DEF D, S, p, h
<1>11. /\ es2 \in [D -> EntryOf(D)]
       /\ \A x \in D :
            /\ es2[x].key = entries[x].key /\ es2[x].value = entries[x].value
            /\ es2[x].next = IF x = e THEN m_free_entries ELSE IF x = p THEN h ELSE entries[x].next
            /\ x # e => es2[x].prev = IF x = h /\ x # p THEN p ELSE entries[x].prev
  BY UnlinkedIs DEF D, p, h
<1>12. /\ DOMAIN place2 = D /\ place2[e] = Free
       /\ \A x \in D : x # e /\ Cut(x) => place2[x] = Lost
       /\ \A x \in D : x # e /\ ~Cut(x) => place2[x] = place[x]
       /\ DOMAIN rank2 = D /\ rank2[e] = top + 1 /\ \A x \in D : x # e => rank2[x] = rank[x]
  BY <1>2, <1>3
<1>13. /\ DOMAIN bs2 = 0 .. c - 1
       /\ bs2[b] = IF p = NULL THEN h ELSE m_buckets[b]
       /\ \A d \in 0 .. c - 1 : d # b => bs2[d] = m_buckets[d]
  BY <1>2, <1>3
<1>14. Typed(n, c, es2, bs2, place2, rank2, top + 1)
  <2>1. bs2 \in [0 .. c - 1 -> D \cup {NULL}]
    <3>1. m_buckets \in [0 .. c - 1 -> D \cup {NULL}]
      BY <1>1 DEF Typed, D
    <3> QED BY <1>6, <3>1
  <2>2. place2 \in [D -> 0 .. c - 1 \cup {Free, Lost}]
    BY <1>2
  <2>3. rank2 \in [D -> 0 .. top + 1]
    <3>1. rank \in [D -> 0 .. top]
      BY <1>1 DEF Typed, D
    <3>2. rank \in [D -> 0 .. top + 1] /\ top + 1 \in 0 .. top + 1
      BY <1>2, <3>1
    <3> QED BY <3>2
  <2> HIDE DEF es2, bs2, place2, rank2
  <2> QED BY <1>2, <1>11, <2>1, <2>2, <2>3 DEF Typed, D
<1> HIDE DEF es2, bs2, place2, rank2
<1>15. Chained(place2) = {x \in D : place2[x] \in 0 .. c - 1}
  BY <1>14, PlaceFacts DEF D
<1>16. \A x \in D : x \in Chained(place2) <=> x \in Chained(place) /\ x # e /\ ~Cut(x)
  <2>1. ASSUME NEW x \in D
        PROVE  x \in Chained(place2) <=> x \in Chained(place) /\ x # e /\ ~Cut(x)
    <3>1. CASE x = e
      BY <1>4, <1>12, <1>15, <3>1
    <3>2. CASE x # e /\ Cut(x)
      <4> HIDE DEF Cut
      <4> QED BY <1>4, <1>12, <1>15, <3>2
    <3>3. CASE x # e /\ ~Cut(x)
      <4> HIDE DEF Cut
      <4> QED BY <1>2, <1>12, <1>15, <3>3
    <3> QED BY <3>1, <3>2, <3>3
  <2> QED BY <2>1
<1>17. \A x \in Chained(place2) : x \in Chained(place) /\ x # e /\ place2[x] = place[x] /\ x \in D
  <2>1. \A x \in Chained(place2) : x \in D
    BY <1>15
  <2> HIDE DEF Cut
  <2> QED BY <1>12, <1>16, <2>1
<1>18. /\ At(place2, Free) = At(place, Free) \cup {e}
       /\ At(place2, b) = IF p = NULL THEN Below(S, rank, e) ELSE S \ {e}
       /\ \A d \in 0 .. c - 1 : d # b => At(place2, d) = At(place, d)
  <2>1. \A q : At(place2, q) = {x \in D : place2[x] = q} /\ At(place, q) = {x \in D : place[x] = q}
    BY <1>2, <1>12 DEF At
  <2>2. At(place2, Free) = At(place, Free) \cup {e}
    <3>1. ASSUME NEW x \in D PROVE place2[x] = Free <=> place[x] = Free \/ x = e
      BY <1>3, <1>4, <1>12
    <3> QED BY <1>3, <2>1, <3>1
  <2>3. ASSUME NEW x \in D
        PROVE  place2[x] = b <=> x \in IF p = NULL THEN Below(S, rank, e) ELSE S \ {e}
    <3>1. CASE x = e
      BY <1>3, <1>4, <1>5, <1>12, <3>1 DEF Below
    <3>2. CASE x # e /\ x \notin S
      BY <1>3, <1>4, <1>5, <1>12, <3>2 DEF Below
    <3>3. CASE x # e /\ x \in S /\ p # NULL
      BY <1>5, <1>12, <3>3
    <3>4. CASE x # e /\ x \in S /\ p = NULL
      <4>1. rank[x] \in Nat /\ rank[e] \in Nat /\ rank[x] # rank[e] /\ place[x] = b
        BY <1>3, <1>5, <3>4 DEF IsRanked
      <4>2. CASE rank[e] < rank[x]
        BY <1>3, <1>4, <1>12, <3>4, <4>1, <4>2 DEF Below
      <4>3. CASE ~(rank[e] < rank[x])
        <5>1. rank[x] < rank[e]
          BY <4>1, <4>3
        <5> QED BY <1>12, <3>4, <4>1, <4>3, <5>1 DEF Below
      <4> QED BY <4>2, <4>3
    <3> QED BY <3>1, <3>2, <3>3, <3>4
  <2>4. At(place2, b) = IF p = NULL THEN Below(S, rank, e) ELSE S \ {e}
    <3>1. Below(S, rank, e) \subseteq D /\ S \subseteq D
      BY <1>5 DEF Below
    <3> QED BY <2>1, <2>3, <3>1
  <2>5. ASSUME NEW d \in 0 .. c - 1, d # b PROVE At(place2, d) = At(place, d)
    <3>1. \A x \in D : place2[x] = d <=> place[x] = d
      BY <1>3, <1>4, <1>12, <2>5
    <3> QED BY <2>1, <3>1
  <2> QED BY <2>2, <2>4, <2>5
<1>19. Linked(es2, bs2, e, place2, rank2)
  <2>0. /\ \A q \in 0 .. c - 1 \cup {Free} : IsRanked(entries, At(place, q), rank)
        /\ \A d \in 0 .. c - 1 : IsTop(m_buckets[d], At(place, d), rank)
        /\ IsTop(m_free_entries, At(place, Free), rank)
    BY <1>1, <1>2 DEF Linked
  <2>1. IsRanked(es2, At(place2, Free), rank2) /\ IsTop(e, At(place2, Free), rank2)
    <3> DEFINE F == At(place, Free)
    <3>1. /\ F \in SUBSET (1 .. n) /\ e \notin F
          /\ \A x \in F : x \in D /\ x # e /\ x # p /\ rank[x] \in 0 .. top
      <4>1. \A x \in F : x \in D /\ place[x] = Free
        BY <1>2 DEF At
      <4> QED BY <1>2, <1>3, <1>4, <1>5, <1>7, <4>1 DEF D
    <3>2. IsRanked(entries, F, rank) /\ IsTop(m_free_entries, F, rank)
      BY <2>0
    <3>3. PutOnTop(e, m_free_entries, F, entries, es2, rank, rank2)
      <4>1. SameOn(F, entries, es2, rank, rank2)
        BY <1>11, <1>12, <3>1 DEF SameOn
      <4>2. es2[e].next = m_free_entries /\ rank2[e] \in Nat
        BY <1>2, <1>3, <1>11, <1>12
      <4>3. \A x \in F : rank[x] \in Nat /\ rank[x] < rank2[e]
        BY <1>2, <1>12, <3>1
      <4> QED BY <4>1, <4>2, <4>3 DEF PutOnTop
    <3> HIDE DEF F
    <3>4. IsRanked(es2, F \cup {e}, rank2) /\ IsTop(e, F \cup {e}, rank2)
      BY <1>2, <3>1, <3>2, <3>3, RankedPush
    <3> QED BY <1>18, <3>4 DEF F
  <2>2. IsRanked(es2, At(place2, b), rank2) /\ IsTop(bs2[b], At(place2, b), rank2)
    <3>1. ASSUME p = NULL
          PROVE  IsRanked(es2, At(place2, b), rank2) /\ IsTop(bs2[b], At(place2, b), rank2)
      <4> DEFINE low == Below(S, rank, e)
      <4>1. IsRanked(entries, low, rank) /\ IsTop(h, low, rank)
        BY <1>2, <1>3, <1>5, RankedBelow DEF h
      <4>2. SameOn(low, entries, es2, rank, rank2)
        <5>1. \A x \in low : x \in D /\ x # e /\ x # p
          BY <1>3, <1>5, <3>1 DEF Below
        <5> QED BY <1>11, <1>12, <5>1 DEF SameOn
      <4>3. At(place2, b) = low /\ bs2[b] = h
        BY <1>13, <1>18, <3>1
      <4> HIDE DEF low
      <4>4. IsRanked(es2, low, rank2) /\ IsTop(h, low, rank2)
        BY <4>1, <4>2, RankedSame
      <4> QED BY <4>3, <4>4
    <3>2. ASSUME p # NULL
          PROVE  IsRanked(es2, At(place2, b), rank2) /\ IsTop(bs2[b], At(place2, b), rank2)
      <4> DEFINE T == S \ {e}
                 first == m_buckets[b]
      <4>1. p \in S /\ entries[p].next = e /\ p \in D
        BY <1>5, <1>7, <3>2
      <4>2. es2[p].next = entries[e].next
        BY <1>10, <1>11, <4>1 DEF h
      <4>3. \A x \in S \ {e, p} : es2[x].next = entries[x].next
        BY <1>5, <1>11
      <4>4. \A x \in S : rank[x] \in Nat
        BY <1>5
      <4> HIDE DEF first
      <4>5. IsRanked(es2, T, rank) /\ IsTop(first, T, rank)
        <5>1. IsTop(first, S, rank)
          BY <1>5 DEF first
        <5>2. TakenFromBehind(p, e, S, entries, es2)
          BY <4>1, <4>2, <4>3 DEF TakenFromBehind
        <5> QED BY <1>2, <1>3, <1>5, <4>1, <4>4, <5>1, <5>2, RankedTake
      <4>6. SameOn(T, es2, es2, rank, rank2)
        BY <1>5, <1>12 DEF SameOn
      <4>7. At(place2, b) = T /\ bs2[b] = first
        BY <1>13, <1>18, <3>2 DEF first
      <4> HIDE DEF T
      <4>8. IsRanked(es2, T, rank2) /\ IsTop(first, T, rank2)
        BY <4>5, <4>6, RankedSame
      <4> QED BY <4>7, <4>8
    <3> QED BY <3>1, <3>2
  <2>3. ASSUME NEW d \in 0 .. c - 1, d # b
        PROVE  IsRanked(es2, At(place2, d), rank2) /\ IsTop(bs2[d], At(place2, d), rank2)
    <3>1. At(place2, d) = At(place, d) /\ bs2[d] = m_buckets[d]
      BY <1>13, <1>18, <2>3
    <3>2. IsRanked(entries, At(place, d), rank) /\ IsTop(m_buckets[d], At(place, d), rank)
      BY <2>0
    <3>3. SameOn(At(place, d), entries, es2, rank, rank2)
      <4>1. \A x \in At(place, d) : x \in D /\ place[x] = d
        BY <1>2 DEF At
      <4>2. ASSUME NEW x \in At(place, d) PROVE x \in D /\ x # e /\ x # p
        <5>1. x \in D /\ place[x] = d /\ x # NULL
          BY <1>2, <4>1
        <5>2. p # NULL => place[p] = b
          BY <1>5, <1>7
        <5> QED BY <1>3, <2>3, <5>1, <5>2
      <4> QED BY <1>11, <1>12, <4>2 DEF SameOn
    <3> QED BY <3>1, <3>2, <3>3, RankedSame
  <2> QED BY <1>13, <2>1, <2>2, <2>3 DEF Linked
<1>20. LinkedBack(es2, place2)
  <2> SUFFICES ASSUME NEW x \in Chained(place2), es2[x].prev # NULL
               PROVE  es2[x].prev \in At(place2, place2[x]) /\ es2[es2[x].prev].next = x
    BY DEF LinkedBack
  <2> DEFINE q == es2[x].prev
  <2>1. x \in Chained(place) /\ x # e /\ place2[x] = place[x] /\ x \in D /\ ~Cut(x)
    BY <1>16, <1>17
  <2>2. CASE x = h /\ x # p
    <3>1. q = p /\ p # NULL
      BY <1>11, <2>1, <2>2
    <3>2. p \in S \ {e} /\ p \in D
      BY <1>5, <1>7, <1>10, <3>1
    <3>3. p \in At(place2, b)
      BY <1>18, <3>1, <3>2
    <3>4. place2[x] = b
      BY <1>2, <1>5, <1>8, <2>1, <2>2
    <3>5. es2[p].next = h
      BY <1>10, <1>11, <3>2
    <3> QED BY <2>2, <3>1, <3>3, <3>4, <3>5
  <2>3. CASE ~(x = h /\ x # p)
    <3>1. q = entries[x].prev
      BY <1>11, <2>1, <2>3
    <3> HIDE DEF q
    <3>2. q \in At(place, place[x]) /\ entries[q].next = x
      BY <1>1, <2>1, <3>1 DEF LinkedBack, q
    <3>3. q \in D /\ place[q] = place[x] /\ place[x] \in 0 .. c - 1
      BY <1>2, <2>1, <3>2 DEF At
    <3>4. q # p
      <4>1. ASSUME q = p PROVE FALSE
        <5>1. p # NULL
          BY <1>2, <3>3, <4>1
        <5>2. x = e
          BY <1>7, <3>2, <4>1, <5>1
        <5> QED BY <2>1, <5>2
      <4> QED BY <4>1
    <3>5. ASSUME q = e PROVE x = p /\ x = h
      <4>1. x = h
        BY <3>2, <3>5 DEF h
      <4> QED BY <2>3, <4>1
    <3>6. ~Cut(q) /\ q # e
      <4>1. CASE p # NULL
        <5>1. ASSUME q = e PROVE FALSE
          <6>1. p = h /\ entries[p].next = e /\ p \in S /\ h # NULL
            BY <1>7, <3>5, <4>1, <5>1
          <6>2. rank[p] < rank[e] /\ rank[p] \in Nat /\ rank[e] \in Nat
            BY <1>3, <1>5, <1>8, <6>1
          <6>3. IsTop(e, {y \in S : rank[y] < rank[p]}, rank) /\ e # NULL
            BY <1>3, <1>5, <6>1 DEF IsRanked
          <6>4. rank[e] < rank[p]
            BY <6>3 DEF IsTop
          <6> QED BY <6>2, <6>4
        <5> QED BY <4>1, <5>1
      <4>2. CASE p = NULL
        <5>1. x # NULL
          BY <1>2, <2>1
        <5>2. q # e
          BY <3>5, <4>2, <5>1
        <5>3. ASSUME place[q] = b, rank[e] < rank[q] PROVE FALSE
          <6>1. q \in S /\ x \in S
            BY <1>5, <2>1, <3>3, <5>3
          <6>2. IsTop(x, {y \in S : rank[y] < rank[q]}, rank)
            BY <1>5, <3>2, <6>1 DEF IsRanked
          <6>3. e \in {y \in S : rank[y] < rank[q]}
            BY <1>3, <5>3
          <6>4. rank[e] <= rank[x]
            BY <6>2, <6>3 DEF IsTop
          <6>5. rank[x] \in Nat /\ rank[e] \in Nat /\ rank[x] # rank[e]
            BY <1>3, <1>5, <2>1, <6>1 DEF IsRanked
          <6>6. rank[e] < rank[x] /\ place[x] = b
            BY <1>5, <6>1, <6>4, <6>5
          <6> QED BY <2>1, <4>2, <6>6
        <5> QED BY <5>2, <5>3
      <4> QED BY <4>1, <4>2
    <3>7. place2[q] = place[q] /\ q \in At(place2, place2[x])
      <4>1. place2[q] = place[q]
        BY <1>12, <3>3, <3>6
      <4> QED BY <1>12, <2>1, <3>3, <4>1 DEF At
    <3>8. es2[q].next = x
      BY <1>11, <3>2, <3>3, <3>4, <3>6
    <3> QED BY <3>7, <3>8 DEF q
  <2> QED BY <2>2, <2>3
<1>21. /\ cont2[k] = NULL /\ \A j \in Keys : j # k => cont2[j] = content[j]
       /\ \A x \in Chained(place) : entries[x].key \in Keys
       /\ \A x \in Chained(place) : x # e => entries[x].key # k
  <2>1. \A x \in Chained(place) : entries[x].key \in Keys
    BY <1>2 DEF EntryOf
  <2>2. \A x \in Chained(place) : x # e => entries[x].key # k
    BY <1>1 DEF Keyed
  <2> QED BY <2>1, <2>2
<1>22. Keyed(es2, c, place2, cont2)
  <2>1. \A x \in Chained(place2) : es2[x].key = entries[x].key /\ es2[x].value = entries[x].value
    BY <1>11, <1>17
  <2>2. ASSUME NEW x \in Chained(place2)
        PROVE  BucketOf(es2[x].key, c) = place2[x] /\ cont2[es2[x].key] = es2[x].value
    <3>1. x \in Chained(place) /\ x # e /\ place2[x] = place[x]
      BY <1>17
    <3>2. BucketOf(entries[x].key, c) = place[x] /\ content[entries[x].key] = entries[x].value
      BY <1>1, <3>1 DEF Keyed
    <3> QED BY <1>21, <2>1, <3>1, <3>2
  <2>3. \A x, y \in Chained(place2) : es2[x].key = es2[y].key => x = y
    BY <1>1, <1>17, <2>1 DEF Keyed
  <2> QED BY <2>2, <2>3 DEF Keyed
<1>23. whole => Complete(es2, place2, cont2)
  <2> SUFFICES ASSUME Complete(entries, place, content), p = NULL => m_buckets[b] = e
               PROVE  Complete(es2, place2, cont2)
    BY <1>1
  <2>1. ASSUME NEW x \in D PROVE ~Cut(x)
    <3>1. ASSUME p = NULL, place[x] = b, rank[e] < rank[x] PROVE FALSE
      <4>1. m_buckets[b] = e /\ x \in S
        BY <1>5, <3>1
      <4>2. rank[x] <= rank[e]
        BY <1>5, <4>1 DEF IsTop
      <4>3. rank[x] \in Nat /\ rank[e] \in Nat
        BY <1>3, <1>5, <4>1
      <4> QED BY <3>1, <4>2, <4>3
    <3> QED BY <3>1
  <2> HIDE DEF Cut
  <2>2. \A x \in DOMAIN place2 : place2[x] # Lost
    BY <1>2, <1>4, <1>12, <2>1 DEF Complete
  <2>3. ASSUME NEW j \in Keys, cont2[j] # NULL
        PROVE  \E x \in Chained(place2) : es2[x].key = j
    <3>1. j # k /\ content[j] # NULL
      BY <1>21, <2>3
    <3>2. PICK x \in Chained(place) : entries[x].key = j
      BY <3>1 DEF Complete
    <3>3. x \in D /\ x # e
      BY <1>2, <3>1, <3>2
    <3>4. x \in Chained(place2)
      BY <1>16, <2>1, <3>3
    <3> QED BY <1>11, <3>2, <3>3, <3>4
  <2> QED BY <2>2, <2>3 DEF Complete
<1>24. Sound(n, c, es2, bs2, e, place2, rank2, top + 1, cont2, whole)
  BY <1>14, <1>19, <1>20, <1>22, <1>23 DEF Sound
<1>25. RemovedAs(n, c, k, e, place2, rank2, top + 1)
  BY <1>24 DEF es2, bs2, cont2, b, p, h, RemovedAs
<1> QED BY <1>25

-----------------------------------------------------------------------------
\* The map has grown: the same entries are chained, in the order in which they
\* were taken.
LEMMA RehashedIs ==
  ASSUME HashMapAssumption, m_hash_fn \in [Keys -> Hashes],
         NEW n, NEW c, NEW place, NEW rank, NEW top, SoundNow(n, c, place, rank, top)
  PROVE  /\ NewCount \in Nat /\ NewCount # 0
         /\ \E place2, rank2, top2 :
              /\ Sound(n, NewCount, Rehashed.entries, Rehashed.buckets, m_free_entries,
                       place2, rank2, top2, content, intact)
              /\ Chained(place2) = Chained(place)
              /\ \A x \in 1 .. n :
                   /\ Rehashed.entries[x].key = entries[x].key
                   /\ x \notin Chained(place) => Rehashed.entries[x] = entries[x]
<1> DEFINE D == 1 .. n
           C == Chained(place)
           W == Walked
           l == Len(W)
           c2 == NewCount
           es2 == Rehashed.entries
           bs2 == Rehashed.buckets
           Slot(x) == BucketOf(entries[x].key, c2)
           pos == [x \in C |-> CHOOSE i \in DOMAIN W : W[i] = x]
           place2 == [x \in D |-> IF x \in C THEN Slot(x) ELSE place[x]]
           rank2 == [x \in D |-> IF x \in C THEN pos[x] ELSE rank[x]]
           top2 == top + l
<1>1. /\ Typed(n, c, entries, m_buckets, place, rank, top)
      /\ Linked(entries, m_buckets, m_free_entries, place, rank)
      /\ LinkedBack(entries, place) /\ Keyed(entries, c, place, content)
      /\ intact => Complete(entries, place, content)
  BY DEF SoundNow, Sound
<1>2. /\ n \in Nat /\ c \in Nat /\ top \in Nat
      /\ DOMAIN entries = D /\ DOMAIN place = D /\ DOMAIN rank = D
      /\ \A q : At(place, q) \in SUBSET D
      /\ C = {x \in D : place[x] \in 0 .. c - 1}
      /\ \A x \in D : /\ rank[x] \in 0 .. top /\ x # NULL
                      /\ place[x] \in 0 .. c - 1 \cup {Free, Lost}
                      /\ entries[x] \in EntryOf(D)
  BY <1>1, PlaceFacts
<1>3. m_bucket_count = c /\ W \in Seq(1 .. n) /\ ToSet(W) = C /\ IsInjective(W)
  BY <1>1, WalkedIs
<1>4. c2 \in Nat /\ c2 # 0
  BY <1>2, <1>3 DEF NewCount, HashMapAssumption
<1>5. \A x \in C : Slot(x) \in 0 .. c2 - 1
  <2>1. ASSUME NEW x \in C PROVE Slot(x) \in 0 .. c2 - 1
    <3>1. entries[x].key \in Keys
      BY <1>2 DEF EntryOf
    <3>2. m_hash_fn[entries[x].key] \in Nat
      BY <3>1 DEF HashMapAssumption
    <3> QED BY <1>4, <3>2 DEF BucketOf
  <2> QED BY <2>1
<1>6. l \in Nat /\ DOMAIN W = 1 .. l
  BY <1>3
<1>7. /\ \A i \in 1 .. l : W[i] \in C
      /\ \A x \in C : pos[x] \in 1 .. l /\ W[pos[x]] = x
      /\ \A i \in 1 .. l : pos[W[i]] = i
  <2>1. \A i \in 1 .. l : W[i] \in C
    BY <1>3, <1>6 DEF ToSet
  <2>2. ASSUME NEW x \in C PROVE pos[x] \in 1 .. l /\ W[pos[x]] = x
    <3>1. \E i \in DOMAIN W : W[i] = x
      BY <1>3 DEF ToSet
    <3>2. pos[x] = CHOOSE i \in DOMAIN W : W[i] = x
      OBVIOUS
    <3> HIDE DEF pos, W
    <3> QED BY <1>6, <3>1, <3>2
  <2>3. ASSUME NEW i \in 1 .. l PROVE pos[W[i]] = i
    <3>1. W[i] \in C
      BY <2>1
    <3>2. pos[W[i]] \in 1 .. l /\ W[pos[W[i]]] = W[i]
      BY <2>2, <3>1
    <3> HIDE DEF pos, W, l
    <3> QED BY <1>3, <1>6, <3>2 DEF IsInjective
  <2> HIDE DEF pos, W, l
  <2> QED BY <2>1, <2>2, <2>3
<1> HIDE DEF c2, C
<1>8. /\ DOMAIN place2 = D /\ DOMAIN rank2 = D
      /\ \A x \in C : x \in D /\ place2[x] = Slot(x) /\ rank2[x] = pos[x]
      /\ \A x \in D : x \notin C => place2[x] = place[x] /\ rank2[x] = rank[x]
  BY <1>2
<1>9. /\ DOMAIN bs2 = 0 .. c2 - 1 /\ DOMAIN es2 = D
      /\ \A b \in 0 .. c2 - 1 : bs2[b] = LastTaken(TakenFor(b))
      /\ \A x \in D : x \notin C => es2[x] = entries[x]
      /\ \A x \in C : es2[x] = Relinked(pos[x])
      /\ es2 = [x \in D |-> es2[x]] /\ bs2 = [b \in 0 .. c2 - 1 |-> bs2[b]]
  <2>1. bs2 = [b \in 0 .. NewCount - 1 |-> LastTaken(TakenFor(b))]
    BY DEF Rehashed, PlaceIn
  <2>2. es2 = [e \in DOMAIN entries |->
                  IF e \in ToSet(Walked)
                  THEN Relinked(CHOOSE i \in DOMAIN Walked : Walked[i] = e)
                  ELSE entries[e]]
    BY DEF Rehashed, PlaceIn
  <2>3. es2 = [e \in D |-> IF e \in C THEN Relinked(CHOOSE i \in DOMAIN W : W[i] = e)
                           ELSE entries[e]]
    BY <1>2, <1>3, <2>2
  <2> HIDE DEF es2, bs2
  <2>4. ASSUME NEW x \in C PROVE x \in D /\ es2[x] = Relinked(pos[x])
    <3>1. x \in D
      BY <1>8
    <3>2. pos[x] = CHOOSE i \in DOMAIN W : W[i] = x
      OBVIOUS
    <3> HIDE DEF pos, W, place2, rank2, D
    <3>3. es2[x] = Relinked(CHOOSE i \in DOMAIN W : W[i] = x)
      BY <2>3, <3>1
    <3> QED BY <3>1, <3>2, <3>3
  <2> HIDE DEF pos, W
  <2> QED BY <2>1, <2>3, <2>4 DEF c2
<1>10. \A b : TakenFor(b) = {i \in 1 .. l : Slot(W[i]) = b}
  BY <1>6 DEF TakenFor, c2
<1>11. ASSUME NEW x \in C
       PROVE  es2[x] = [entries[x] EXCEPT
                          !.next = LastTaken({m \in TakenFor(Slot(x)) : m < pos[x]}),
                          !.prev = FirstTaken({m \in TakenFor(Slot(x)) : m > pos[x]})]
  <2>1. W[pos[x]] = x
    BY <1>7
  <2>2. es2[x] = Relinked(pos[x])
    BY <1>9
  <2> HIDE DEF pos, es2
  <2> QED BY <2>1, <2>2 DEF Relinked, c2
<1>12. /\ \A S : LastTaken(S) = IF S = {} THEN NULL ELSE W[Max(S)]
       /\ \A S : FirstTaken(S) = IF S = {} THEN NULL ELSE W[Min(S)]
  BY DEF LastTaken, FirstTaken
<1> HIDE DEF place2, rank2, es2, bs2, pos, W, l
\* The entry that was taken last is the top one.
<1>13. ASSUME NEW U \in SUBSET C
       PROVE  LET T == {i \in 1 .. l : W[i] \in U}
              IN IsTop(LastTaken(T), U, rank2) /\ LastTaken(T) \in U \cup {NULL}
  <2> DEFINE T == {i \in 1 .. l : W[i] \in U}
  <2>1. \A y \in U : y \in C /\ pos[y] \in T /\ rank2[y] = pos[y]
    BY <1>7, <1>8
  <2>2. CASE T = {}
    <3>1. U = {}
      BY <2>1, <2>2
    <3> QED BY <1>12, <2>2, <3>1 DEF IsTop
  <2>3. CASE T # {}
    <3>1. Max(T) \in T /\ \A i \in T : i <= Max(T)
      <4>1. T \in SUBSET (1 .. l)
        OBVIOUS
      <4> HIDE DEF T
      <4> QED BY <1>6, <2>3, <4>1, MaxIs
    <3>2. LastTaken(T) = W[Max(T)]
      BY <1>12, <2>3
    <3> DEFINE m == Max(T)
    <3>3. W[m] \in U /\ rank2[W[m]] = m
      BY <1>7, <1>8, <3>1
    <3> HIDE DEF T
    <3>4. \A y \in U : rank2[y] <= m
      BY <2>1, <3>1
    <3> HIDE DEF m
    <3>5. IsTop(W[m], U, rank2)
      BY <3>3, <3>4 DEF IsTop
    <3> QED BY <3>2, <3>3, <3>5 DEF T, m
  <2> QED BY <2>2, <2>3
<1>14. Free \notin Nat /\ Lost \notin Nat /\ Free # Lost /\ Free \notin 0 .. c2 - 1
       /\ \A b \in 0 .. c2 - 1 : b \in Nat
  BY <1>4 DEF Free, Lost
<1>15. /\ \A b \in 0 .. c2 - 1 : At(place2, b) \in SUBSET C
       /\ At(place2, Free) = At(place, Free) /\ At(place, Free) \cap C = {}
       /\ Chained(place2) = C
       /\ \A b \in 0 .. c2 - 1 : \A x \in C : x \in At(place2, b) <=> Slot(x) = b
       /\ \A x \in C : x \in At(place2, Slot(x))
  <2>1. \A x \in D : x \notin C => place2[x] \in {Free, Lost}
    BY <1>2, <1>8
  <2>2. \A x \in C : x \in D /\ place2[x] = Slot(x) /\ Slot(x) \in 0 .. c2 - 1
    BY <1>5, <1>8
  <2>3. Chained(place2) = C
    BY <1>8, <1>14, <2>1, <2>2 DEF Chained
  <2>4. \A b \in 0 .. c2 - 1 : At(place2, b) \in SUBSET C
    BY <1>8, <1>14, <2>1 DEF At
  <2>5. At(place, Free) \cap C = {}
    <3>1. Free \notin 0 .. c - 1
      BY <1>2 DEF Free
    <3> QED BY <1>2, <3>1 DEF At
  <2>6. At(place2, Free) = At(place, Free)
    <3>1. \A x \in D : place2[x] = Free <=> place[x] = Free
      <4>1. \A x \in C : place[x] # Free
        BY <1>2, <2>5 DEF At
      <4> QED BY <1>8, <1>14, <2>2, <4>1
    <3> QED BY <1>2, <1>8, <3>1 DEF At
  <2>7. \A x \in C : x \in At(place2, Slot(x))
    BY <1>8, <2>2 DEF At
  <2>8. \A b \in 0 .. c2 - 1 : \A x \in C : x \in At(place2, b) <=> Slot(x) = b
    BY <1>8, <2>2 DEF At
  <2> QED BY <2>3, <2>4, <2>5, <2>6, <2>7, <2>8
<1> DEFINE Behind(b, x) == Below(At(place2, b), rank2, x)
<1>16. ASSUME NEW x \in C
       PROVE  /\ IsTop(es2[x].next, Behind(Slot(x), x), rank2)
              /\ es2[x].next \in C \cup {NULL}
  <2> DEFINE U == Behind(Slot(x), x)
             T == {i \in 1 .. l : W[i] \in U}
  <2>1. Slot(x) \in 0 .. c2 - 1
    BY <1>5
  <2>2. U \in SUBSET C
    BY <1>15, <2>1 DEF Below
  <2>3. {m \in TakenFor(Slot(x)) : m < pos[x]} = T
    <3>1. ASSUME NEW i \in 1 .. l
          PROVE  Slot(W[i]) = Slot(x) /\ i < pos[x] <=> W[i] \in U
      <4>1. W[i] \in C /\ rank2[W[i]] = i /\ rank2[x] = pos[x]
        BY <1>7, <1>8
      <4>2. W[i] \in At(place2, Slot(x)) <=> Slot(W[i]) = Slot(x)
        BY <1>15, <2>1, <4>1
      <4> QED BY <4>1, <4>2 DEF Below
    <3>2. TakenFor(Slot(x)) = {i \in 1 .. l : Slot(W[i]) = Slot(x)}
      BY <1>10
    <3> HIDE DEF U, Slot
    <3> QED BY <3>1, <3>2
  <2>4. es2[x].next = LastTaken(T)
    <3>1. entries[x] \in EntryOf(D)
      BY <1>2, <1>8
    <3>2. es2[x] = [entries[x] EXCEPT
                      !.next = LastTaken(T),
                      !.prev = FirstTaken({m \in TakenFor(Slot(x)) : m > pos[x]})]
      BY <1>11, <2>3
    <3> HIDE DEF T
    <3> QED BY <3>1, <3>2 DEF EntryOf
  <2> HIDE DEF U
  <2>5. IsTop(LastTaken(T), U, rank2) /\ LastTaken(T) \in U \cup {NULL}
    BY <1>13, <2>2
  <2> HIDE DEF T
  <2> QED BY <2>2, <2>4, <2>5 DEF U
<1>17. ASSUME NEW x \in C, es2[x].prev # NULL
       PROVE  es2[x].prev \in At(place2, Slot(x)) /\ es2[es2[x].prev].next = x
  <2> DEFINE T == {m \in TakenFor(Slot(x)) : m > pos[x]}
             j == Min(T)
             q == W[j]
  <2>1. es2[x].prev = FirstTaken(T)
    <3>1. entries[x] \in EntryOf(D)
      BY <1>2, <1>8
    <3>2. es2[x] = [entries[x] EXCEPT
                      !.next = LastTaken({m \in TakenFor(Slot(x)) : m < pos[x]}),
                      !.prev = FirstTaken(T)]
      BY <1>11
    <3> HIDE DEF T
    <3> QED BY <3>1, <3>2 DEF EntryOf
  <2>2. T # {} /\ es2[x].prev = q
    BY <1>12, <1>17, <2>1
  <2>3. j \in T /\ \A m \in T : j <= m
    <3>1. T \in SUBSET Nat
      BY <1>6, <1>10
    <3> HIDE DEF T
    <3> QED BY <2>2, <3>1, MinIs
  <2>4. j \in 1 .. l /\ Slot(q) = Slot(x) /\ pos[x] < j /\ pos[x] \in 1 .. l
    BY <1>7, <1>10, <2>3
  <2>5. q \in C /\ pos[q] = j /\ rank2[q] = j /\ rank2[x] = pos[x] /\ Slot(x) \in 0 .. c2 - 1
    BY <1>5, <1>7, <1>8, <2>4
  <2> HIDE DEF j, q
  <2>6. q \in At(place2, Slot(x)) /\ x \in At(place2, Slot(x))
    BY <1>15, <2>4, <2>5
  <2>7. IsTop(es2[q].next, Behind(Slot(x), q), rank2)
    <3>1. IsTop(es2[q].next, Behind(Slot(q), q), rank2)
      BY <1>16, <2>5
    <3> QED BY <2>4, <3>1
  <2>8. x \in Behind(Slot(x), q)
    BY <2>4, <2>5, <2>6 DEF Below
  <2> DEFINE y == es2[q].next
  <2>9. y \in Behind(Slot(x), q) /\ rank2[x] <= rank2[y]
    BY <2>7, <2>8 DEF IsTop
  <2>10. y \in At(place2, Slot(x)) /\ rank2[y] < j
    BY <2>5, <2>9 DEF Below
  <2> HIDE DEF y
  <2>11. y \in C /\ Slot(y) = Slot(x)
    BY <1>15, <2>5, <2>10
  <2>12. rank2[y] = pos[y] /\ pos[y] \in 1 .. l /\ W[pos[y]] = y /\ W[pos[x]] = x
    BY <1>7, <1>8, <2>11
  <2>13. pos[y] \in TakenFor(Slot(x))
    BY <1>10, <2>11, <2>12
  <2>14. ~(pos[y] > pos[x])
    <3>1. ASSUME pos[y] > pos[x] PROVE FALSE
      <4>1. pos[y] \in T
        BY <2>13, <3>1
      <4>2. j <= pos[y] /\ pos[y] < j
        BY <2>3, <2>10, <2>12, <4>1
      <4> QED BY <2>4, <2>12, <4>2
    <3> QED BY <3>1
  <2>15. pos[x] = pos[y]
    BY <2>4, <2>5, <2>9, <2>12, <2>14
  <2>16. x = y
    BY <2>12, <2>15
  <2> QED BY <2>2, <2>6, <2>16 DEF y
<1>18. \A x \in D : es2[x] \in EntryOf(D) /\ es2[x].key = entries[x].key /\ es2[x].value = entries[x].value
  <2>1. ASSUME NEW x \in C
        PROVE  /\ es2[x] \in EntryOf(D)
               /\ es2[x].key = entries[x].key /\ es2[x].value = entries[x].value
    <3> DEFINE a == LastTaken({m \in TakenFor(Slot(x)) : m < pos[x]})
               z == FirstTaken({m \in TakenFor(Slot(x)) : m > pos[x]})
    <3>1. entries[x] \in EntryOf(D)
      BY <1>2, <1>8
    <3>2. es2[x] = [entries[x] EXCEPT !.next = a, !.prev = z]
      BY <1>11
    <3> HIDE DEF a, z
    <3>3. es2[x].next = a /\ es2[x].prev = z /\ es2[x].key = entries[x].key
          /\ es2[x].value = entries[x].value
      BY <3>1, <3>2 DEF EntryOf
    <3>4. a \in D \cup {NULL}
      BY <1>8, <1>16, <3>3
    <3>5. z \in D \cup {NULL}
      <4>1. At(place2, Slot(x)) \in SUBSET D
        BY <1>8 DEF At
      <4> QED BY <1>17, <3>3, <4>1
    <3> QED BY <3>1, <3>2, <3>3, <3>4, <3>5 DEF EntryOf
  <2>2. \A x \in D : x \notin C => es2[x] = entries[x]
    BY <1>9
  <2> QED BY <1>2, <2>1, <2>2
<1>19. ASSUME NEW b \in 0 .. c2 - 1
       PROVE  /\ IsTop(bs2[b], At(place2, b), rank2) /\ bs2[b] \in D \cup {NULL}
              /\ IsRanked(es2, At(place2, b), rank2)
  <2> DEFINE U == At(place2, b)
  <2>1. U \in SUBSET C
    BY <1>15
  <2>2. TakenFor(b) = {i \in 1 .. l : W[i] \in U}
    <3>1. \A i \in 1 .. l : W[i] \in U <=> Slot(W[i]) = b
      BY <1>7, <1>15
    <3>2. TakenFor(b) = {i \in 1 .. l : Slot(W[i]) = b}
      BY <1>10
    <3> HIDE DEF U, Slot
    <3> QED BY <3>1, <3>2
  <2>3. bs2[b] = LastTaken(TakenFor(b))
    BY <1>9
  <2> HIDE DEF U
  <2>4. IsTop(LastTaken(TakenFor(b)), U, rank2) /\ LastTaken(TakenFor(b)) \in U \cup {NULL}
    BY <1>13, <2>1, <2>2
  <2>5. \A x, y \in U : rank2[x] = rank2[y] => x = y
    <3>1. \A x \in U : x \in C /\ rank2[x] = pos[x] /\ W[pos[x]] = x
      BY <1>7, <1>8, <2>1
    <3> QED BY <3>1
  <2>6. ASSUME NEW x \in U PROVE IsTop(es2[x].next, {y \in U : rank2[y] < rank2[x]}, rank2)
    <3>1. x \in C /\ Slot(x) = b
      BY <1>15, <2>1 DEF U
    <3>2. IsTop(es2[x].next, Behind(Slot(x), x), rank2)
      BY <1>16, <3>1
    <3>3. Behind(Slot(x), x) = {y \in U : rank2[y] < rank2[x]}
      BY <3>1 DEF Below, U
    <3> QED BY <3>2, <3>3
  <2>7. IsRanked(es2, U, rank2)
    BY <2>5, <2>6 DEF IsRanked
  <2>8. \A x \in U : x \in D
    BY <1>8, <2>1
  <2> QED BY <2>3, <2>4, <2>7, <2>8 DEF U
<1> HIDE DEF Behind
<1>20. Linked(es2, bs2, m_free_entries, place2, rank2)
  <2> DEFINE F == At(place, Free)
  <2>1. IsRanked(entries, F, rank) /\ IsTop(m_free_entries, F, rank)
    BY <1>1 DEF Linked
  <2>2. SameOn(F, entries, es2, rank, rank2)
    <3>1. \A x \in F : x \in D /\ x \notin C
      BY <1>2, <1>15
    <3> QED BY <1>8, <1>9, <3>1 DEF SameOn
  <2> HIDE DEF F
  <2>3. IsRanked(es2, F, rank2) /\ IsTop(m_free_entries, F, rank2)
    BY <2>1, <2>2, RankedSame
  <2> QED BY <1>9, <1>15, <1>19, <2>3 DEF Linked, F
<1>21. LinkedBack(es2, place2)
  BY <1>8, <1>15, <1>17 DEF LinkedBack
<1>22. Typed(n, c2, es2, bs2, place2, rank2, top2)
  <2>1. es2 \in [D -> EntryOf(D)]
    BY <1>9, <1>18
  <2>2. bs2 \in [0 .. c2 - 1 -> D \cup {NULL}]
    BY <1>9, <1>19
  <2>3. place2 \in [D -> 0 .. c2 - 1 \cup {Free, Lost}]
    <3>1. \A x \in D : place2[x] \in 0 .. c2 - 1 \cup {Free, Lost}
      BY <1>2, <1>5, <1>8
    <3> QED BY <3>1 DEF place2
  <2>4. rank2 \in [D -> 0 .. top2]
    <3>1. ASSUME NEW x \in D PROVE rank2[x] \in 0 .. top2
      <4>1. CASE x \in C
        <5>1. rank2[x] \in 1 .. l
          BY <1>7, <1>8, <4>1
        <5> QED BY <1>2, <1>6, <5>1
      <4>2. CASE x \notin C
        <5>1. rank2[x] \in 0 .. top
          BY <1>2, <1>8, <4>2
        <5> QED BY <1>2, <1>6, <5>1
      <4> QED BY <4>1, <4>2
    <3> QED BY <3>1 DEF rank2
  <2>5. top2 \in Nat
    BY <1>2, <1>6
  <2> QED BY <1>2, <1>4, <2>1, <2>2, <2>3, <2>4, <2>5 DEF Typed
<1>23. Keyed(es2, c2, place2, content)
  <2>1. \A x \in C : /\ es2[x].key = entries[x].key /\ es2[x].value = entries[x].value
                     /\ place2[x] = BucketOf(entries[x].key, c2)
    BY <1>8, <1>18
  <2> QED BY <1>1, <1>15, <2>1 DEF Keyed, C
<1>24. intact => Complete(es2, place2, content)
  <2>1. ASSUME Complete(entries, place, content) PROVE Complete(es2, place2, content)
    <3>1. \A x \in DOMAIN place2 : place2[x] # Lost
      <4>1. \A x \in C : place2[x] # Lost
        BY <1>5, <1>8, <1>14
      <4>2. \A x \in D : place[x] # Lost
        BY <1>2, <2>1 DEF Complete
      <4> QED BY <1>8, <4>1, <4>2
    <3>2. \A k \in Keys : content[k] # NULL => \E x \in C : es2[x].key = k
      BY <1>8, <1>18, <2>1 DEF Complete, C
    <3> QED BY <1>15, <3>1, <3>2 DEF Complete
  <2> QED BY <1>1, <2>1
<1>25. Sound(n, c2, es2, bs2, m_free_entries, place2, rank2, top2, content, intact)
  BY <1>20, <1>21, <1>22, <1>23, <1>24 DEF Sound
<1> HIDE DEF top2, D
<1>26. /\ Chained(place2) = C
       /\ \A x \in D : es2[x].key = entries[x].key /\ (x \notin C => es2[x] = entries[x])
  BY <1>9, <1>15, <1>18
<1> QED BY <1>4, <1>25, <1>26 DEF c2, es2, bs2, C, D

-----------------------------------------------------------------------------
\* The same of the map as an insertion goes on with it.
LEMMA GrownIs ==
  ASSUME HashMapAssumption, m_hash_fn \in [Keys -> Hashes], m_size \in Nat,
         NEW n, NEW c, NEW place, NEW rank, NEW top, SoundNow(n, c, place, rank, top)
  PROVE  \E c2, place2, rank2, top2 :
           /\ c2 \in Nat /\ c2 # 0
           /\ Sound(n, c2, Grown.entries, Grown.buckets, m_free_entries,
                    place2, rank2, top2, content, intact)
           /\ \A k : NoKey(entries, place, k) => NoKey(Grown.entries, place2, k)
           /\ m_free_entries # NULL => Grown.entries[m_free_entries] = entries[m_free_entries]
<1>1. /\ Typed(n, c, entries, m_buckets, place, rank, top)
      /\ Linked(entries, m_buckets, m_free_entries, place, rank)
  BY DEF SoundNow, Sound
<1>2. /\ c \in Nat /\ \A q : At(place, q) \in SUBSET (1 .. n)
      /\ Chained(place) = {x \in 1 .. n : place[x] \in 0 .. c - 1}
  BY <1>1, PlaceFacts
<1>3. CASE MustGrow
  <2>1. Grown = Rehashed
    BY <1>3 DEF Grown
  <2>2. NewCount \in Nat /\ NewCount # 0
    BY RehashedIs
  <2>3. PICK place2, rank2, top2 :
           /\ Sound(n, NewCount, Rehashed.entries, Rehashed.buckets, m_free_entries,
                    place2, rank2, top2, content, intact)
           /\ Chained(place2) = Chained(place)
           /\ \A x \in 1 .. n :
                /\ Rehashed.entries[x].key = entries[x].key
                /\ x \notin Chained(place) => Rehashed.entries[x] = entries[x]
    BY RehashedIs
  <2>4. \A k : NoKey(entries, place, k) => NoKey(Rehashed.entries, place2, k)
    BY <1>2, <2>3 DEF NoKey
  <2>5. m_free_entries # NULL => Rehashed.entries[m_free_entries] = entries[m_free_entries]
    <3>1. IsTop(m_free_entries, At(place, Free), rank)
      BY <1>1 DEF Linked
    <3>2. m_free_entries # NULL => m_free_entries \in At(place, Free)
      BY <3>1 DEF IsTop
    <3>3. Free \notin 0 .. c - 1
      BY <1>2 DEF Free
    <3> QED BY <1>2, <2>3, <3>2, <3>3 DEF At
  <2> QED BY <2>1, <2>2, <2>3, <2>4, <2>5
<1>4. CASE ~MustGrow
  <2>1. Grown.entries = entries /\ Grown.buckets = m_buckets
    BY <1>4 DEF Grown
  <2>2. c # 0
    <3>1. m_bucket_count = c
      BY <1>1, WalkedIs
    <3> QED BY <1>4, <3>1 DEF MustGrow
  <2> QED BY <1>2, <2>1, <2>2 DEF SoundNow
<1> QED BY <1>3, <1>4

-----------------------------------------------------------------------------
(***************************************************************************)
(* A map that was cleared: every list is the free list, or its end.        *)
(***************************************************************************)
ClearedAs(n, c, S, es, bs, free, rank) ==
  /\ n \in Nat /\ c \in Nat /\ S \in SUBSET (1 .. n)
  /\ es \in [1 .. n -> EntryOf(1 .. n)]
  /\ bs \in [0 .. c - 1 -> 1 .. n \cup {NULL}]
  /\ rank \in [1 .. n -> Nat]
  /\ IsRanked(es, S, rank) /\ IsTop(free, S, rank)
  /\ \A b \in 0 .. c - 1 : bs[b] # NULL => bs[b] \in S /\ BucketOf(es[bs[b]].key, c) = b
  /\ \E b \in 0 .. c - 1 : bs[b] # NULL

ClearedNow(n, c, S, rank) ==
  ClearedAs(n, c, S, entries, m_buckets, m_free_entries, rank)

LEMMA ClearedNext ==
  ASSUME m_hash_fn' = m_hash_fn, NEW n, NEW c, NEW S, NEW rank,
         ClearedAs(n, c, S, entries', m_buckets', m_free_entries', rank)
  PROVE  ClearedNow(n, c, S, rank)'
BY DEF ClearedNow, ClearedAs, EntryOf, IsRanked, IsTop, BucketOf, NULL

\* The end of a list from one of its entries on.
LEMMA RankedEnd ==
  ASSUME NEW n \in Nat, NEW es, NEW S \in SUBSET (1 .. n), NEW rank \in [1 .. n -> Nat],
         IsRanked(es, S, rank), NEW h \in S
  PROVE  \E T \in SUBSET S : h \in T /\ IsRanked(es, T, rank) /\ IsTop(h, T, rank)
<1> DEFINE T == {y \in S : rank[y] <= rank[h]}
<1>1. \A x \in S : rank[x] \in Nat
  OBVIOUS
<1>2. h \in T /\ \A y \in T : rank[y] <= rank[h]
  BY <1>1
<1>3. IsTop(h, T, rank)
  <2> HIDE DEF T
  <2> QED BY <1>2 DEF IsTop
<1>4. ASSUME NEW x \in T
      PROVE  IsTop(es[x].next, {y \in T : rank[y] < rank[x]}, rank)
  <2>1. {y \in T : rank[y] < rank[x]} = {y \in S : rank[y] < rank[x]}
    <3>1. rank[x] <= rank[h] /\ x \in S /\ rank[x] \in Nat /\ rank[h] \in Nat
      BY <1>1
    <3>2. \A y \in S : rank[y] < rank[x] => rank[y] <= rank[h]
      BY <1>1, <3>1
    <3> QED BY <3>2
  <2>2. IsTop(es[x].next, {y \in S : rank[y] < rank[x]}, rank)
    BY DEF IsRanked
  <2> QED BY <2>1, <2>2
<1>5. IsRanked(es, T, rank)
  <2>1. \A x, y \in T : rank[x] = rank[y] => x = y
    BY DEF IsRanked
  <2> HIDE DEF T
  <2> QED BY <1>4, <2>1 DEF IsRanked
<1>6. T \in SUBSET S
  OBVIOUS
<1> HIDE DEF T
<1> QED BY <1>2, <1>3, <1>5, <1>6

\* The chain of bucket b is a list of entries of S, and has what the bucket leads to.
EndOf(S, b) ==
  \E T \in SUBSET S : /\ IsListOf(Chain(b), m_buckets[b], T, entries)
                      /\ m_buckets[b] # NULL => m_buckets[b] \in T

\* The lists of a cleared map, and a key that is still found.
LEMMA ClearedIs ==
  ASSUME HashMapAssumption, m_hash_fn \in [Keys -> Hashes],
         NEW n, NEW c, NEW S, NEW rank, ClearedNow(n, c, S, rank)
  PROVE  /\ IsListOf(ListFrom(m_free_entries), m_free_entries, S, entries)
         /\ DOMAIN m_buckets = 0 .. c - 1 /\ m_bucket_count = c
         /\ \A b \in 0 .. c - 1 : EndOf(S, b)
         /\ \E k \in Keys : Found(k) # NULL
<1>1. /\ n \in Nat /\ c \in Nat /\ S \in SUBSET (1 .. n)
      /\ entries \in [1 .. n -> EntryOf(1 .. n)]
      /\ m_buckets \in [0 .. c - 1 -> 1 .. n \cup {NULL}]
      /\ rank \in [1 .. n -> Nat]
      /\ IsRanked(entries, S, rank) /\ IsTop(m_free_entries, S, rank)
      /\ \A b \in 0 .. c - 1 :
           m_buckets[b] # NULL => m_buckets[b] \in S /\ BucketOf(entries[m_buckets[b]].key, c) = b
      /\ \E b \in 0 .. c - 1 : m_buckets[b] # NULL
  BY DEF ClearedNow, ClearedAs
<1>2. IsListOf(ListFrom(m_free_entries), m_free_entries, S, entries)
  BY <1>1, ListIs
<1>3. DOMAIN m_buckets = 0 .. c - 1
  BY <1>1
<1>4. m_bucket_count = c
  BY <1>1, <1>3, Counted DEF m_bucket_count
<1>5. ASSUME NEW b \in 0 .. c - 1
      PROVE  EndOf(S, b)
  <2> DEFINE h == m_buckets[b]
  <2>1. CASE h = NULL
    <3>1. {} \in SUBSET (1 .. n) /\ IsRanked(entries, {}, rank) /\ IsTop(h, {}, rank)
      BY <2>1 DEF IsRanked, IsTop
    <3>2. IsListOf(ListFrom(h), h, {}, entries)
      BY <1>1, <3>1, ListIs
    <3> QED BY <2>1, <3>2 DEF Chain, EndOf
  <2>2. CASE h # NULL
    <3>1. h \in S
      BY <1>1, <2>2
    <3> HIDE DEF h
    <3>2. PICK T \in SUBSET S : h \in T /\ IsRanked(entries, T, rank) /\ IsTop(h, T, rank)
      <4>1. n \in Nat /\ S \in SUBSET (1 .. n) /\ rank \in [1 .. n -> Nat] /\ IsRanked(entries, S, rank)
        BY <1>1
      <4> QED BY <3>1, <4>1, RankedEnd
    <3>3. T \in SUBSET (1 .. n)
      BY <1>1, <3>2
    <3>4. IsListOf(ListFrom(h), h, T, entries)
      BY <1>1, <3>2, <3>3, ListIs
    <3> QED BY <3>2, <3>4 DEF Chain, EndOf, h
  <2> QED BY <2>1, <2>2
<1>6. \E k \in Keys : Found(k) # NULL
  <2>1. PICK b \in 0 .. c - 1 : m_buckets[b] # NULL
    BY <1>1
  <2> DEFINE h == m_buckets[b]
             k == entries[h].key
             ch == Chain(b)
             same == {i \in DOMAIN ch : entries[ch[i]].key = k}
  <2>2. PICK T \in SUBSET S : IsListOf(ch, h, T, entries) /\ h \in T
    <3>1. EndOf(S, b)
      BY <1>5
    <3> QED BY <2>1, <3>1 DEF EndOf
  <2>3. h \in 1 .. n /\ k \in Keys /\ BucketOf(k, c) = b /\ c # 0
    <3>1. h \in 1 .. n /\ BucketOf(k, c) = b
      BY <1>1, <2>1
    <3>2. entries[h] \in EntryOf(1 .. n)
      BY <1>1, <3>1
    <3> QED BY <1>1, <3>1, <3>2 DEF EntryOf
  <2>4. Lookup(k) = IF same = {} THEN NULL ELSE ch[Min(same)]
    BY <1>4, <2>3 DEF Lookup
  <2> HIDE DEF h, k, ch
  <2>5. ch \in Seq(T) /\ ToSet(ch) = T
    BY <2>2 DEF IsListOf
  <2>6. PICK i \in DOMAIN ch : ch[i] = h
    BY <2>2, <2>5 DEF ToSet
  <2>7. i \in same /\ same \in SUBSET Nat
    BY <2>5, <2>6 DEF k
  <2>8. Min(same) \in same
    <3> HIDE DEF same
    <3> QED BY <2>7, MinIs
  <2>9. Lookup(k) \in T
    BY <2>4, <2>5, <2>7, <2>8
  <2>10. Lookup(k) \in 1 .. n /\ Lookup(k) # NULL
    <3>1. T \in SUBSET (1 .. n)
      BY <1>1, <2>2
    <3>2. Lookup(k) \in 1 .. n
      BY <2>9, <3>1
    <3> QED BY <3>2 DEF NULL
  <2>11. entries[Lookup(k)] \in EntryOf(1 .. n)
    BY <1>1, <2>10
  <2>12. entries[Lookup(k)].value # NULL
    BY <2>11 DEF EntryOf, HashMapAssumption, NULL
  <2>13. Exists(k)
    BY <1>4, <2>3, <2>10 DEF Exists
  <2> QED BY <2>3, <2>12, <2>13 DEF Found
<1> QED BY <1>2, <1>3, <1>4, <1>5, <1>6

\* Any list without repetitions has ranks.
LEMMA ListRanks ==
  ASSUME NEW n \in Nat, NEW s \in Seq(1 .. n), IsInjective(s), NEW es,
         \A i \in DOMAIN s : es[s[i]].next = IF i = Len(s) THEN NULL ELSE s[i + 1]
  PROVE  \E rank \in [1 .. n -> Nat] :
           /\ IsRanked(es, ToSet(s), rank)
           /\ IsTop(IF s = <<>> THEN NULL ELSE Head(s), ToSet(s), rank)
<1> DEFINE m == Len(s)
           rank == [x \in 1 .. n |-> IF x \in ToSet(s) THEN m - PlaceIn(s, x) ELSE 0]
<1>1. m \in Nat /\ DOMAIN s = 1 .. m /\ ToSet(s) \subseteq 1 .. n
  BY DEF ToSet
<1>2. ASSUME NEW i \in 1 .. m PROVE s[i] \in 1 .. n /\ s[i] \in ToSet(s) /\ PlaceIn(s, s[i]) = i
  <2>1. \A l \in DOMAIN s : s[l] = s[i] => l = i
    BY <1>1 DEF IsInjective
  <2>2. \E l \in DOMAIN s : s[l] = s[i]
    BY <1>1
  <2>3. PlaceIn(s, s[i]) = i
    BY <2>1, <2>2 DEF PlaceIn
  <2> QED BY <1>1, <2>3 DEF ToSet
<1> HIDE DEF m
<1>3. \A x \in ToSet(s) : \E i \in 1 .. m : x = s[i]
  BY <1>1 DEF ToSet
<1>4. \A i \in 1 .. m : rank[s[i]] = m - i
  BY <1>2
<1>5. rank \in [1 .. n -> Nat]
  <2>1. \A x \in ToSet(s) : m - PlaceIn(s, x) \in Nat
    BY <1>1, <1>2, <1>3
  <2> QED BY <2>1
<1> HIDE DEF rank
<1>6. \A x, y \in ToSet(s) : rank[x] = rank[y] => x = y
  BY <1>1, <1>3, <1>4
<1>7. ASSUME NEW x \in ToSet(s)
      PROVE  IsTop(es[x].next, {y \in ToSet(s) : rank[y] < rank[x]}, rank)
  <2> DEFINE B == {y \in ToSet(s) : rank[y] < rank[x]}
  <2>1. PICK i \in 1 .. m : x = s[i]
    BY <1>3
  <2>2. \A y \in B : \E j \in i + 1 .. m : y = s[j]
    <3> TAKE y \in B
    <3>1. PICK j \in 1 .. m : y = s[j]
      BY <1>3
    <3>2. m - j < m - i
      BY <1>4, <2>1, <3>1
    <3>3. j \in i + 1 .. m
      BY <1>1, <3>2
    <3> QED BY <3>1, <3>3
  <2>3. es[x].next = IF i = m THEN NULL ELSE s[i + 1]
    BY <1>1, <2>1 DEF m
  <2>4. CASE i = m
    <3>1. B = {}
      <4>1. i + 1 .. m = {}
        BY <1>1, <2>4
      <4> QED BY <2>2, <4>1
    <3> HIDE DEF B
    <3> QED BY <2>3, <2>4, <3>1 DEF IsTop, B
  <2>5. CASE i # m
    <3>1. i + 1 \in 1 .. m
      BY <1>1, <2>5
    <3>2. rank[s[i + 1]] = m - (i + 1) /\ rank[x] = m - i
      BY <1>4, <2>1, <3>1
    <3>3. s[i + 1] \in B
      BY <1>1, <1>2, <3>1, <3>2
    <3>4. ASSUME NEW y \in B PROVE rank[y] <= rank[s[i + 1]]
      <4>1. PICK j \in i + 1 .. m : y = s[j]
        BY <2>2
      <4>2. j \in 1 .. m
        BY <1>1, <4>1
      <4>3. rank[y] = m - j
        BY <1>4, <4>1, <4>2
      <4> QED BY <1>1, <3>2, <4>1, <4>3
    <3> HIDE DEF B
    <3>5. IsTop(s[i + 1], B, rank)
      BY <3>3, <3>4 DEF IsTop
    <3> QED BY <2>3, <2>5, <3>5 DEF B
  <2> QED BY <2>4, <2>5
<1>8. IsRanked(es, ToSet(s), rank)
  BY <1>6, <1>7 DEF IsRanked
<1>9. IsTop(IF s = <<>> THEN NULL ELSE Head(s), ToSet(s), rank)
  <2>1. CASE s = <<>>
    <3>1. ToSet(s) = {}
      BY <2>1 DEF ToSet
    <3> QED BY <2>1, <3>1 DEF IsTop
  <2>2. CASE s # <<>>
    <3>1. 1 \in 1 .. m /\ Head(s) = s[1]
      BY <1>1, <2>2 DEF m
    <3>2. s[1] \in ToSet(s) /\ rank[s[1]] = m - 1
      BY <1>2, <1>4, <3>1
    <3>3. ASSUME NEW y \in ToSet(s) PROVE rank[y] <= rank[s[1]]
      <4>1. PICK j \in 1 .. m : y = s[j]
        BY <1>3
      <4> QED BY <1>1, <1>4, <3>2, <4>1
    <3> QED BY <2>2, <3>1, <3>2, <3>3 DEF IsTop
  <2> QED BY <2>1, <2>2
<1> QED BY <1>5, <1>8, <1>9

LEMMA Reversed ==
  ASSUME NEW E, NEW s \in Seq(E), IsInjective(s)
  PROVE  /\ Reverse(s) \in Seq(E) /\ ToSet(Reverse(s)) = ToSet(s) /\ IsInjective(Reverse(s))
         /\ Len(Reverse(s)) = Len(s)
<1> DEFINE m == Len(s)
           r == Reverse(s)
<1>1. m \in Nat /\ DOMAIN s = 1 .. m /\ \A i \in 1 .. m : s[i] \in E
  OBVIOUS
<1>2. r = [i \in 1 .. m |-> s[(m - i) + 1]]
  BY DEF Reverse
<1> HIDE DEF m, r
<1>3. \A i \in 1 .. m : (m - i) + 1 \in 1 .. m /\ (m - ((m - i) + 1)) + 1 = i
  BY <1>1
<1>4. r \in Seq(E) /\ Len(r) = m /\ DOMAIN r = 1 .. m
  <2>1. \A i \in 1 .. m : s[(m - i) + 1] \in E
    BY <1>1, <1>3
  <2> QED BY <1>1, <1>2, <2>1
<1>5. ToSet(r) = ToSet(s)
  <2>1. \A i \in 1 .. m : r[i] \in ToSet(s)
    BY <1>1, <1>2, <1>3 DEF ToSet
  <2>2. \A i \in 1 .. m : s[i] \in ToSet(r)
    <3> TAKE i \in 1 .. m
    <3>1. r[(m - i) + 1] = s[i]
      BY <1>2, <1>3
    <3> QED BY <1>3, <1>4, <3>1 DEF ToSet
  <2> QED BY <1>1, <1>4, <2>1, <2>2 DEF ToSet
<1>6. ASSUME NEW i \in 1 .. m, NEW j \in 1 .. m, r[i] = r[j] PROVE i = j
  <2>1. (m - i) + 1 = (m - j) + 1
    BY <1>1, <1>2, <1>3, <1>6 DEF IsInjective
  <2> QED BY <1>1, <2>1
<1>7. IsInjective(r)
  BY <1>4, <1>6 DEF IsInjective
<1> QED BY <1>4, <1>5, <1>7 DEF r, m

-----------------------------------------------------------------------------
IInv ==
  /\ m_hash_fn \in [Keys -> Hashes]
  /\ m_size \in Nat
  /\ Entries \subseteq 1 .. MaxEntries
  /\ content \in [Keys -> Values \cup {NULL}]
  /\ intact \in BOOLEAN
  /\ status \in {"ok", "cleared", "freed", "wild"}
  /\ Ok => /\ IsFiniteSet(Given) /\ Cardinality(Given) <= m_size
           /\ intact => m_size = Cardinality(Given)
           /\ \E n, c, place, rank, top : SoundNow(n, c, place, rank, top)
  /\ Cleared => /\ m_size = 0 /\ \A k \in Keys : content[k] = NULL
                /\ \E n, c, S, rank : /\ ClearedNow(n, c, S, rank)
                                      /\ intact => S = 1 .. n
  /\ status = "freed" /\ intact => Entries = {}

LEMMA InitIs == HashMapAssumption /\ Init => IInv
<1> SUFFICES ASSUME HashMapAssumption, Init PROVE IInv
  OBVIOUS
<1>1. /\ m_hash_fn \in [Keys -> Hashes] /\ m_size = 0 /\ entries = <<>> /\ status = "ok"
      /\ content = [k \in Keys |-> NULL] /\ intact = TRUE /\ m_free_entries = NULL
      /\ m_buckets = [b \in {} |-> NULL]
  BY DEF Init
<1>2. Given = {}
  BY <1>1 DEF Given
<1>3. IsFiniteSet(Given) /\ Cardinality(Given) = 0
  BY <1>2, FS_EmptySet
<1>4. SoundNow(0, 0, <<>>, <<>>, 0)
  <2>1. 1 .. 0 = {} /\ 0 .. 0 - 1 = {} /\ DOMAIN <<>> = {} /\ DOMAIN m_buckets = {}
    BY <1>1
  <2>2. Typed(0, 0, entries, m_buckets, <<>>, <<>>, 0)
    BY <1>1, <2>1 DEF Typed
  <2>3. Chained(<<>>) = {} /\ \A p : At(<<>>, p) = {}
    BY <2>1 DEF Chained, At
  <2>4. Linked(entries, m_buckets, m_free_entries, <<>>, <<>>)
    BY <1>1, <2>1, <2>3 DEF Linked, IsRanked, IsTop
  <2>5. LinkedBack(entries, <<>>) /\ Keyed(entries, 0, <<>>, content)
    BY <2>3 DEF LinkedBack, Keyed
  <2>6. Complete(entries, <<>>, content)
    BY <1>1, <2>1 DEF Complete
  <2> QED BY <2>2, <2>4, <2>5, <2>6 DEF SoundNow, Sound
<1>5. Entries = {}
  BY <1>1 DEF Entries
<1>6. \E n, c, place, rank, top : SoundNow(n, c, place, rank, top)
  BY <1>4
<1>7. content \in [Keys -> Values \cup {NULL}] /\ m_size \in Nat
  BY <1>1
<1> QED BY <1>1, <1>3, <1>5, <1>6, <1>7 DEF IInv, Ok, Cleared

\* A map that is sound with its new parts is sound in the next state.
LEMMA SoundNext ==
  ASSUME m_hash_fn' = m_hash_fn,
         NEW n, NEW c, NEW place, NEW rank, NEW top,
         Sound(n, c, entries', m_buckets', m_free_entries', place, rank, top, content', intact')
  PROVE  SoundNow(n, c, place, rank, top)'
BY DEF SoundNow, Sound, Typed, Linked, LinkedBack, Keyed, Complete, BucketOf,
       IsRanked, IsTop, At, Chained, EntryOf, NULL, Free, Lost

LEMMA SizeIs ==
  ASSUME NEW n, NEW c, NEW place, NEW rank, NEW top, SoundNow(n, c, place, rank, top)
  PROVE  n \in Nat /\ Entries = 1 .. n /\ Len(entries) = n
<1>1. Typed(n, c, entries, m_buckets, place, rank, top)
  BY DEF SoundNow, Sound
<1> QED BY <1>1 DEF Typed, Entries

\* The entries stay the same ones.
LEMMA SameEntries ==
  ASSUME NEW n, NEW c, NEW place, NEW rank, NEW top, SoundNow(n, c, place, rank, top),
         NEW c2, NEW place2, NEW rank2, NEW top2, SoundNow(n, c2, place2, rank2, top2)'
  PROVE  Entries' = Entries
<1>1. DOMAIN entries = 1 .. n
  BY SizeIs DEF Entries
<1>2. DOMAIN entries' = 1 .. n
  BY DEF SoundNow, Sound, Typed
<1> QED BY <1>1, <1>2 DEF Entries

-----------------------------------------------------------------------------
LEMMA InsertNotStep ==
  ASSUME HashMapAssumption, IInv, NEW k \in Keys, InsertNot(k)
  PROVE  IInv'
<1>1. /\ Ok /\ m_buckets' = Grown.buckets /\ entries' = Grown.entries
      /\ m_hash_fn' = m_hash_fn /\ m_size' = m_size /\ m_free_entries' = m_free_entries
      /\ content' = content /\ intact' = intact /\ status' = status
  BY DEF InsertNot
<1>2. PICK n, c, place, rank, top : SoundNow(n, c, place, rank, top)
  BY <1>1 DEF IInv
<1>3. m_hash_fn \in [Keys -> Hashes] /\ m_size \in Nat
  BY DEF IInv
<1>4. PICK c2, place2, rank2, top2 :
        Sound(n, c2, Grown.entries, Grown.buckets, m_free_entries,
              place2, rank2, top2, content, intact)
  BY <1>2, <1>3, GrownIs
<1>5. SoundNow(n, c2, place2, rank2, top2)'
  BY <1>1, <1>4, SoundNext
<1>6. Entries' = Entries
  BY <1>2, <1>5, SameEntries
<1>7. Given' = Given
  BY <1>1 DEF Given
<1>8. \E a, b, d, e, f : SoundNow(a, b, d, e, f)'
  BY <1>5
<1> QED BY <1>1, <1>6, <1>7, <1>8 DEF IInv, Ok, Cleared

LEMMA EmplaceExistingStep ==
  ASSUME HashMapAssumption, IInv, NEW k \in Keys, EmplaceExisting(k)
  PROVE  IInv'
<1>1. /\ Ok /\ m_buckets' = Grown.buckets /\ entries' = Grown.entries
      /\ m_hash_fn' = m_hash_fn /\ m_size' = m_size /\ m_free_entries' = m_free_entries
      /\ content' = content /\ intact' = intact /\ status' = "wild"
  BY DEF EmplaceExisting
<1>2. PICK n, c, place, rank, top : SoundNow(n, c, place, rank, top)
  BY <1>1 DEF IInv
<1>3. m_hash_fn \in [Keys -> Hashes] /\ m_size \in Nat
  BY DEF IInv
<1>4. PICK c2, place2, rank2, top2 :
        Sound(n, c2, Grown.entries, Grown.buckets, m_free_entries,
              place2, rank2, top2, content, intact)
  BY <1>2, <1>3, GrownIs
<1>5. SoundNow(n, c2, place2, rank2, top2)'
  BY <1>1, <1>4, SoundNext
<1>6. Entries' = Entries
  BY <1>2, <1>5, SameEntries
<1> QED BY <1>1, <1>6 DEF IInv, Ok, Cleared

LEMMA InsertStep ==
  ASSUME HashMapAssumption, IInv, NEW k \in Keys, NEW v \in Values, Insert(k, v)
  PROVE  IInv'
<1>1. /\ Ok /\ ~Exists(k) /\ (m_free_entries # NULL \/ Len(entries) < MaxEntries)
      /\ PutFirst(TakenEntry, k, v) /\ m_free_entries' = FreeBehind /\ m_size' = m_size + 1
      /\ content' = [content EXCEPT ![k] = v]
      /\ m_hash_fn' = m_hash_fn /\ intact' = intact /\ status' = status
  BY DEF Insert
<1>2. PICK n, c, place, rank, top : SoundNow(n, c, place, rank, top)
  BY <1>1 DEF IInv
<1>3. /\ m_hash_fn \in [Keys -> Hashes] /\ m_size \in Nat
      /\ content \in [Keys -> Values \cup {NULL}]
  BY DEF IInv
<1>4. NoKey(entries, place, k)
  BY <1>1, <1>2, <1>3, LookupIs
<1> DEFINE es == Grown.entries
           bs == Grown.buckets
<1>5. PICK c2, place2, rank2, top2 :
        /\ c2 \in Nat /\ c2 # 0
        /\ Sound(n, c2, es, bs, m_free_entries, place2, rank2, top2, content, intact)
        /\ NoKey(es, place2, k)
        /\ m_free_entries # NULL => es[m_free_entries] = entries[m_free_entries]
  <2>1. \E c2, place2, rank2, top2 :
           /\ c2 \in Nat /\ c2 # 0
           /\ Sound(n, c2, Grown.entries, Grown.buckets, m_free_entries,
                    place2, rank2, top2, content, intact)
           /\ \A j : NoKey(entries, place, j) => NoKey(Grown.entries, place2, j)
           /\ m_free_entries # NULL => Grown.entries[m_free_entries] = entries[m_free_entries]
    BY <1>2, <1>3, GrownIs
  <2> QED BY <1>4, <2>1
<1> DEFINE b == BucketOf(k, c2)
           new == [key |-> k, value |-> v, prev |-> NULL, next |-> bs[b]]
<1>6. /\ Typed(n, c2, es, bs, place2, rank2, top2)
      /\ Linked(es, bs, m_free_entries, place2, rank2)
  BY <1>5 DEF Sound
<1>7. /\ n \in Nat /\ DOMAIN es = 1 .. n /\ DOMAIN bs = 0 .. c2 - 1
      /\ \A p : At(place2, p) \in SUBSET (1 .. n)
  BY <1>6, PlaceFacts
<1>8. Entries = 1 .. n /\ Len(entries) = n
  BY <1>2, SizeIs
<1>9. SlotInGrown(k) = b
  BY <1>5, <1>7, Counted DEF SlotInGrown
<1>10. /\ m_buckets' = [bs EXCEPT ![b] = TakenEntry]
       /\ entries' = IF TakenEntry \in 1 .. n THEN [es EXCEPT ![TakenEntry] = new]
                     ELSE Append(es, new)
  BY <1>1, <1>8, <1>9 DEF PutFirst, Entries
<1>11. \E n3, place3, rank3, top3 :
         /\ n3 \in {n, n + 1} /\ (n3 = n \/ n < MaxEntries)
         /\ Sound(n3, c2, entries', m_buckets', m_free_entries', place3, rank3, top3, content', intact')
  <2>1. CASE m_free_entries # NULL
    <3>1. PICK place3, rank3 :
            Sound(n, c2, [es EXCEPT ![m_free_entries] = new], [bs EXCEPT ![b] = m_free_entries],
                  es[m_free_entries].next, place3, rank3, top2 + 1,
                  [content EXCEPT ![k] = v], intact)
      <4> HIDE DEF es, bs
      <4> QED BY <1>3, <1>5, <2>1, Pushed
    <3>2. m_free_entries \in 1 .. n
      <4>1. IsTop(m_free_entries, At(place2, Free), rank2)
        BY <1>6 DEF Linked
      <4> QED BY <1>7, <2>1, <4>1 DEF IsTop
    <3>3. TakenEntry = m_free_entries /\ m_free_entries' = es[m_free_entries].next
      BY <1>1, <1>5, <2>1 DEF TakenEntry, FreeBehind
    <3> HIDE DEF es, bs, new, b
    <3>4. /\ entries' = [es EXCEPT ![m_free_entries] = new]
          /\ m_buckets' = [bs EXCEPT ![b] = m_free_entries]
      BY <1>10, <3>2, <3>3
    <3>5. Sound(n, c2, entries', m_buckets', m_free_entries', place3, rank3, top2 + 1,
                content', intact')
      BY <1>1, <3>1, <3>3, <3>4
    <3> QED BY <3>5
  <2>2. CASE m_free_entries = NULL
    <3> DEFINE blank == [key |-> k, value |-> v, prev |-> NULL, next |-> NULL]
               es3 == Append(es, blank)
               m == n + 1
    <3>1. blank \in EntryOf({}) /\ blank.next = NULL
      BY DEF EntryOf
    <3>2. Sound(n, c2, es, bs, NULL, place2, rank2, top2, content, intact)
      BY <1>5, <2>2
    <3> HIDE DEF es, bs, blank
    <3>3. PICK place3, rank3 :
            /\ Sound(n + 1, c2, es3, bs, n + 1, place3, rank3, top2, content, intact)
            /\ \A j : NoKey(es, place2, j) => NoKey(es3, place3, j)
      BY <3>1, <3>2, Allocated
    <3>4. NoKey(es3, place3, k) /\ m # NULL /\ Sound(m, c2, es3, bs, m, place3, rank3, top2, content, intact)
      BY <1>5, <1>7, <3>3 DEF NULL
    <3>5. es \in Seq(EntryOf(1 .. n)) /\ Len(es) = n
      BY <1>6, <1>7 DEF Typed
    <3>6. es3[m] = blank /\ [es3 EXCEPT ![m] = new] = Append(es, new)
      <4> DEFINE R == EntryOf(1 .. n) \cup {blank, new}
      <4>1. es \in Seq(R) /\ blank \in R /\ new \in R
        BY <3>5
      <4> HIDE DEF R, new
      <4> QED BY <3>5, <4>1, AppendAgain
    <3> HIDE DEF es3, m
    <3>7. PICK place4, rank4 :
            Sound(m, c2, [es3 EXCEPT ![m] = new], [bs EXCEPT ![b] = m],
                  es3[m].next, place4, rank4, top2 + 1, [content EXCEPT ![k] = v], intact)
      BY <1>3, <1>5, <3>4, Pushed
    <3>8. TakenEntry = m /\ m_free_entries' = NULL /\ m \notin 1 .. n
      BY <1>1, <1>7, <1>8, <2>2 DEF TakenEntry, FreeBehind, m
    <3> HIDE DEF new, b
    <3>9. entries' = [es3 EXCEPT ![m] = new] /\ m_buckets' = [bs EXCEPT ![b] = m]
      BY <1>10, <3>6, <3>8
    <3>10. m_free_entries' = es3[m].next
      BY <3>1, <3>6, <3>8
    <3>11. Sound(m, c2, entries', m_buckets', m_free_entries', place4, rank4, top2 + 1,
                 content', intact')
      BY <1>1, <3>7, <3>9, <3>10
    <3>12. n < MaxEntries
      BY <1>1, <1>8, <2>2
    <3> QED BY <3>11, <3>12 DEF m
  <2> QED BY <2>1, <2>2
<1>12. PICK n3, place3, rank3, top3 :
         /\ n3 \in {n, n + 1} /\ (n3 = n \/ n < MaxEntries)
         /\ SoundNow(n3, c2, place3, rank3, top3)'
  <2>1. PICK n3, place3, rank3, top3 :
          /\ n3 \in {n, n + 1} /\ (n3 = n \/ n < MaxEntries)
          /\ Sound(n3, c2, entries', m_buckets', m_free_entries', place3, rank3, top3,
                   content', intact')
    BY <1>11
  <2>2. m_hash_fn' = m_hash_fn
    BY <1>1
  <2>3. SoundNow(n3, c2, place3, rank3, top3)'
    BY <2>1, <2>2, SoundNext
  <2> QED BY <2>1, <2>3
<1>13. Entries' \subseteq 1 .. MaxEntries
  <2>1. Entries' = 1 .. n3
    BY <1>12 DEF Entries, SoundNow, Sound, Typed
  <2>2. 1 .. n \subseteq 1 .. MaxEntries /\ MaxEntries \in Nat
    BY <1>8 DEF IInv, HashMapAssumption
  <2> QED BY <1>7, <1>12, <2>1, <2>2
<1>14. Given' = Given \cup {k}
  <2>1. v # NULL
    BY DEF HashMapAssumption, NULL
  <2> QED BY <1>1, <1>3, <2>1 DEF Given
<1>15. intact => k \notin Given
  BY <1>2, <1>4 DEF SoundNow, Sound, Complete, NoKey, Given
<1>16. IsFiniteSet(Given) /\ Cardinality(Given) <= m_size /\ (intact => m_size = Cardinality(Given))
  BY <1>1 DEF IInv
<1>17. Cardinality(Given) \in Nat
  BY <1>16, FS_CardinalityType
<1>18. /\ IsFiniteSet(Given')
       /\ Cardinality(Given') = IF k \in Given THEN Cardinality(Given) ELSE Cardinality(Given) + 1
  BY <1>14, <1>16, FS_AddElement
<1>19. Cardinality(Given') <= m_size' /\ (intact' => m_size' = Cardinality(Given')) /\ m_size' \in Nat
  BY <1>1, <1>3, <1>15, <1>16, <1>17, <1>18
<1>20. content' \in [Keys -> Values \cup {NULL}]
  BY <1>1, <1>3
<1>21. \E a, p, d, e, f : SoundNow(a, p, d, e, f)'
  BY <1>12
<1>22. /\ m_hash_fn' \in [Keys -> Hashes] /\ intact' \in BOOLEAN /\ status' = "ok"
  BY <1>1 DEF IInv, Ok
<1> QED BY <1>13, <1>18, <1>19, <1>20, <1>21, <1>22 DEF IInv, Ok, Cleared

LEMMA RemoveKeyStep ==
  ASSUME HashMapAssumption, IInv, NEW k \in Keys, RemoveKey(k)
  PROVE  IInv'
<1> DEFINE e == Lookup(k)
           b == BucketOf(k, m_bucket_count)
<1>1. /\ Ok /\ Exists(k)
      /\ m_buckets' = IF entries[e].prev = NULL
                        THEN [m_buckets EXCEPT ![b] = entries[e].next] ELSE m_buckets
      /\ entries' = Dropped(Unlinked(e), e)
      /\ m_free_entries' = e
      /\ intact' = (intact /\ (entries[e].prev = NULL => m_buckets[b] = e))
      /\ m_size' = m_size - 1
      /\ content' = [content EXCEPT ![k] = NULL]
      /\ m_hash_fn' = m_hash_fn /\ status' = status
  BY DEF RemoveKey
<1>2. PICK n, c, place, rank, top : SoundNow(n, c, place, rank, top)
  BY <1>1 DEF IInv
<1>3. /\ m_hash_fn \in [Keys -> Hashes] /\ m_size \in Nat /\ intact \in BOOLEAN
      /\ content \in [Keys -> Values \cup {NULL}]
  BY DEF IInv
<1>4. m_bucket_count = c
  BY <1>2, WalkedIs DEF SoundNow, Sound
<1>5. e \in Chained(place) /\ entries[e].key = k
  BY <1>1, <1>2, <1>3, LookupIs
<1>6. PICK place2, rank2 : RemovedAs(n, c, k, e, place2, rank2, top + 1)
  <2> HIDE DEF e
  <2> QED BY <1>2, <1>3, <1>5, Removed
<1> HIDE DEF e
<1>7. SoundNow(n, c, place2, rank2, top + 1)'
  <2>1. Sound(n, c, entries', m_buckets', m_free_entries', place2, rank2, top + 1, content', intact')
    BY <1>1, <1>4, <1>6 DEF RemovedAs
  <2> QED BY <1>1, <2>1, SoundNext
<1>8. Entries' = Entries
  BY <1>2, <1>7, SameEntries
<1>9. Given' = Given \ {k}
  BY <1>1, <1>3 DEF Given
<1>10. k \in Given
  <2>1. content[k] = entries[e].value
    BY <1>2, <1>5 DEF SoundNow, Sound, Keyed
  <2>2. entries[e] \in EntryOf(1 .. n)
    <3>1. Typed(n, c, entries, m_buckets, place, rank, top)
      BY <1>2 DEF SoundNow, Sound
    <3>2. Chained(place) = {x \in 1 .. n : place[x] \in 0 .. c - 1}
      BY <3>1, PlaceFacts
    <3> QED BY <1>5, <3>1, <3>2 DEF Typed
  <2> QED BY <2>1, <2>2 DEF EntryOf, Given, HashMapAssumption, NULL
<1>11. IsFiniteSet(Given) /\ Cardinality(Given) <= m_size /\ (intact => m_size = Cardinality(Given))
  BY <1>1 DEF IInv
<1>12. Cardinality(Given) \in Nat
  BY <1>11, FS_CardinalityType
<1>13. IsFiniteSet(Given') /\ Cardinality(Given') = Cardinality(Given) - 1
  BY <1>9, <1>10, <1>11, FS_RemoveElement
<1>14. Cardinality(Given') \in Nat
  BY <1>13, FS_CardinalityType
<1>15. Cardinality(Given') <= m_size' /\ (intact' => m_size' = Cardinality(Given')) /\ m_size' \in Nat
  BY <1>1, <1>3, <1>11, <1>12, <1>13, <1>14
<1>16. content' \in [Keys -> Values \cup {NULL}]
  BY <1>1, <1>3
<1>17. \E a, p, d, f, g : SoundNow(a, p, d, f, g)'
  BY <1>7
<1>18. /\ m_hash_fn' \in [Keys -> Hashes] /\ intact' \in BOOLEAN /\ status' = "ok"
       /\ Entries' \subseteq 1 .. MaxEntries
  BY <1>1, <1>3, <1>8 DEF IInv, Ok
<1> QED BY <1>13, <1>15, <1>16, <1>17, <1>18 DEF IInv, Ok, Cleared

\* What clear leaves when there were entries.
LEMMA ClearedBy ==
  ASSUME HashMapAssumption, IInv, Clear, Walked # <<>>
  PROVE  \E n, c, S, rank : /\ ClearedAs(n, c, S, entries', m_buckets, m_free_entries', rank)
                            /\ intact => S = 1 .. n
<1> DEFINE r == Reverse(Walked)
           q == ListFrom(m_free_entries)
           s == r \o q
<1>1. /\ Ok
      /\ m_free_entries' = IF s = <<>> THEN NULL ELSE Head(s)
      /\ entries' = [e \in DOMAIN entries |->
            IF e \in ToSet(Walked)
            THEN [entries[e] EXCEPT !.next = IF PlaceIn(s, e) = Len(s) THEN NULL
                                             ELSE s[PlaceIn(s, e) + 1]]
            ELSE entries[e]]
  BY DEF Clear
<1>2. PICK n, c, place, rank, top : SoundNow(n, c, place, rank, top)
  BY <1>1 DEF IInv
<1>3. /\ Typed(n, c, entries, m_buckets, place, rank, top)
      /\ Linked(entries, m_buckets, m_free_entries, place, rank)
      /\ Keyed(entries, c, place, content)
      /\ intact => Complete(entries, place, content)
  BY <1>2 DEF SoundNow, Sound
<1>4. /\ n \in Nat /\ c \in Nat /\ DOMAIN place = 1 .. n /\ DOMAIN m_buckets = 0 .. c - 1
      /\ Chained(place) = {x \in 1 .. n : place[x] \in 0 .. c - 1}
      /\ \A x \in 1 .. n : place[x] \in 0 .. c - 1 \cup {Free, Lost}
      /\ At(place, Free) \in SUBSET (1 .. n)
  BY <1>3, PlaceFacts
<1>5. /\ entries \in [1 .. n -> EntryOf(1 .. n)]
      /\ m_buckets \in [0 .. c - 1 -> 1 .. n \cup {NULL}]
  BY <1>3 DEF Typed
<1> DEFINE E == 1 .. n
<1>6. /\ Walked \in Seq(E) /\ ToSet(Walked) = Chained(place) /\ IsInjective(Walked)
  BY <1>3, WalkedIs
<1>7. /\ r \in Seq(E) /\ ToSet(r) = Chained(place) /\ IsInjective(r)
      /\ Len(r) = Len(Walked)
  <2> HIDE DEF E
  <2> QED BY <1>6, Reversed
<1>8. /\ q \in Seq(At(place, Free)) /\ ToSet(q) = At(place, Free) /\ IsInjective(q)
      /\ \A i \in DOMAIN q : entries[q[i]].next = IF i = Len(q) THEN NULL ELSE q[i + 1]
  BY <1>3, ListsAre DEF IsListOf
<1>9. q \in Seq(E)
  <2> DEFINE T == At(place, Free)
  <2>1. T \subseteq E /\ q \in Seq(T)
    BY <1>4, <1>8
  <2> HIDE DEF T, E, q
  <2> QED BY <2>1
<1>10. ToSet(r) \cap ToSet(q) = {}
  BY <1>4, <1>7, <1>8 DEF At, Free
<1> HIDE DEF r, q
<1>11. s \in Seq(E) /\ ToSet(s) = ToSet(r) \cup ToSet(q) /\ IsInjective(s)
  <2> HIDE DEF E
  <2> QED BY <1>7, <1>8, <1>9, <1>10, Concatenated
<1>12. /\ Len(r) \in Nat /\ Len(q) \in Nat /\ Len(s) = Len(r) + Len(q)
       /\ DOMAIN s = 1 .. Len(s) /\ DOMAIN r = 1 .. Len(r) /\ DOMAIN q = 1 .. Len(q)
       /\ \A i \in 1 .. Len(s) : s[i] = IF i <= Len(r) THEN r[i] ELSE q[i - Len(r)]
  <2> HIDE DEF E
  <2> QED BY <1>7, <1>9
<1>13. \A i \in DOMAIN s : s[i] \in 1 .. n
  <2>1. s \in Seq(E)
    BY <1>11
  <2> HIDE DEF s, E
  <2>2. \A i \in DOMAIN s : s[i] \in E
    BY <2>1
  <2> QED BY <2>2 DEF E
<1>14. ASSUME NEW i \in DOMAIN s
       PROVE  entries'[s[i]].next = IF i = Len(s) THEN NULL ELSE s[i + 1]
  <2>1. s[i] \in 1 .. n /\ DOMAIN entries = 1 .. n
    BY <1>5, <1>13
  <2>2. entries[s[i]] \in EntryOf(1 .. n)
    BY <1>5, <2>1
  <2>3. CASE s[i] \in ToSet(Walked)
    <3>1. PlaceIn(s, s[i]) = i
      <4> HIDE DEF s
      <4>1. \A l \in DOMAIN s : s[l] = s[i] => l = i
        BY <1>11 DEF IsInjective
      <4>2. \E l \in DOMAIN s : s[l] = s[i]
        OBVIOUS
      <4> QED BY <4>1, <4>2 DEF PlaceIn
    <3> HIDE DEF s
    <3> QED BY <1>1, <2>1, <2>2, <2>3, <3>1 DEF EntryOf
  <2>4. CASE s[i] \notin ToSet(Walked)
    <3>1. entries'[s[i]] = entries[s[i]]
      <4> HIDE DEF s
      <4> QED BY <1>1, <2>1, <2>4
    <3>2. i > Len(r) /\ i \in 1 .. Len(s)
      <4>1. i <= Len(r) => s[i] \in ToSet(r)
        BY <1>12 DEF ToSet
      <4> HIDE DEF s
      <4> QED BY <1>6, <1>7, <1>12, <2>4, <4>1
    <3> DEFINE j == i - Len(r)
    <3>3. j \in 1 .. Len(q) /\ s[i] = q[j] /\ (i = Len(s) <=> j = Len(q))
      <4> HIDE DEF s
      <4> QED BY <1>12, <3>2
    <3>4. i # Len(s) => s[i + 1] = q[j + 1]
      <4> HIDE DEF s
      <4>1. i # Len(s) => i + 1 \in 1 .. Len(s) /\ ~(i + 1 <= Len(r)) /\ (i + 1) - Len(r) = j + 1
        BY <1>12, <3>2
      <4> QED BY <1>12, <4>1
    <3>5. entries[q[j]].next = IF j = Len(q) THEN NULL ELSE q[j + 1]
      BY <1>8, <1>12, <3>3
    <3> HIDE DEF s, j
    <3> QED BY <3>1, <3>3, <3>4, <3>5
  <2> QED BY <2>3, <2>4
<1> DEFINE S == Chained(place) \cup At(place, Free)
<1>15. ToSet(s) = S
  BY <1>7, <1>8, <1>11
<1> HIDE DEF s
<1>16. PICK ranks \in [1 .. n -> Nat] :
         IsRanked(entries', S, ranks) /\ IsTop(m_free_entries', S, ranks)
  <2>1. /\ s \in Seq(1 .. n) /\ n \in Nat /\ IsInjective(s)
        /\ \A i \in DOMAIN s : entries'[s[i]].next = IF i = Len(s) THEN NULL ELSE s[i + 1]
    BY <1>4, <1>11, <1>14
  <2>2. PICK ranks \in [1 .. n -> Nat] :
          /\ IsRanked(entries', ToSet(s), ranks)
          /\ IsTop(IF s = <<>> THEN NULL ELSE Head(s), ToSet(s), ranks)
    BY <2>1, ListRanks
  <2> QED BY <1>1, <1>15, <2>2 DEF s
<1>17. entries' \in [1 .. n -> EntryOf(1 .. n)]
  <2>1. DOMAIN entries = 1 .. n
    BY <1>5
  <2>2. ASSUME NEW e \in 1 .. n
        PROVE  entries'[e] \in EntryOf(1 .. n)
    <3>1. entries[e] \in EntryOf(1 .. n)
      BY <1>5
    <3>2. CASE e \in ToSet(Walked)
      <4> DEFINE next == IF PlaceIn(s, e) = Len(s) THEN NULL ELSE s[PlaceIn(s, e) + 1]
      <4>1. entries'[e] = [entries[e] EXCEPT !.next = next]
        BY <1>1, <2>1, <3>2 DEF s
      <4>2. PICK i \in DOMAIN s : s[i] = e
        <5>1. e \in ToSet(s)
          BY <1>6, <1>15, <3>2
        <5> QED BY <5>1 DEF ToSet
      <4>3. entries'[e].next \in 1 .. n \cup {NULL}
        <5>1. i \in 1 .. Len(s) /\ (i # Len(s) => i + 1 \in DOMAIN s)
          BY <1>12, <4>2 DEF s
        <5>2. entries'[e].next = IF i = Len(s) THEN NULL ELSE s[i + 1]
          BY <1>14, <4>2
        <5> QED BY <1>13, <5>1, <5>2
      <4> HIDE DEF next
      <4>4. entries'[e] = [entries[e] EXCEPT !.next = entries'[e].next]
        BY <3>1, <4>1 DEF EntryOf
      <4> QED BY <3>1, <4>3, <4>4 DEF EntryOf
    <3>3. CASE e \notin ToSet(Walked)
      <4>1. entries'[e] = entries[e]
        BY <1>1, <2>1, <3>3
      <4> QED BY <3>1, <4>1
    <3> QED BY <3>2, <3>3
  <2>3. entries' = [e \in 1 .. n |-> entries'[e]]
    BY <1>1, <2>1
  <2> QED BY <2>2, <2>3
<1>18. \A e \in 1 .. n : entries'[e].key = entries[e].key
  <2> TAKE e \in 1 .. n
  <2>1. entries[e] \in EntryOf(1 .. n) /\ e \in DOMAIN entries
    BY <1>5
  <2> QED BY <1>1, <2>1 DEF EntryOf
<1>19. ASSUME NEW b \in 0 .. c - 1, m_buckets[b] # NULL
       PROVE  m_buckets[b] \in S /\ BucketOf(entries'[m_buckets[b]].key, c) = b
  <2>1. IsTop(m_buckets[b], At(place, b), rank)
    BY <1>3, <1>4 DEF Linked
  <2>2. m_buckets[b] \in At(place, b)
    BY <1>19, <2>1 DEF IsTop
  <2>3. m_buckets[b] \in Chained(place) /\ place[m_buckets[b]] = b /\ m_buckets[b] \in 1 .. n
    BY <1>4, <2>2 DEF At
  <2>4. BucketOf(entries[m_buckets[b]].key, c) = b
    BY <1>3, <2>3 DEF Keyed
  <2> QED BY <1>18, <2>3, <2>4 DEF BucketOf
<1>20. \E b \in 0 .. c - 1 : m_buckets[b] # NULL
  <2>1. PICK x \in Chained(place) : TRUE
    <3>1. 1 \in DOMAIN Walked
      <4>1. Len(Walked) \in Nat /\ DOMAIN Walked = 1 .. Len(Walked) /\ Len(Walked) # 0
        <5> HIDE DEF E
        <5> QED BY <1>6
      <4> QED BY <4>1
    <3> QED BY <1>6, <3>1 DEF ToSet
  <2>2. x \in 1 .. n /\ place[x] \in 0 .. c - 1
    BY <1>4
  <2>3. x \in At(place, place[x])
    BY <1>4, <2>2 DEF At
  <2>4. IsTop(m_buckets[place[x]], At(place, place[x]), rank)
    BY <1>3, <1>4, <2>2 DEF Linked
  <2>5. m_buckets[place[x]] \in At(place, place[x])
    BY <2>3, <2>4 DEF IsTop
  <2>6. m_buckets[place[x]] # NULL
    BY <1>4, <2>5 DEF At, NULL
  <2> QED BY <2>2, <2>6
<1>21. S \in SUBSET (1 .. n)
  BY <1>4
<1>22. intact => S = 1 .. n
  <2>1. intact => \A x \in 1 .. n : x \in S
    BY <1>3, <1>4 DEF Complete, At
  <2> HIDE DEF S
  <2> QED BY <1>21, <2>1
<1> HIDE DEF S
<1>23. ClearedAs(n, c, S, entries', m_buckets, m_free_entries', ranks)
  BY <1>4, <1>5, <1>16, <1>17, <1>19, <1>20, <1>21 DEF ClearedAs
<1> QED BY <1>22, <1>23

LEMMA ClearStep ==
  ASSUME HashMapAssumption, IInv, Clear
  PROVE  IInv'
<1> DEFINE free == Reverse(Walked) \o ListFrom(m_free_entries)
<1>1. /\ Ok
      /\ m_free_entries' = IF free = <<>> THEN NULL ELSE Head(free)
      /\ entries' = [e \in DOMAIN entries |->
            IF e \in ToSet(Walked)
            THEN [entries[e] EXCEPT !.next = IF PlaceIn(free, e) = Len(free) THEN NULL
                                             ELSE free[PlaceIn(free, e) + 1]]
            ELSE entries[e]]
      /\ status' = IF Walked = <<>> THEN "ok" ELSE "cleared"
      /\ m_size' = 0 /\ content' = [k \in Keys |-> NULL]
      /\ m_hash_fn' = m_hash_fn /\ m_buckets' = m_buckets /\ intact' = intact
  BY DEF Clear
<1>2. Entries' = Entries
  BY <1>1 DEF Entries
<1>3. Given' = {}
  BY <1>1 DEF Given
<1>4. IsFiniteSet(Given') /\ Cardinality(Given') = 0
  BY <1>3, FS_EmptySet
<1>5. content' \in [Keys -> Values \cup {NULL}] /\ m_size' \in Nat
  BY <1>1
<1>6. /\ m_hash_fn' \in [Keys -> Hashes] /\ intact' \in BOOLEAN
      /\ Entries' \subseteq 1 .. MaxEntries /\ status' \in {"ok", "cleared"}
  BY <1>1, <1>2 DEF IInv
<1>7. CASE Walked # <<>>
  <2>1. status' = "cleared"
    BY <1>1, <1>7
  <2>2. \A k \in Keys : content'[k] = NULL
    BY <1>1
  <2>3. PICK n, c, S, rank : ClearedAs(n, c, S, entries', m_buckets, m_free_entries', rank)
                             /\ (intact => S = 1 .. n)
    BY <1>7, ClearedBy
  <2>4. ClearedNow(n, c, S, rank)'
    <3>1. ClearedAs(n, c, S, entries', m_buckets', m_free_entries', rank)
      BY <1>1, <2>3
    <3> QED BY <1>1, <3>1, ClearedNext
  <2>5. \E a, b, d, e : ClearedNow(a, b, d, e)' /\ (intact' => d = 1 .. a)
    BY <1>1, <2>3, <2>4
  <2> QED BY <1>1, <1>5, <1>6, <2>1, <2>2, <2>5 DEF IInv, Ok, Cleared
<1>8. CASE Walked = <<>>
  <2>1. PICK n, c, place, rank, top : SoundNow(n, c, place, rank, top)
    BY <1>1 DEF IInv
  <2>2. /\ Typed(n, c, entries, m_buckets, place, rank, top)
        /\ Linked(entries, m_buckets, m_free_entries, place, rank)
    BY <2>1 DEF SoundNow, Sound
  <2>3. ToSet(Walked) = {} /\ Chained(place) = {}
    <3>1. ToSet(Walked) = {}
      BY <1>8 DEF ToSet
    <3> QED BY <2>2, <3>1, WalkedIs
  <2> DEFINE s == ListFrom(m_free_entries)
  <2>4. IsListOf(s, m_free_entries, At(place, Free), entries)
    BY <2>2, ListsAre
  <2>5. free = s
    <3>1. Reverse(Walked) = <<>>
      <4>1. Len(Walked) = 0 /\ 1 .. 0 = {}
        BY <1>8
      <4> QED BY <4>1 DEF Reverse
    <3>2. s \in Seq(At(place, Free))
      BY <2>4 DEF IsListOf
    <3> HIDE DEF s
    <3>3. <<>> \o s = s
      BY <3>2
    <3> QED BY <3>1, <3>3 DEF s
  <2>6. m_free_entries' = m_free_entries
    <3>1. s \in Seq(At(place, Free)) /\ IF s = <<>> THEN m_free_entries = NULL ELSE s[1] = m_free_entries
      BY <2>4 DEF IsListOf
    <3>2. m_free_entries' = IF s = <<>> THEN NULL ELSE Head(s)
      BY <1>1, <2>5
    <3> HIDE DEF s, free
    <3> QED BY <3>1, <3>2
  <2>7. entries' = entries
    <3>1. entries' = [e \in DOMAIN entries |-> entries[e]]
      BY <1>1, <2>3
    <3>2. entries = [e \in DOMAIN entries |-> entries[e]]
      BY <2>2 DEF Typed
    <3> QED BY <3>1, <3>2
  <2>8. Keyed(entries, c, place, content') /\ LinkedBack(entries, place)
    BY <2>3 DEF Keyed, LinkedBack
  <2>9. intact => Complete(entries, place, content')
    BY <1>1, <2>1 DEF SoundNow, Sound, Complete
  <2>10. Sound(n, c, entries', m_buckets', m_free_entries', place, rank, top, content', intact')
    BY <1>1, <2>2, <2>6, <2>7, <2>8, <2>9 DEF Sound
  <2>11. SoundNow(n, c, place, rank, top)'
    BY <1>1, <2>10, SoundNext
  <2>12. \E a, p, d, f, g : SoundNow(a, p, d, f, g)'
    BY <2>11
  <2>13. status' = "ok"
    BY <1>1, <1>8
  <2> QED BY <1>1, <1>4, <1>5, <1>6, <2>12, <2>13 DEF IInv, Ok, Cleared
<1> QED BY <1>7, <1>8

LEMMA DeinitStep ==
  ASSUME HashMapAssumption, IInv, Deinit
  PROVE  IInv'
<1> DEFINE freed == ToSet(ListFrom(m_free_entries))
                      \cup UNION {ToSet(Chain(b)) : b \in DOMAIN m_buckets}
<1>1. /\ Ok /\ entries' = [e \in DOMAIN entries \ freed |-> entries[e]] /\ status' = "freed"
      /\ m_hash_fn' = m_hash_fn /\ m_size' = m_size /\ content' = content /\ intact' = intact
  BY DEF Deinit
<1>2. Entries' = Entries \ freed
  BY <1>1 DEF Entries
<1>3. ASSUME intact PROVE Entries \subseteq freed
  <2>1. PICK n, c, place, rank, top : SoundNow(n, c, place, rank, top)
    BY <1>1 DEF IInv
  <2>2. /\ Typed(n, c, entries, m_buckets, place, rank, top)
        /\ Linked(entries, m_buckets, m_free_entries, place, rank)
        /\ Complete(entries, place, content)
    BY <1>3, <2>1 DEF SoundNow, Sound
  <2>3. /\ DOMAIN place = 1 .. n /\ DOMAIN m_buckets = 0 .. c - 1
        /\ \A x \in 1 .. n : place[x] \in 0 .. c - 1 \cup {Free, Lost}
    BY <2>2, PlaceFacts
  <2>4. /\ \A b \in 0 .. c - 1 : ToSet(Chain(b)) = At(place, b)
        /\ ToSet(ListFrom(m_free_entries)) = At(place, Free)
    BY <2>2, ListsAre DEF IsListOf
  <2>5. \A x \in 1 .. n : place[x] \in 0 .. c - 1 \cup {Free} /\ x \in At(place, place[x])
    BY <2>2, <2>3 DEF At, Complete
  <2>6. ASSUME NEW x \in 1 .. n PROVE x \in freed
    <3>1. CASE place[x] = Free
      BY <2>4, <2>5, <3>1
    <3>2. CASE place[x] \in 0 .. c - 1
      <4>1. x \in ToSet(Chain(place[x]))
        BY <2>4, <2>5, <3>2
      <4> QED BY <2>3, <3>2, <4>1
    <3> QED BY <2>5, <3>1, <3>2
  <2> HIDE DEF freed
  <2> QED BY <2>1, <2>6, SizeIs
<1> HIDE DEF freed
<1>4. Entries' \subseteq Entries /\ (intact' => Entries' = {})
  BY <1>1, <1>2, <1>3
<1> QED BY <1>1, <1>4 DEF IInv, Ok, Cleared

LEMMA OtherStep ==
  ASSUME IInv, GrowthFails \/ SearchNothing \/ DeinitCleared \/ UNCHANGED vars
  PROVE  IInv'
<1>1. ASSUME UNCHANGED vars PROVE IInv'
  <2>1. /\ Entries' = Entries /\ Given' = Given /\ Ok' = Ok /\ Cleared' = Cleared
        /\ UNCHANGED <<m_hash_fn, m_buckets, m_size, m_free_entries, entries, content, intact, status>>
    BY <1>1 DEF vars, table, Entries, Given, Ok, Cleared
  <2>2. ASSUME Ok PROVE (\E n, c, place, rank, top : SoundNow(n, c, place, rank, top))'
    <3>1. PICK n, c, place, rank, top : SoundNow(n, c, place, rank, top)
      BY <2>2 DEF IInv
    <3>2. Sound(n, c, entries', m_buckets', m_free_entries', place, rank, top, content', intact')
      BY <2>1, <3>1 DEF SoundNow
    <3>3. SoundNow(n, c, place, rank, top)'
      BY <2>1, <3>2, SoundNext
    <3> QED BY <3>3
  <2>3. ASSUME Cleared
        PROVE  (\E n, c, S, rank : ClearedNow(n, c, S, rank) /\ (intact => S = 1 .. n))'
    <3>1. PICK n, c, S, rank : ClearedNow(n, c, S, rank) /\ (intact => S = 1 .. n)
      BY <2>3 DEF IInv
    <3>2. ClearedAs(n, c, S, entries', m_buckets', m_free_entries', rank)
      BY <2>1, <3>1 DEF ClearedNow
    <3>3. ClearedNow(n, c, S, rank)'
      BY <2>1, <3>2, ClearedNext
    <3> QED BY <2>1, <3>1, <3>3
  <2> QED BY <2>1, <2>2, <2>3 DEF IInv
<1>2. CASE SearchNothing \/ DeinitCleared
  <2>1. /\ Entries' = Entries /\ status' = "wild"
        /\ UNCHANGED <<m_hash_fn, m_size, content, intact>>
    BY <1>2 DEF SearchNothing, DeinitCleared, table, Entries
  <2> QED BY <2>1 DEF IInv, Ok, Cleared
<1> QED BY <1>1, <1>2 DEF GrowthFails

LEMMA NextIs ==
  ASSUME HashMapAssumption, IInv, [Next]_vars
  PROVE  IInv'
<1>1. ASSUME NEW k \in Keys, InsertNot(k) PROVE IInv'
  BY <1>1, InsertNotStep
<1>2. ASSUME NEW k \in Keys, RemoveKey(k) PROVE IInv'
  BY <1>2, RemoveKeyStep
<1>3. ASSUME NEW k \in Keys, NEW v \in Values, Insert(k, v) PROVE IInv'
  BY <1>3, InsertStep
<1>4. ASSUME NEW k \in Keys, EmplaceExisting(k) PROVE IInv'
  BY <1>4, EmplaceExistingStep
<1> QED BY <1>1, <1>2, <1>3, <1>4, ClearStep, DeinitStep, OtherStep DEF Next

-----------------------------------------------------------------------------
LEMMA Inductive == HashMapAssumption /\ Spec => []IInv
<1> SUFFICES ASSUME HashMapAssumption PROVE Spec => []IInv
  OBVIOUS
<1>1. Init => IInv
  BY InitIs
<1>2. IInv /\ [Next]_vars => IInv'
  BY NextIs
<1> QED BY <1>1, <1>2, PTL DEF Spec

LEMMA InvariantTypes == HashMapAssumption /\ IInv => TypeOK
<1> SUFFICES ASSUME HashMapAssumption, IInv PROVE TypeOK
  OBVIOUS
<1>1. ASSUME Ok
      PROVE  /\ m_buckets \in [0 .. m_bucket_count - 1 -> Entries \cup {NULL}]
             /\ m_free_entries \in Entries \cup {NULL}
             /\ entries \in [Entries -> [key : Keys, value : Values,
                                         prev : Entries \cup {NULL}, next : Entries \cup {NULL}]]
  <2>1. PICK n, c, place, rank, top : SoundNow(n, c, place, rank, top)
    BY <1>1 DEF IInv
  <2>2. /\ Typed(n, c, entries, m_buckets, place, rank, top)
        /\ Linked(entries, m_buckets, m_free_entries, place, rank)
    BY <2>1 DEF SoundNow, Sound
  <2>3. m_bucket_count = c /\ Entries = 1 .. n
    BY <2>1, <2>2, WalkedIs, SizeIs
  <2>4. At(place, Free) \in SUBSET (1 .. n)
    BY <2>2, PlaceFacts
  <2>5. m_free_entries \in 1 .. n \cup {NULL}
    BY <2>2, <2>4 DEF Linked, IsTop
  <2> QED BY <2>2, <2>3, <2>5 DEF Typed, EntryOf
<1>2. ASSUME Cleared
      PROVE  /\ m_buckets \in [0 .. m_bucket_count - 1 -> Entries \cup {NULL}]
             /\ m_free_entries \in Entries \cup {NULL}
             /\ entries \in [Entries -> [key : Keys, value : Values,
                                         prev : Entries \cup {NULL}, next : Entries \cup {NULL}]]
  <2>1. PICK n, c, S, rank : ClearedNow(n, c, S, rank)
    BY <1>2 DEF IInv
  <2>2. /\ entries \in [1 .. n -> EntryOf(1 .. n)] /\ S \in SUBSET (1 .. n)
        /\ m_buckets \in [0 .. c - 1 -> 1 .. n \cup {NULL}] /\ IsTop(m_free_entries, S, rank)
    BY <2>1 DEF ClearedNow, ClearedAs
  <2>3. m_bucket_count = c /\ Entries = 1 .. n
    <3>1. m_bucket_count = c
      BY <2>1, ClearedIs DEF IInv
    <3> QED BY <2>2, <3>1 DEF Entries
  <2>4. m_free_entries \in 1 .. n \cup {NULL}
    BY <2>2 DEF IsTop
  <2> QED BY <2>2, <2>3, <2>4 DEF EntryOf
<1> QED BY <1>1, <1>2 DEF IInv, TypeOK

\* The buckets, the free list and the entries keep their types in every state
\* of the map, whatever the hash function is.
THEOREM TypeCorrect == HashMapAssumption /\ Spec => []TypeOK
<1> SUFFICES ASSUME HashMapAssumption PROVE Spec => []TypeOK
  OBVIOUS
<1>1. IInv => TypeOK
  BY InvariantTypes
<1> QED BY <1>1, Inductive, PTL

\* Until a map that has entries is cleared, find gives what was inserted under the
\* key and not removed since, or nothing when a removal cut the entry off, and
\* m_size counts the keys until then; after such a clear some key is still found.
THEOREM AlwaysFinds == HashMapAssumption /\ Spec => []FindsContent
<1> SUFFICES ASSUME HashMapAssumption PROVE Spec => []FindsContent
  OBVIOUS
<1>1. ASSUME IInv, Ok
      PROVE  /\ \A k \in Keys : Found(k) \in {content[k]} \cup (IF intact THEN {} ELSE {NULL})
             /\ intact => m_size = Cardinality({k \in Keys : content[k] # NULL})
  <2>1. PICK n, c, place, rank, top : SoundNow(n, c, place, rank, top)
    BY <1>1 DEF IInv
  <2>2. \A k \in Keys : Found(k) \in {content[k]} \cup (IF intact THEN {} ELSE {NULL})
    BY <1>1, <2>1, FindsNow DEF IInv
  <2> QED BY <1>1, <2>2 DEF IInv, Given
<1>2. ASSUME IInv, Cleared
      PROVE  /\ m_size = 0 /\ \A k \in Keys : content[k] = NULL
             /\ \E k \in Keys : Found(k) # NULL
  <2>1. PICK n, c, S, rank : ClearedNow(n, c, S, rank)
    BY <1>2 DEF IInv
  <2>2. \E k \in Keys : Found(k) # NULL
    BY <1>2, <2>1, ClearedIs DEF IInv
  <2> QED BY <1>2, <2>2 DEF IInv
<1>3. IInv => FindsContent
  BY <1>1, <1>2, Zenon DEF FindsContent
<1> QED BY <1>3, Inductive, PTL

\* No chain has a cycle, an entry of another bucket, a free entry or a wrong
\* link back, until a map that has entries is cleared: then the chains run into the
\* free list.
THEOREM ChainsAlwaysSound == HashMapAssumption /\ Spec => []ChainsAreSound
<1> SUFFICES ASSUME HashMapAssumption PROVE Spec => []ChainsAreSound
  OBVIOUS
<1>1. IInv => ChainsAreSound
  <2>1. ASSUME IInv, Ok PROVE ChainsAreSound
    <3>1. PICK n, c, place, rank, top : SoundNow(n, c, place, rank, top)
      BY <2>1 DEF IInv
    <3> QED BY <2>1, <3>1, ChainsNow DEF ChainsAreSound, Ok, Cleared
  <2>2. ASSUME IInv, Cleared PROVE ChainsAreSound
    <3>1. PICK n, c, S, rank : ClearedNow(n, c, S, rank)
      BY <2>2 DEF IInv
    <3>2. /\ IsListOf(ListFrom(m_free_entries), m_free_entries, S, entries)
          /\ DOMAIN m_buckets = 0 .. c - 1
          /\ \A b \in 0 .. c - 1 : EndOf(S, b)
      <4>1. m_hash_fn \in [Keys -> Hashes]
        BY <2>2 DEF IInv
      <4> QED BY <3>1, <4>1, ClearedIs
    <3>3. \A b \in DOMAIN m_buckets :
            IsInjective(Chain(b)) /\ ToSet(Chain(b)) \subseteq ToSet(ListFrom(m_free_entries))
      <4> TAKE b \in DOMAIN m_buckets
      <4>1. PICK T \in SUBSET S : IsListOf(Chain(b), m_buckets[b], T, entries)
        BY <3>2 DEF EndOf
      <4> QED BY <3>2, <4>1 DEF IsListOf
    <3> QED BY <2>2, <3>3 DEF ChainsAreSound, Ok, Cleared
  <2> QED BY <2>1, <2>2 DEF ChainsAreSound
<1> QED BY <1>1, Inductive, PTL

\* Until a removal cuts entries off, every entry is once in the free list or in
\* one chain, so deinit frees each of them, and once; when a map that has entries
\* is cleared, every entry is in the free list, once, and the chains have free
\* entries (ChainsAlwaysSound).
THEOREM EntriesOnce == HashMapAssumption /\ Spec => []EveryEntryOnce
<1> SUFFICES ASSUME HashMapAssumption PROVE Spec => []EveryEntryOnce
  OBVIOUS
<1>1. IInv => EveryEntryOnce
  <2> SUFFICES ASSUME IInv, intact PROVE EveryEntryOnce
    BY DEF EveryEntryOnce
  <2>1. ASSUME Ok
        PROVE  LET all == ListFrom(m_free_entries) \o Walked
               IN IsInjective(all) /\ ToSet(all) = Entries
    <3>1. PICK n, c, place, rank, top : SoundNow(n, c, place, rank, top)
      BY <2>1 DEF IInv
    <3> QED BY <3>1, OnceNow
  <2>2. status = "freed" => Entries = {}
    BY DEF IInv
  <2>3. ASSUME Cleared
        PROVE  LET free == ListFrom(m_free_entries)
               IN IsInjective(free) /\ ToSet(free) = Entries
    <3>1. PICK n, c, S, rank : ClearedNow(n, c, S, rank) /\ S = 1 .. n
      BY <2>3 DEF IInv
    <3>2. IsListOf(ListFrom(m_free_entries), m_free_entries, S, entries)
      BY <3>1, ClearedIs DEF IInv
    <3>3. Entries = 1 .. n
      BY <3>1 DEF ClearedNow, ClearedAs, Entries
    <3> QED BY <3>1, <3>2, <3>3 DEF IsListOf
  <2> QED BY <2>1, <2>2, <2>3 DEF EveryEntryOnce
<1> QED BY <1>1, Inductive, PTL

=============================================================================
