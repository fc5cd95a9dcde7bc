-------------------------- MODULE ContainersProofs --------------------------
(***************************************************************************)
(* The containers side by side: whichever is in use keeps what it          *)
(* promises.  The hash map is proved in HashMapProofs; the linked list,    *)
(* the vector and the bit set are proved here, each by an invariant of its *)
(* own, and their properties are carried over to the composition.          *)
(*                                                                         *)
(* The lemmas about linked lists before the steps speak of any head h,     *)
(* tail t and nodes ns, so that they can be used of a state and of the     *)
(* next one.                                                               *)
(***************************************************************************)
EXTENDS Containers, SequencesExt, FiniteSetTheorems, SequenceTheorems,
        NaturalsInduction, WellFoundedInduction, TLAPS

HP == INSTANCE HashMapProofs WITH
  m_hash_fn <- map_hash_fn, m_buckets <- map_buckets, m_size <- map_size,
  m_free_entries <- map_free_entries, entries <- map_entries,
  content <- map_content, intact <- map_intact, status <- map_status

\* Two sequences with the same elements are the same.
LEMMA SameElements ==
  ASSUME NEW S, NEW a \in Seq(S), NEW b \in Seq(S), Len(a) = Len(b),
         \A k \in 1 .. Len(a) : a[k] = b[k]
  PROVE  a = b
BY SeqEqual

\* RemoveAt of SequencesExt.
LEMMA Removed ==
  ASSUME NEW S, NEW s \in Seq(S), NEW p \in 1 .. Len(s)
  PROVE  /\ RemoveAt(s, p) \in Seq(S)
         /\ Len(RemoveAt(s, p)) = Len(s) - 1
         /\ \A k \in 1 .. Len(s) - 1 : RemoveAt(s, p)[k] = IF k < p THEN s[k] ELSE s[k + 1]
<1> DEFINE c == Len(s)
           a == SubSeq(s, 1, p - 1)
           b == SubSeq(s, p + 1, c)
<1>1. c \in Nat /\ p \in Int /\ 1 <= p /\ p <= c /\ \A k \in 1 .. c : s[k] \in S
  OBVIOUS
<1>2. /\ a \in Seq(S) /\ Len(a) = IF 1 <= p - 1 THEN (p - 1) - 1 + 1 ELSE 0
      /\ \A k \in 1 .. (p - 1) - 1 + 1 : a[k] = s[1 + k - 1]
  <2>1. 1 \in Int /\ p - 1 \in Int /\ \A k \in 1 .. p - 1 : s[k] \in S
    BY <1>1
  <2> QED BY <2>1, SubSeqProperties
<1>3. /\ b \in Seq(S) /\ Len(b) = IF p + 1 <= c THEN c - (p + 1) + 1 ELSE 0
      /\ \A k \in 1 .. c - (p + 1) + 1 : b[k] = s[(p + 1) + k - 1]
  <2>1. p + 1 \in Int /\ c \in Int /\ \A k \in p + 1 .. c : s[k] \in S
    BY <1>1
  <2> QED BY <2>1, SubSeqProperties
<1> HIDE DEF a, b, c
<1>4. Len(a) = p - 1 /\ \A k \in 1 .. p - 1 : a[k] = s[k]
  BY <1>1, <1>2
<1>5. Len(b) = c - p /\ \A k \in 1 .. c - p : b[k] = s[p + k]
  <2>1. Len(b) = c - p
    BY <1>1, <1>3
  <2>2. \A k \in 1 .. c - p : k \in 1 .. c - (p + 1) + 1 /\ (p + 1) + k - 1 = p + k
    BY <1>1
  <2> QED BY <1>3, <2>1, <2>2
<1>6. /\ a \o b \in Seq(S) /\ Len(a \o b) = (p - 1) + (c - p)
      /\ \A k \in 1 .. (p - 1) + (c - p) : (a \o b)[k] = IF k <= p - 1 THEN a[k] ELSE b[k - (p - 1)]
  <2>1. /\ a \o b \in Seq(S) /\ Len(a \o b) = Len(a) + Len(b)
        /\ \A k \in 1 .. Len(a) + Len(b) :
             (a \o b)[k] = IF k <= Len(a) THEN a[k] ELSE b[k - Len(a)]
    BY <1>2, <1>3, ConcatProperties
  <2>2. Len(a) = p - 1 /\ Len(b) = c - p
    BY <1>4, <1>5
  <2> QED BY <2>1, <2>2
<1>7. (p - 1) + (c - p) = c - 1
  BY <1>1
<1>8. ASSUME NEW k \in 1 .. c - 1
      PROVE  (a \o b)[k] = IF k < p THEN s[k] ELSE s[k + 1]
  <2>1. CASE k < p
    <3>1. k <= p - 1 /\ k \in 1 .. p - 1
      BY <1>1, <2>1
    <3> QED BY <1>4, <1>6, <1>7, <2>1, <3>1
  <2>2. CASE ~(k < p)
    <3>1. ~(k <= p - 1) /\ k - (p - 1) \in 1 .. c - p /\ p + (k - (p - 1)) = k + 1
      BY <1>1, <2>2
    <3> QED BY <1>5, <1>6, <1>7, <2>2, <3>1
  <2> QED BY <2>1, <2>2
<1> QED BY <1>6, <1>7, <1>8 DEF RemoveAt, a, b, c

-----------------------------------------------------------------------------
(* The linked list. *)

Node == [prev : Nodes \cup {NULL}, next : Nodes \cup {NULL}, value : Values]

\* LinkedAs of a list given by its parts.
Links(h, t, ns, order) ==
  /\ IsInjective(order)
  /\ Range(order) = DOMAIN ns
  /\ h = IF order = <<>> THEN NULL ELSE order[1]
  /\ t = IF order = <<>> THEN NULL ELSE order[Len(order)]
  /\ \A k \in DOMAIN order :
       /\ ns[order[k]].prev = IF k = 1 THEN NULL ELSE order[k - 1]
       /\ ns[order[k]].next = IF k = Len(order) THEN NULL ELSE order[k + 1]

\* NodeAt of a list given by its parts.
Walk(h, ns) ==
  CHOOSE at : at = [k \in Nat |->
    IF k = 0 THEN h
    ELSE IF at[k - 1] \in DOMAIN ns THEN ns[at[k - 1]].next ELSE NULL]

IsWalk(h, ns, at) ==
  /\ at[0] = h
  /\ \A k \in Nat : at[k + 1] = IF at[k] \in DOMAIN ns THEN ns[at[k]].next ELSE NULL

\* Steps of a list given by its nodes and a walk; with Iterated and what deinit reaches.
StepsOf(ns, at) == {k \in 0 .. Cardinality(DOMAIN ns) : at[k] # NULL}

IteratedOf(ns, at) == [k \in 1 .. Cardinality(StepsOf(ns, at)) |-> at[k - 1]]

ReachedOf(ns, at) == {at[k] : k \in StepsOf(ns, at)}

ValuesOf(ns, order) == [k \in DOMAIN order |-> ns[order[k]].value]

-----------------------------------------------------------------------------
\* The recursive definition of NodeAt has a meaning.
LEMMA WalkWalks ==
  ASSUME NEW h \in Nodes \cup {NULL}, NEW ns, ns \in [DOMAIN ns -> Node]
  PROVE  IsWalk(h, ns, Walk(h, ns))
<1> DEFINE S == Nodes \cup {NULL}
           g == [x \in S |-> IF x \in DOMAIN ns THEN ns[x].next ELSE NULL]
<1>1. g \in [S -> S]
  <2>1. \A x \in DOMAIN ns : ns[x].next \in S
    BY DEF Node
  <2> QED BY <2>1
<1>2. PICK at \in [Nat -> S] : at[0] = h /\ \A k \in Nat : at[k + 1] = g[at[k]]
  <2>1. h \in S
    OBVIOUS
  <2> HIDE DEF S, g
  <2>2. \E at \in [Nat -> S] : HP!IsPath(at, h, g)
    BY <1>1, <2>1, HP!WalkExists
  <2> QED BY <2>2 DEF HP!IsPath
<1>3. \A k \in Nat : at[k + 1] = IF at[k] \in DOMAIN ns THEN ns[at[k]].next ELSE NULL
  BY <1>2
<1> HIDE DEF g
<1>4. at = [k \in Nat |-> IF k = 0 THEN h
                         ELSE IF at[k - 1] \in DOMAIN ns THEN ns[at[k - 1]].next ELSE NULL]
  <2>1. ASSUME NEW k \in Nat
        PROVE  at[k] = IF k = 0 THEN h
                       ELSE IF at[k - 1] \in DOMAIN ns THEN ns[at[k - 1]].next ELSE NULL
    <3>1. CASE k = 0
      BY <1>2, <3>1
    <3>2. CASE k # 0
      <4>1. k - 1 \in Nat /\ (k - 1) + 1 = k
        BY <3>2
      <4> QED BY <1>3, <3>2, <4>1
    <3> QED BY <3>1, <3>2
  <2> QED BY <1>2, <2>1
<1>5. Walk(h, ns) = [k \in Nat |-> IF k = 0 THEN h
        ELSE IF Walk(h, ns)[k - 1] \in DOMAIN ns THEN ns[Walk(h, ns)[k - 1]].next ELSE NULL]
  BY <1>4 DEF Walk
<1> DEFINE w == Walk(h, ns)
<1>6. w[0] = h
  BY <1>5
<1>7. ASSUME NEW k \in Nat
      PROVE  w[k + 1] = IF w[k] \in DOMAIN ns THEN ns[w[k]].next ELSE NULL
  <2>1. k + 1 \in Nat /\ k + 1 # 0 /\ (k + 1) - 1 = k
    OBVIOUS
  <2> HIDE DEF w
  <2> QED BY <1>5, <2>1 DEF w
<1> QED BY <1>6, <1>7 DEF IsWalk

\* A walk follows the order in which the nodes are linked, and ends there.
LEMMA WalkFollows ==
  ASSUME NEW h, NEW t, NEW ns, NEW order \in Seq(Nodes), NEW at,
         Links(h, t, ns, order), IsWalk(h, ns, at), LinkListAssumption,
         DOMAIN ns \subseteq Nodes
  PROVE  \A k \in Nat : at[k] = IF k < Len(order) THEN order[k + 1] ELSE NULL
<1> DEFINE Off == {k \in Nat : at[k] # IF k < Len(order) THEN order[k + 1] ELSE NULL}
<1> SUFFICES ASSUME Off # {} PROVE FALSE
  OBVIOUS
<1>1. PICK d \in Off : \A k \in Off : d <= k
  <2>1. Off \in SUBSET Nat
    OBVIOUS
  <2> HIDE DEF Off
  <2> QED BY <2>1, HP!Least
<1>2. Len(order) \in Nat /\ DOMAIN order = 1 .. Len(order) /\ d \in Nat
      /\ \A k \in DOMAIN order : order[k] \in Nodes
  OBVIOUS
<1>3. CASE d = 0
  <2>1. at[0] = h
    BY DEF IsWalk
  <2>2. CASE order = <<>>
    BY <1>2, <1>3, <2>1, <2>2 DEF Links
  <2>3. CASE order # <<>>
    <3>1. 0 < Len(order)
      BY <1>2, <2>3
    <3> QED BY <1>3, <2>1, <2>3, <3>1 DEF Links
  <2> QED BY <2>2, <2>3
<1>4. CASE d # 0
  <2> DEFINE e == d - 1
  <2>1. e \in Nat /\ e + 1 = d /\ e \notin Off
    BY <1>1, <1>2, <1>4
  <2>2. at[d] = IF at[e] \in DOMAIN ns THEN ns[at[e]].next ELSE NULL
    BY <2>1 DEF IsWalk
  <2>3. at[e] = IF e < Len(order) THEN order[e + 1] ELSE NULL
    BY <2>1
  <2>4. CASE e < Len(order)
    <3>1. d \in DOMAIN order /\ at[e] = order[d]
      BY <1>2, <2>1, <2>3, <2>4
    <3>2. at[e] \in DOMAIN ns
      BY <3>1 DEF Links, Range
    <3>3. ns[order[d]].next = IF d = Len(order) THEN NULL ELSE order[d + 1]
      BY <3>1 DEF Links
    <3>4. at[d] = IF d = Len(order) THEN NULL ELSE order[d + 1]
      BY <2>2, <3>1, <3>2, <3>3
    <3>5. d <= Len(order)
      BY <1>2, <3>1
    <3>6. at[d] = IF d < Len(order) THEN order[d + 1] ELSE NULL
      <4> DEFINE n == Len(order)
      <4>1. d \in Nat /\ n \in Nat
        BY <1>2
      <4>2. d <= n /\ (at[d] = IF d = n THEN NULL ELSE order[d + 1])
        BY <3>4, <3>5
      <4> HIDE DEF e, Off, n
      <4>3. d < n <=> d # n
        BY <4>1, <4>2
      <4> QED BY <4>2, <4>3 DEF n
    <3> HIDE DEF e
    <3> QED BY <3>6
  <2>5. CASE ~(e < Len(order))
    <3>1. at[d] = NULL
      BY <2>2, <2>3, <2>5 DEF LinkListAssumption
    <3> QED BY <1>2, <2>1, <2>5, <3>1
  <2> QED BY <2>4, <2>5
<1> QED BY <1>3, <1>4

\* The steps that lead to a node are as many as there are nodes, so an
\* iteration gives the nodes in their order.
LEMMA IterationIsOrder ==
  ASSUME NEW h, NEW t, NEW ns, NEW order \in Seq(Nodes), NEW at,
         Links(h, t, ns, order), IsWalk(h, ns, at), LinkListAssumption,
         DOMAIN ns \subseteq Nodes
  PROVE  IteratedOf(ns, at) = order /\ ReachedOf(ns, at) = DOMAIN ns
<1> DEFINE n == Len(order)
<1>1. n \in Nat /\ DOMAIN order = 1 .. n /\ \A k \in 1 .. n : order[k] \in Nodes
  OBVIOUS
<1>2. \A k \in Nat : at[k] = IF k < n THEN order[k + 1] ELSE NULL
  BY WalkFollows
<1>3. Cardinality(DOMAIN ns) = n
  <2>1. order \in Bijection(1 .. n, DOMAIN ns)
    <3>1. order \in [1 .. n -> DOMAIN ns]
      BY <1>1 DEF Links, Range
    <3>2. \A k, l \in 1 .. n : order[k] = order[l] => k = l
      BY <1>1 DEF Links, IsInjective
    <3>3. \A x \in DOMAIN ns : \E k \in 1 .. n : order[k] = x
      BY <1>1 DEF Links, Range
    <3> HIDE DEF n
    <3>4. order \in Injection(1 .. n, DOMAIN ns)
      BY <3>1, <3>2 DEF Injection, IsInjective
    <3>5. order \in Surjection(1 .. n, DOMAIN ns)
      BY <3>1, <3>3 DEF Surjection
    <3> QED BY <3>4, <3>5 DEF Bijection
  <2>2. IsFiniteSet(1 .. n) /\ Cardinality(1 .. n) = n
    <3> HIDE DEF n
    <3>1. 1 \in Int /\ n \in Int /\ (1 > n => n = 0) /\ n - 1 + 1 = n
      BY <1>1
    <3> QED BY <3>1, FS_Interval
  <2> QED BY <2>1, <2>2, FS_Bijection DEF ExistsBijection
<1> HIDE DEF n
<1>4. StepsOf(ns, at) = 0 .. n - 1
  <2>1. \A k \in 0 .. n - 1 : k \in Nat /\ k < n /\ k + 1 \in 1 .. n
    BY <1>1
  <2>2. \A k \in 0 .. n - 1 : at[k] # NULL
    BY <1>1, <1>2, <2>1 DEF LinkListAssumption
  <2>3. n \in Nat /\ ~(n < n) /\ at[n] = NULL
    BY <1>1, <1>2
  <2> QED BY <1>1, <1>3, <2>2, <2>3 DEF StepsOf
<1>5. Cardinality(StepsOf(ns, at)) = n
  <2>1. 0 \in Int /\ n - 1 \in Int /\ (0 > n - 1 => n = 0) /\ (n - 1) - 0 + 1 = n
    BY <1>1
  <2> QED BY <1>4, <2>1, FS_Interval
<1>6. ASSUME NEW k \in 1 .. n PROVE at[k - 1] = order[k]
  <2>1. k - 1 \in Nat /\ k - 1 < n /\ (k - 1) + 1 = k
    BY <1>1
  <2> QED BY <1>2, <2>1
<1>7. [k \in 1 .. n |-> at[k - 1]] = order
  BY <1>1, <1>6
<1>8. {at[k] : k \in 0 .. n - 1} = DOMAIN ns
  <2>1. \A k \in 0 .. n - 1 : k + 1 \in 1 .. n /\ (k + 1) - 1 = k
    BY <1>1
  <2>2. \A k \in 1 .. n : k - 1 \in 0 .. n - 1
    BY <1>1
  <2>3. DOMAIN ns = {order[k] : k \in 1 .. n}
    BY <1>1 DEF Links, Range
  <2>4. \A k \in 0 .. n - 1 : at[k] \in DOMAIN ns
    BY <1>6, <2>1, <2>3
  <2>5. \A x \in DOMAIN ns : \E k \in 0 .. n - 1 : at[k] = x
    BY <1>6, <2>2, <2>3
  <2> QED BY <2>4, <2>5
<1> QED BY <1>4, <1>5, <1>7, <1>8 DEF IteratedOf, ReachedOf

-----------------------------------------------------------------------------
\* The nodes after n was linked in.
InBack(t, ns, n, v) ==
  [x \in DOMAIN ns \cup {n} |->
     IF x = n THEN [prev |-> t, next |-> NULL, value |-> v]
     ELSE IF x = t THEN [ns[x] EXCEPT !.next = n] ELSE ns[x]]

InFront(h, ns, n, v) ==
  [x \in DOMAIN ns \cup {n} |->
     IF x = n THEN [prev |-> NULL, next |-> h, value |-> v]
     ELSE IF x = h THEN [ns[x] EXCEPT !.prev = n] ELSE ns[x]]

\* What linking a node in, and taking one out, makes of the order.
LEMMA LinkedBack ==
  ASSUME NEW h, NEW t, NEW ns, NEW order \in Seq(Nodes), NEW n \in Nodes \ DOMAIN ns,
         NEW v, NEW ns2, Links(h, t, ns, order), LinkListAssumption,
         ns2 = InBack(t, ns, n, v),
         ns \in [DOMAIN ns -> Node]
  PROVE  /\ Links(IF t = NULL THEN n ELSE h, n, ns2, Append(order, n))
         /\ ValuesOf(ns2, Append(order, n)) = ValuesOf(ns, order) \o <<v>>
<1> USE DEF InBack
<1> DEFINE new == Append(order, n)
           c == Len(order)
<1>1. /\ c \in Nat /\ DOMAIN order = 1 .. c /\ (order = <<>> <=> c = 0)
      /\ \A k \in 1 .. c : order[k] \in Nodes /\ order[k] \in DOMAIN ns /\ order[k] # n
  BY DEF Links, Range
<1>2. /\ new \in Seq(Nodes) /\ Len(new) = c + 1 /\ DOMAIN new = 1 .. c + 1 /\ new # <<>>
      /\ \A k \in 1 .. c + 1 : new[k] = IF k = c + 1 THEN n ELSE order[k]
  BY <1>1
<1> HIDE DEF new, c
<1>3. /\ \A k, l \in 1 .. c : order[k] = order[l] => k = l
      /\ t = IF c = 0 THEN NULL ELSE order[c]
      /\ h = IF c = 0 THEN NULL ELSE order[1]
      /\ \A x \in DOMAIN ns : \E k \in 1 .. c : order[k] = x
      /\ \A k \in 1 .. c :
           /\ ns[order[k]].prev = IF k = 1 THEN NULL ELSE order[k - 1]
           /\ ns[order[k]].next = IF k = c THEN NULL ELSE order[k + 1]
  BY <1>1 DEF Links, Range, IsInjective, c
<1>4. IsInjective(new)
  BY <1>1, <1>2, <1>3 DEF IsInjective
<1>5. Range(new) = DOMAIN ns2
  <2>1. DOMAIN ns2 = DOMAIN ns \cup {n}
    OBVIOUS
  <2>2. \A k \in 1 .. c + 1 : new[k] \in DOMAIN ns2
    BY <1>1, <1>2, <2>1
  <2>3. ASSUME NEW x \in DOMAIN ns2 PROVE \E k \in 1 .. c + 1 : new[k] = x
    <3>1. CASE x = n
      <4>1. c + 1 \in 1 .. c + 1
        BY <1>1
      <4> QED BY <1>2, <3>1, <4>1
    <3>2. CASE x # n
      <4>1. PICK k \in 1 .. c : order[k] = x
        BY <1>3, <2>1, <3>2
      <4>2. k \in 1 .. c + 1 /\ k # c + 1
        BY <1>1
      <4> QED BY <1>2, <4>1, <4>2
    <3> QED BY <3>1, <3>2
  <2> QED BY <1>2, <2>2, <2>3 DEF Range
<1>6. ASSUME NEW k \in 1 .. c + 1
      PROVE  /\ ns2[new[k]].prev = IF k = 1 THEN NULL ELSE new[k - 1]
             /\ ns2[new[k]].next = IF k = c + 1 THEN NULL ELSE new[k + 1]
             /\ ns2[new[k]].value = IF k = c + 1 THEN v ELSE ns[order[k]].value
  <2>1. CASE k = c + 1
    <3>1. ns2[n] = [prev |-> t, next |-> NULL, value |-> v]
      OBVIOUS
    <3>2. new[k] = n /\ (c = 0 <=> k = 1) /\ (c # 0 => c \in 1 .. c /\ k - 1 = c /\ k - 1 \in 1 .. c + 1)
      BY <1>1, <1>2, <2>1
    <3> QED BY <1>2, <1>3, <2>1, <3>1, <3>2
  <2>2. CASE k # c + 1
    <3>1. k \in 1 .. c /\ new[k] = order[k] /\ order[k] \in DOMAIN ns /\ order[k] # n
          /\ (k # 1 => k - 1 \in 1 .. c + 1 /\ k - 1 # c + 1) /\ k + 1 \in 1 .. c + 1
          /\ (k + 1 = c + 1 <=> k = c)
      BY <1>1, <1>2, <2>2
    <3>2. ns2[order[k]] = IF order[k] = t THEN [ns[order[k]] EXCEPT !.next = n] ELSE ns[order[k]]
      BY <3>1
    <3>3. order[k] = t <=> k = c
      BY <1>1, <1>3, <3>1
    <3>4. ns[order[k]] \in Node
      BY <3>1
    <3>5. /\ ns2[order[k]].prev = ns[order[k]].prev /\ ns2[order[k]].value = ns[order[k]].value
          /\ ns2[order[k]].next = IF k = c THEN n ELSE ns[order[k]].next
      BY <3>2, <3>3, <3>4 DEF Node
    <3>6. ns2[new[k]].prev = IF k = 1 THEN NULL ELSE new[k - 1]
      BY <1>2, <1>3, <3>1, <3>5
    <3>7. ns2[new[k]].next = new[k + 1]
      BY <1>2, <1>3, <3>1, <3>5
    <3> QED BY <2>2, <3>1, <3>5, <3>6, <3>7
  <2> QED BY <2>1, <2>2
<1>7. /\ n = IF new = <<>> THEN NULL ELSE new[Len(new)]
      /\ (IF t = NULL THEN n ELSE h) = IF new = <<>> THEN NULL ELSE new[1]
  <2>1. c + 1 \in 1 .. c + 1 /\ 1 \in 1 .. c + 1 /\ (c = 0 <=> 1 = c + 1) /\ (c # 0 => 1 \in 1 .. c /\ c \in 1 .. c)
    BY <1>1
  <2>2. t = NULL <=> c = 0
    BY <1>1, <1>3, <2>1 DEF LinkListAssumption
  <2> QED BY <1>2, <1>3, <2>1, <2>2
<1>8. Links(IF t = NULL THEN n ELSE h, n, ns2, new)
  <2> HIDE DEF InBack
  <2>1. DOMAIN new = 1 .. c + 1 /\ Len(new) = c + 1
    BY <1>2
  <2>2. \A k \in DOMAIN new :
          /\ ns2[new[k]].prev = IF k = 1 THEN NULL ELSE new[k - 1]
          /\ ns2[new[k]].next = IF k = Len(new) THEN NULL ELSE new[k + 1]
    <3> TAKE k \in DOMAIN new
    <3>1. k \in 1 .. c + 1
      BY <2>1
    <3> QED BY <1>6, <2>1, <3>1
  <2> QED BY <1>4, <1>5, <1>7, <2>2 DEF Links
<1>9. ValuesOf(ns2, new) = ValuesOf(ns, order) \o <<v>>
  <2> DEFINE a == ValuesOf(ns, order)
             all == Values \cup {v}
  <2>1. a = [k \in 1 .. c |-> ns[order[k]].value]
    BY <1>1 DEF ValuesOf
  <2>2. a \in Seq(all) /\ Len(a) = c
    <3>1. \A k \in 1 .. c : ns[order[k]].value \in all
      BY <1>1 DEF Node
    <3>2. c \in Nat
      BY <1>1
    <3> HIDE DEF a, all
    <3>3. a \in [1 .. c -> all]
      BY <2>1, <3>1
    <3> QED BY <3>2, <3>3
  <2>3. <<v>> \in Seq(all) /\ Len(<<v>>) = 1 /\ <<v>>[1] = v
    OBVIOUS
  <2> HIDE DEF a, all
  <2>4. /\ a \o <<v>> \in Seq(all) /\ Len(a \o <<v>>) = c + 1
        /\ \A k \in 1 .. c + 1 : (a \o <<v>>)[k] = IF k <= c THEN a[k] ELSE <<v>>[k - c]
    BY <2>2, <2>3, ConcatProperties
  <2>5. ASSUME NEW k \in 1 .. c + 1
        PROVE  ns2[new[k]].value = (a \o <<v>>)[k]
    <3>1. CASE k = c + 1
      <4>1. ~(k <= c) /\ k - c = 1
        BY <1>1, <3>1
      <4>2. (a \o <<v>>)[k] = v
        BY <2>3, <2>4, <4>1
      <4>3. ns2[new[k]].value = v
        BY <1>6, <3>1
      <4> QED BY <4>2, <4>3
    <3>2. CASE k # c + 1
      <4>1. k <= c /\ k \in 1 .. c
        BY <1>1, <3>2
      <4> QED BY <1>6, <2>1, <2>4, <3>2, <4>1
    <3> QED BY <3>1, <3>2
  <2>6. a \o <<v>> = [k \in 1 .. c + 1 |-> (a \o <<v>>)[k]]
    BY <2>4
  <2>7. ValuesOf(ns2, new) = [k \in 1 .. c + 1 |-> ns2[new[k]].value]
    BY <1>2 DEF ValuesOf
  <2> QED BY <2>5, <2>6, <2>7 DEF a
<1> QED BY <1>8, <1>9 DEF new

LEMMA LinkedFront ==
  ASSUME NEW h, NEW t, NEW ns, NEW order \in Seq(Nodes), NEW n \in Nodes \ DOMAIN ns,
         NEW v, NEW ns2, Links(h, t, ns, order), LinkListAssumption,
         NEW t2, ns2 = InFront(h, ns, n, v), t2 = IF h = NULL THEN n ELSE t,
         ns \in [DOMAIN ns -> Node]
  PROVE  \E order2 \in Seq(Nodes) :
           /\ Links(n, t2, ns2, order2)
           /\ ValuesOf(ns2, order2) = <<v>> \o ValuesOf(ns, order)
<1> USE DEF InFront
<1> DEFINE new == <<n>> \o order
           c == Len(order)
<1>1. /\ c \in Nat /\ DOMAIN order = 1 .. c /\ (order = <<>> <=> c = 0)
      /\ \A k \in 1 .. c : order[k] \in Nodes /\ order[k] \in DOMAIN ns /\ order[k] # n
  BY DEF Links, Range
<1>2. /\ new \in Seq(Nodes) /\ Len(new) = c + 1 /\ DOMAIN new = 1 .. c + 1 /\ new # <<>>
      /\ \A k \in 1 .. c + 1 : new[k] = IF k = 1 THEN n ELSE order[k - 1]
  <2>1. <<n>> \in Seq(Nodes) /\ Len(<<n>>) = 1 /\ <<n>>[1] = n
    OBVIOUS
  <2>2. /\ new \in Seq(Nodes) /\ Len(new) = 1 + c
        /\ \A k \in 1 .. 1 + c : new[k] = IF k <= 1 THEN <<n>>[k] ELSE order[k - 1]
    BY <2>1, ConcatProperties
  <2> HIDE DEF new, c
  <2>3. 1 + c = c + 1 /\ c + 1 # 0 /\ \A k \in 1 .. c + 1 : k <= 1 <=> k = 1
    BY <1>1
  <2> QED BY <2>1, <2>2, <2>3
<1> HIDE DEF new, c
<1>3. /\ \A k, l \in 1 .. c : order[k] = order[l] => k = l
      /\ t = IF c = 0 THEN NULL ELSE order[c]
      /\ h = IF c = 0 THEN NULL ELSE order[1]
      /\ \A x \in DOMAIN ns : \E k \in 1 .. c : order[k] = x
      /\ \A k \in 1 .. c :
           /\ ns[order[k]].prev = IF k = 1 THEN NULL ELSE order[k - 1]
           /\ ns[order[k]].next = IF k = c THEN NULL ELSE order[k + 1]
  BY <1>1 DEF Links, Range, IsInjective, c
<1>a. \A k \in 1 .. c + 1 : k # 1 => k - 1 \in 1 .. c
  BY <1>1
<1>4. IsInjective(new)
  <2>1. ASSUME NEW k \in 1 .. c + 1, NEW l \in 1 .. c + 1, new[k] = new[l] PROVE k = l
    <3>1. CASE k = 1 /\ l # 1
      BY <1>1, <1>2, <1>a, <2>1, <3>1
    <3>2. CASE k # 1 /\ l = 1
      BY <1>1, <1>2, <1>a, <2>1, <3>2
    <3>3. CASE k # 1 /\ l # 1
      <4>1. order[k - 1] = order[l - 1] /\ k - 1 \in 1 .. c /\ l - 1 \in 1 .. c
        BY <1>2, <1>a, <2>1, <3>3
      <4>2. k - 1 = l - 1
        BY <1>3, <4>1
      <4> QED BY <4>2
    <3> QED BY <3>1, <3>2, <3>3
  <2> QED BY <1>2, <2>1 DEF IsInjective
<1>5. Range(new) = DOMAIN ns2
  <2>1. DOMAIN ns2 = DOMAIN ns \cup {n}
    OBVIOUS
  <2>2. \A k \in 1 .. c + 1 : new[k] \in DOMAIN ns2
    BY <1>1, <1>2, <1>a, <2>1
  <2>3. ASSUME NEW x \in DOMAIN ns2 PROVE \E k \in 1 .. c + 1 : new[k] = x
    <3>1. CASE x = n
      <4>1. 1 \in 1 .. c + 1
        BY <1>1
      <4> QED BY <1>2, <3>1, <4>1
    <3>2. CASE x # n
      <4>1. PICK k \in 1 .. c : order[k] = x
        BY <1>3, <2>1, <3>2
      <4>2. k + 1 \in 1 .. c + 1 /\ k + 1 # 1 /\ (k + 1) - 1 = k
        BY <1>1
      <4> QED BY <1>2, <4>1, <4>2
    <3> QED BY <3>1, <3>2
  <2> QED BY <1>2, <2>2, <2>3 DEF Range
<1>6. ASSUME NEW k \in 1 .. c + 1
      PROVE  /\ ns2[new[k]].prev = IF k = 1 THEN NULL ELSE new[k - 1]
             /\ ns2[new[k]].next = IF k = c + 1 THEN NULL ELSE new[k + 1]
             /\ ns2[new[k]].value = IF k = 1 THEN v ELSE ns[order[k - 1]].value
  <2>1. CASE k = 1
    <3>1. ns2[n] = [prev |-> NULL, next |-> h, value |-> v]
      OBVIOUS
    <3>2. new[k] = n /\ (c = 0 <=> k = c + 1)
          /\ (c # 0 => k + 1 \in 1 .. c + 1 /\ k + 1 # 1 /\ (k + 1) - 1 = 1)
      BY <1>1, <1>2, <2>1
    <3>3. /\ ns2[new[k]].prev = NULL /\ ns2[new[k]].next = h /\ ns2[new[k]].value = v
      BY <3>1, <3>2
    <3>4. h = IF k = c + 1 THEN NULL ELSE new[k + 1]
      <4>1. CASE c = 0
        BY <1>3, <3>2, <4>1
      <4>2. CASE c # 0
        <5>1. new[k + 1] = order[1]
          BY <1>2, <3>2, <4>2
        <5> QED BY <1>3, <3>2, <4>2, <5>1
      <4> QED BY <4>1, <4>2
    <3> QED BY <2>1, <3>3, <3>4
  <2>2. CASE k # 1
    <3> DEFINE l == k - 1
               x == order[l]
    <3>1. /\ l \in 1 .. c /\ new[k] = x /\ x \in DOMAIN ns /\ x # n
          /\ (l = c <=> k = c + 1) /\ (l = 1 <=> k - 1 = 1)
          /\ (k # c + 1 => k + 1 \in 1 .. c + 1 /\ k + 1 # 1 /\ (k + 1) - 1 = l + 1)
          /\ k - 1 \in 1 .. c + 1 /\ (k - 1) - 1 = l - 1
      BY <1>1, <1>2, <1>a, <2>2
    <3>2. ns2[x] = IF x = h THEN [ns[x] EXCEPT !.prev = n] ELSE ns[x]
      BY <3>1
    <3>3. x = h <=> l = 1
      BY <1>1, <1>3, <3>1
    <3>4. ns[x] \in Node
      BY <3>1
    <3>5. /\ ns2[x].next = ns[x].next /\ ns2[x].value = ns[x].value
          /\ ns2[x].prev = IF l = 1 THEN n ELSE ns[x].prev
      BY <3>2, <3>3, <3>4 DEF Node
    <3>6. /\ ns[x].prev = IF l = 1 THEN NULL ELSE order[l - 1]
          /\ ns[x].next = IF l = c THEN NULL ELSE order[l + 1]
      BY <1>3, <3>1
    <3>7. new[k - 1] = IF l = 1 THEN n ELSE order[l - 1]
      BY <1>2, <3>1
    <3>8. k # c + 1 => new[k + 1] = order[l + 1]
      BY <1>2, <3>1
    <3>9. ns2[x].prev = new[k - 1]
      BY <3>5, <3>6, <3>7
    <3>10. ns2[x].next = IF k = c + 1 THEN NULL ELSE new[k + 1]
      BY <3>1, <3>5, <3>6, <3>8
    <3>11. ns2[x].value = ns[order[k - 1]].value
      BY <3>5
    <3>12. new[k] = x
      BY <3>1
    <3> HIDE DEF x, l
    <3>13. /\ ns2[new[k]].prev = new[k - 1]
           /\ ns2[new[k]].next = IF k = c + 1 THEN NULL ELSE new[k + 1]
           /\ ns2[new[k]].value = ns[order[k - 1]].value
      BY <3>9, <3>10, <3>11, <3>12
    <3> QED BY <2>2, <3>13
  <2> QED BY <2>1, <2>2
<1>7. /\ n = IF new = <<>> THEN NULL ELSE new[1]
      /\ (IF h = NULL THEN n ELSE t) = IF new = <<>> THEN NULL ELSE new[Len(new)]
  <2>1. c + 1 \in 1 .. c + 1 /\ 1 \in 1 .. c + 1 /\ (c = 0 <=> 1 = c + 1) /\ (c + 1) - 1 = c
        /\ (c # 0 => 1 \in 1 .. c /\ c \in 1 .. c)
    BY <1>1
  <2>2. h = NULL <=> c = 0
    BY <1>1, <1>3, <2>1 DEF LinkListAssumption
  <2> QED BY <1>2, <1>3, <2>1, <2>2
<1>8. Links(n, IF h = NULL THEN n ELSE t, ns2, new)
  <2>1. \A k \in DOMAIN new :
          /\ ns2[new[k]].prev = IF k = 1 THEN NULL ELSE new[k - 1]
          /\ ns2[new[k]].next = IF k = Len(new) THEN NULL ELSE new[k + 1]
    <3> SUFFICES ASSUME NEW k \in DOMAIN new
                 PROVE  /\ ns2[new[k]].prev = IF k = 1 THEN NULL ELSE new[k - 1]
                        /\ ns2[new[k]].next = IF k = Len(new) THEN NULL ELSE new[k + 1]
      OBVIOUS
    <3>1. k \in 1 .. c + 1 /\ Len(new) = c + 1
      BY <1>2
    <3> QED BY <1>6, <3>1
  <2> HIDE DEF new
  <2> QED BY <1>4, <1>5, <1>7, <2>1 DEF Links
<1>9. ValuesOf(ns2, new) = <<v>> \o ValuesOf(ns, order)
  <2> DEFINE a == ValuesOf(ns, order)
             all == Values \cup {v}
  <2>1. a = [k \in 1 .. c |-> ns[order[k]].value]
    BY <1>1 DEF ValuesOf
  <2>2. a \in Seq(all) /\ Len(a) = c
    <3>1. \A k \in 1 .. c : ns[order[k]].value \in all
      BY <1>1 DEF Node
    <3>2. c \in Nat
      BY <1>1
    <3> HIDE DEF a, all
    <3>3. a \in [1 .. c -> all]
      BY <2>1, <3>1
    <3> QED BY <3>2, <3>3
  <2>3. <<v>> \in Seq(all) /\ Len(<<v>>) = 1 /\ <<v>>[1] = v
    OBVIOUS
  <2> HIDE DEF a, all
  <2>4. /\ <<v>> \o a \in Seq(all) /\ Len(<<v>> \o a) = c + 1
        /\ \A k \in 1 .. c + 1 : (<<v>> \o a)[k] = IF k <= 1 THEN <<v>>[k] ELSE a[k - 1]
    <3>1. 1 + c = c + 1
      BY <1>1
    <3> QED BY <2>2, <2>3, <3>1, ConcatProperties
  <2>5. ASSUME NEW k \in 1 .. c + 1
        PROVE  ns2[new[k]].value = (<<v>> \o a)[k]
    <3>1. CASE k = 1
      <4>1. k <= 1
        BY <3>1
      <4> QED BY <1>6, <2>3, <2>4, <3>1, <4>1
    <3>2. CASE k # 1
      <4>1. ~(k <= 1) /\ k - 1 \in 1 .. c
        BY <1>1, <3>2
      <4> QED BY <1>6, <2>1, <2>4, <3>2, <4>1
    <3> QED BY <3>1, <3>2
  <2>6. <<v>> \o a = [k \in 1 .. c + 1 |-> (<<v>> \o a)[k]]
    BY <2>4
  <2>7. ValuesOf(ns2, new) = [k \in 1 .. c + 1 |-> ns2[new[k]].value]
    BY <1>2 DEF ValuesOf
  <2> QED BY <2>5, <2>6, <2>7 DEF a
<1> QED BY <1>2, <1>8, <1>9

\* From the list h, t, ns to h2, t2, ns2 node g is unlinked.
IsOut(g, h, t, ns, h2, t2, ns2) ==
  /\ DOMAIN ns2 = DOMAIN ns \ {g}
  /\ \A x \in DOMAIN ns2 :
       /\ ns2[x].next = IF x = ns[g].prev THEN ns[g].next ELSE ns[x].next
       /\ ns2[x].prev = IF x = ns[g].next THEN ns[g].prev ELSE ns[x].prev
       /\ ns2[x].value = ns[x].value
  /\ h2 = IF ns[g].prev = NULL THEN ns[g].next ELSE h
  /\ t2 = IF ns[g].next = NULL THEN ns[g].prev ELSE t

\* The same of the node at position p of the order.
IsOutAt(order, p, h, t, ns, h2, t2, ns2) ==
  /\ order \in Seq(Nodes) /\ p \in 1 .. Len(order)
  /\ Links(h, t, ns, order) /\ ns \in [DOMAIN ns -> Node]
  /\ IsOut(order[p], h, t, ns, h2, t2, ns2)

\* Unlinking the node at position p, wherever that is.
LEMMA LinkedOut ==
  ASSUME NEW order, NEW p, NEW h, NEW t, NEW ns, NEW h2, NEW t2, NEW ns2,
         IsOutAt(order, p, h, t, ns, h2, t2, ns2), LinkListAssumption
  PROVE  \E order2 \in Seq(Nodes) :
           /\ Links(h2, t2, ns2, order2)
           /\ ValuesOf(ns2, order2) = RemoveAt(ValuesOf(ns, order), p)
<1> DEFINE g == order[p]
<1>0. /\ order \in Seq(Nodes) /\ p \in 1 .. Len(order)
      /\ Links(h, t, ns, order) /\ ns \in [DOMAIN ns -> Node]
      /\ IsOut(g, h, t, ns, h2, t2, ns2) /\ g = order[p]
  BY DEF IsOutAt
<1> HIDE DEF g
<1> USE <1>0
<1> DEFINE new == RemoveAt(order, p)
           c == Len(order)
<1>1. /\ c \in Nat /\ DOMAIN order = 1 .. c /\ (order = <<>> <=> c = 0)
      /\ p \in 1 .. c /\ c # 0 /\ p \in Int /\ 1 <= p /\ p <= c
      /\ \A k \in 1 .. c : order[k] \in Nodes /\ order[k] \in DOMAIN ns
  <2>1. c \in Nat /\ DOMAIN order = 1 .. c /\ (order = <<>> <=> c = 0)
        /\ \A k \in 1 .. c : order[k] \in Nodes
    OBVIOUS
  <2>2. p \in 1 .. c
    OBVIOUS
  <2>3. \A k \in 1 .. c : order[k] \in DOMAIN ns
    BY <2>1 DEF Links, Range
  <2> HIDE DEF c
  <2> QED BY <2>1, <2>2, <2>3
<1>2. /\ new \in Seq(Nodes) /\ Len(new) = c - 1 /\ DOMAIN new = 1 .. c - 1
      /\ (new = <<>> <=> c = 1)
      /\ \A k \in 1 .. c - 1 : new[k] = IF k < p THEN order[k] ELSE order[k + 1]
  <2>1. /\ new \in Seq(Nodes) /\ Len(new) = c - 1
        /\ \A k \in 1 .. c - 1 : new[k] = IF k < p THEN order[k] ELSE order[k + 1]
    BY Removed
  <2> HIDE DEF new, c
  <2> QED BY <1>1, <2>1
<1> HIDE DEF new, c
<1>3. /\ \A k, l \in 1 .. c : order[k] = order[l] => k = l
      /\ t = order[c] /\ h = order[1]
      /\ \A x \in DOMAIN ns : \E k \in 1 .. c : order[k] = x
      /\ \A k \in 1 .. c :
           /\ ns[order[k]].prev = IF k = 1 THEN NULL ELSE order[k - 1]
           /\ ns[order[k]].next = IF k = c THEN NULL ELSE order[k + 1]
  <2>1. \A k, l \in 1 .. c : order[k] = order[l] => k = l
    BY <1>1 DEF Links, IsInjective
  <2>2. t = order[c] /\ h = order[1]
    BY <1>1 DEF Links, c
  <2>3. \A x \in DOMAIN ns : \E k \in 1 .. c : order[k] = x
    BY <1>1 DEF Links, Range
  <2>4. \A k \in 1 .. c :
          /\ ns[order[k]].prev = IF k = 1 THEN NULL ELSE order[k - 1]
          /\ ns[order[k]].next = IF k = c THEN NULL ELSE order[k + 1]
    BY <1>1 DEF Links, c
  <2> QED BY <2>1, <2>2, <2>3, <2>4
\* Where an element of the new order was in the old one.
<1> DEFINE Old(k) == IF k < p THEN k ELSE k + 1
<1>4. /\ \A k \in 1 .. c - 1 : Old(k) \in 1 .. c /\ Old(k) # p /\ new[k] = order[Old(k)]
      /\ \A k, l \in 1 .. c - 1 : Old(k) = Old(l) => k = l
      /\ \A l \in 1 .. c : l # p => \E k \in 1 .. c - 1 : Old(k) = l
  <2>1. \A k \in 1 .. c - 1 : Old(k) \in 1 .. c /\ Old(k) # p
    BY <1>1
  <2>2. \A k \in 1 .. c - 1 : new[k] = order[Old(k)]
    BY <1>2
  <2>3. \A k, l \in 1 .. c - 1 : Old(k) = Old(l) => k = l
    BY <1>1
  <2>4. ASSUME NEW l \in 1 .. c, l # p PROVE \E k \in 1 .. c - 1 : Old(k) = l
    <3>1. CASE l < p
      <4>1. l \in 1 .. c - 1 /\ Old(l) = l
        BY <1>1, <3>1
      <4> QED BY <4>1
    <3>2. CASE ~(l < p)
      <4>1. l - 1 \in 1 .. c - 1 /\ Old(l - 1) = l
        BY <1>1, <2>4, <3>2
      <4> QED BY <4>1
    <3> QED BY <3>1, <3>2
  <2> QED BY <2>1, <2>2, <2>3, <2>4
<1>5. IsInjective(new)
  <2>1. ASSUME NEW k \in 1 .. c - 1, NEW l \in 1 .. c - 1, new[k] = new[l] PROVE k = l
    <3> HIDE DEF Old
    <3>1. order[Old(k)] = order[Old(l)] /\ Old(k) \in 1 .. c /\ Old(l) \in 1 .. c
      BY <1>4, <2>1
    <3>2. Old(k) = Old(l)
      BY <1>3, <3>1
    <3> QED BY <1>4, <3>2
  <2> QED BY <1>2, <2>1 DEF IsInjective
<1>6. Range(new) = DOMAIN ns2
  <2> HIDE DEF Old
  <2>1. DOMAIN ns2 = DOMAIN ns \ {g}
    BY DEF IsOut
  <2>2. \A k \in 1 .. c - 1 : new[k] \in DOMAIN ns2
    BY <1>1, <1>3, <1>4, <2>1
  <2>3. ASSUME NEW x \in DOMAIN ns2 PROVE \E k \in 1 .. c - 1 : new[k] = x
    <3>1. PICK l \in 1 .. c : order[l] = x
      BY <1>3, <2>1
    <3>2. l # p
      BY <2>1, <3>1
    <3> QED BY <1>4, <3>1, <3>2
  <2> QED BY <1>2, <2>2, <2>3 DEF Range
<1>7. /\ ns[g].prev = IF p = 1 THEN NULL ELSE order[p - 1]
      /\ ns[g].next = IF p = c THEN NULL ELSE order[p + 1]
  BY <1>1, <1>3
<1>8. ASSUME NEW k \in 1 .. c - 1
      PROVE  /\ ns2[new[k]].prev = IF k = 1 THEN NULL ELSE new[k - 1]
             /\ ns2[new[k]].next = IF k = c - 1 THEN NULL ELSE new[k + 1]
             /\ ns2[new[k]].value = ns[new[k]].value
  <2> DEFINE l == Old(k)
             x == order[l]
  <2>1. l \in 1 .. c /\ l # p /\ new[k] = x /\ x \in DOMAIN ns /\ x # g /\ x # NULL
    <3> HIDE DEF Old
    <3>1. l \in 1 .. c /\ l # p /\ new[k] = x
      BY <1>4
    <3>2. x \in DOMAIN ns /\ x \in Nodes
      BY <1>1, <3>1
    <3>3. x # g
      BY <1>1, <1>3, <3>1
    <3> QED BY <3>1, <3>2, <3>3 DEF LinkListAssumption
  <2>2. /\ ns2[x].next = IF x = ns[g].prev THEN ns[g].next ELSE ns[x].next
        /\ ns2[x].prev = IF x = ns[g].next THEN ns[g].prev ELSE ns[x].prev
        /\ ns2[x].value = ns[x].value
    <3>1. x \in DOMAIN ns2
      BY <2>1 DEF IsOut
    <3> HIDE DEF x, l
    <3> QED BY <3>1 DEF IsOut
  <2>3. x = ns[g].prev <=> l = p - 1
    <3>1. CASE p = 1
      <4>1. l # p - 1
        BY <2>1, <3>1
      <4> QED BY <1>7, <2>1, <3>1, <4>1
    <3>2. CASE p # 1
      <4>1. p - 1 \in 1 .. c
        BY <1>1, <3>2
      <4> HIDE DEF Old
      <4> QED BY <1>3, <1>7, <2>1, <3>2, <4>1
    <3> QED BY <3>1, <3>2
  <2>4. x = ns[g].next <=> l = p + 1
    <3>1. CASE p = c
      <4>1. l # p + 1
        BY <1>1, <2>1, <3>1
      <4> QED BY <1>7, <2>1, <3>1, <4>1
    <3>2. CASE p # c
      <4>1. p + 1 \in 1 .. c
        BY <1>1, <3>2
      <4> HIDE DEF Old
      <4> QED BY <1>3, <1>7, <2>1, <3>2, <4>1
    <3> QED BY <3>1, <3>2
  <2>5. /\ ns[x].prev = IF l = 1 THEN NULL ELSE order[l - 1]
        /\ ns[x].next = IF l = c THEN NULL ELSE order[l + 1]
    <3> HIDE DEF Old
    <3> QED BY <1>3, <2>1
  <2>6. ns2[x].prev = IF k = 1 THEN NULL ELSE new[k - 1]
    <3>1. CASE l = p + 1
      <4>1. k = p
        BY <1>1, <3>1
      <4>2. k # 1 => k - 1 \in 1 .. c - 1 /\ k - 1 < p
        BY <1>1, <4>1
      <4>3. k # 1 => new[k - 1] = order[p - 1]
        BY <1>2, <4>1, <4>2
      <4>4. ns2[x].prev = ns[g].prev
        BY <2>2, <2>4, <3>1
      <4> HIDE DEF x, l
      <4> QED BY <1>7, <4>1, <4>3, <4>4
    <3>2. CASE l # p + 1
      <4>1. (l = 1 <=> k = 1) /\ (k # 1 => k - 1 \in 1 .. c - 1 /\ Old(k - 1) = l - 1)
        BY <1>1, <2>1, <3>2
      <4>2. k # 1 => new[k - 1] = order[l - 1]
        BY <1>4, <4>1
      <4>3. ns2[x].prev = ns[x].prev
        BY <2>2, <2>4, <3>2
      <4> HIDE DEF x, l
      <4> QED BY <2>5, <4>1, <4>2, <4>3
    <3> QED BY <3>1, <3>2
  <2>7. ns2[x].next = IF k = c - 1 THEN NULL ELSE new[k + 1]
    <3>1. CASE l = p - 1
      <4>1. k = p - 1
        BY <1>1, <3>1
      <4>2. (k = c - 1 <=> p = c) /\ (k # c - 1 => p \in 1 .. c - 1 /\ ~(p < p) /\ k + 1 = p)
        BY <1>1, <4>1
      <4>3. k # c - 1 => new[k + 1] = order[p + 1]
        BY <1>2, <4>2
      <4>4. ns2[x].next = ns[g].next
        BY <2>2, <2>3, <3>1
      <4> HIDE DEF x, l
      <4> QED BY <1>7, <4>2, <4>3, <4>4
    <3>2. CASE l # p - 1
      <4>1. (l = c <=> k = c - 1) /\ (k # c - 1 => k + 1 \in 1 .. c - 1 /\ Old(k + 1) = l + 1)
        BY <1>1, <2>1, <3>2
      <4>2. k # c - 1 => new[k + 1] = order[l + 1]
        BY <1>4, <4>1
      <4>3. ns2[x].next = ns[x].next
        BY <2>2, <2>3, <3>2
      <4> HIDE DEF x, l
      <4> QED BY <2>5, <4>1, <4>2, <4>3
    <3> QED BY <3>1, <3>2
  <2>8. new[k] = x
    BY <2>1
  <2> HIDE DEF x, l
  <2> QED BY <2>2, <2>6, <2>7, <2>8
<1>9. h2 = IF new = <<>> THEN NULL ELSE new[1]
  <2>1. ns[g].prev = NULL <=> p = 1
    <3>1. p # 1 => p - 1 \in 1 .. c
      BY <1>1
    <3> QED BY <1>1, <1>7, <3>1 DEF LinkListAssumption
  <2>2. c # 1 => 1 \in 1 .. c - 1 /\ (1 < p <=> p # 1) /\ 1 + 1 = 2
    BY <1>1
  <2>3. c # 1 => new[1] = IF p = 1 THEN order[2] ELSE order[1]
    BY <1>2, <2>2
  <2>4. c = 1 => p = 1
    BY <1>1
  <2>5. p = 1 => ns[g].next = IF c = 1 THEN NULL ELSE order[2]
    BY <1>7
  <2> QED BY <1>2, <1>3, <2>1, <2>3, <2>4, <2>5 DEF IsOut
<1>10. t2 = IF new = <<>> THEN NULL ELSE new[Len(new)]
  <2>1. ns[g].next = NULL <=> p = c
    <3>1. p # c => p + 1 \in 1 .. c
      BY <1>1
    <3> QED BY <1>1, <1>7, <3>1 DEF LinkListAssumption
  <2>2. c # 1 => c - 1 \in 1 .. c - 1 /\ (c - 1 < p <=> p = c) /\ (c - 1) + 1 = c
    BY <1>1
  <2>3. c # 1 => new[c - 1] = IF p = c THEN order[c - 1] ELSE order[c]
    BY <1>2, <2>2
  <2>4. c = 1 => p = c
    BY <1>1
  <2>5. p = c => ns[g].prev = IF c = 1 THEN NULL ELSE order[c - 1]
    BY <1>7
  <2> QED BY <1>2, <1>3, <2>1, <2>3, <2>4, <2>5 DEF IsOut
<1>11. Links(h2, t2, ns2, new)
  <2>1. ASSUME NEW k \in DOMAIN new
        PROVE  /\ ns2[new[k]].prev = IF k = 1 THEN NULL ELSE new[k - 1]
               /\ ns2[new[k]].next = IF k = Len(new) THEN NULL ELSE new[k + 1]
    <3>1. k \in 1 .. c - 1 /\ Len(new) = c - 1
      BY <1>2
    <3> QED BY <1>8, <3>1
  <2> QED BY <1>5, <1>6, <1>9, <1>10, <2>1 DEF Links
<1>12. ValuesOf(ns2, new) = RemoveAt(ValuesOf(ns, order), p)
  <2> DEFINE a == ValuesOf(ns, order)
             b == RemoveAt(a, p)
  <2>1. a = [k \in 1 .. c |-> ns[order[k]].value]
    BY <1>1 DEF ValuesOf
  <2>2. a \in Seq(Values) /\ Len(a) = c
    <3>1. \A k \in 1 .. c : ns[order[k]].value \in Values
      BY <1>1 DEF Node
    <3> QED BY <1>1, <2>1, <3>1
  <2> HIDE DEF a
  <2>3. /\ b \in Seq(Values) /\ Len(b) = c - 1
        /\ \A k \in 1 .. c - 1 : b[k] = IF k < p THEN a[k] ELSE a[k + 1]
    <3>1. p \in 1 .. Len(a)
      BY <1>1, <2>2
    <3>2. /\ RemoveAt(a, p) \in Seq(Values) /\ Len(RemoveAt(a, p)) = Len(a) - 1
          /\ \A k \in 1 .. Len(a) - 1 : RemoveAt(a, p)[k] = IF k < p THEN a[k] ELSE a[k + 1]
      BY <2>2, <3>1, Removed
    <3> HIDE DEF b
    <3> QED BY <2>2, <3>2 DEF b
  <2> HIDE DEF b
  <2>4. ASSUME NEW k \in 1 .. c - 1 PROVE ns2[new[k]].value = b[k]
    <3>1. Old(k) \in 1 .. c /\ new[k] = order[Old(k)] /\ b[k] = a[Old(k)]
      BY <1>4, <2>3
    <3> HIDE DEF Old
    <3> QED BY <1>8, <2>1, <3>1
  <2>5. b = [k \in 1 .. c - 1 |-> b[k]]
    BY <2>3
  <2>6. ValuesOf(ns2, new) = [k \in 1 .. c - 1 |-> ns2[new[k]].value]
    BY <1>2 DEF ValuesOf
  <2> QED BY <2>4, <2>5, <2>6 DEF b, a
<1> QED BY <1>2, <1>11, <1>12

\* Without its first element a sequence is its tail.
LEMMA FirstRemoved ==
  ASSUME NEW S, NEW s \in Seq(S), s # <<>>
  PROVE  RemoveAt(s, 1) = Tail(s)
<1>1. Len(s) \in Nat /\ Len(s) # 0 /\ 1 \in 1 .. Len(s)
  OBVIOUS
<1>2. /\ RemoveAt(s, 1) \in Seq(S) /\ Len(RemoveAt(s, 1)) = Len(s) - 1
      /\ \A k \in 1 .. Len(s) - 1 : RemoveAt(s, 1)[k] = s[k + 1]
  <2>1. \A k \in 1 .. Len(s) - 1 : ~(k < 1)
    BY <1>1
  <2> QED BY <1>1, <2>1, Removed
<1> DEFINE r == RemoveAt(s, 1)
           tl == Tail(s)
<1>3. /\ tl \in Seq(S) /\ Len(tl) = Len(s) - 1
      /\ \A k \in 1 .. Len(s) - 1 : tl[k] = s[k + 1]
  BY <1>1
<1>4. r = [k \in 1 .. Len(s) - 1 |-> s[k + 1]]
  <2> HIDE DEF r
  <2> QED BY <1>2 DEF r
<1>5. tl = [k \in 1 .. Len(s) - 1 |-> s[k + 1]]
  <2> HIDE DEF tl
  <2> QED BY <1>3
<1> QED BY <1>4, <1>5

-----------------------------------------------------------------------------
\* While there is a list, some order links its nodes; NodeAt, by which
\* ListIsLinked and ListIsSequence speak of it, is not inductive.
ListInv ==
  /\ TypeOK
  /\ Ok => \E order \in Seq(Nodes) : Links(m_head, m_tail, nodes, order)
  /\ ~Ok => Allocated = {}

\* What an iteration finds.
LEMMA ListStateIs ==
  ASSUME LinkListAssumption, TypeOK, NEW order \in Seq(Nodes),
         Links(m_head, m_tail, nodes, order)
  PROVE  /\ Iterated = order
         /\ {NodeAt[k] : k \in Steps} = Allocated
         /\ Ok => Contents = ValuesOf(nodes, order)
<1>1. nodes \in [DOMAIN nodes -> Node] /\ m_head \in Nodes \cup {NULL}
      /\ DOMAIN nodes \subseteq Nodes
  BY DEF TypeOK, Allocated, Node
<1>2. IsWalk(m_head, nodes, Walk(m_head, nodes))
  BY <1>1, WalkWalks
<1>3. NodeAt = Walk(m_head, nodes)
  BY DEF NodeAt, Walk, Allocated
<1>4. Iterated = order /\ {NodeAt[k] : k \in Steps} = Allocated
  <2> DEFINE at == Walk(m_head, nodes)
             steps == StepsOf(nodes, at)
  <2>1. IteratedOf(nodes, at) = order /\ ReachedOf(nodes, at) = DOMAIN nodes
    <3>1. IsWalk(m_head, nodes, at)
      BY <1>2
    <3>2. DOMAIN nodes \subseteq Nodes
      BY <1>1
    <3> HIDE DEF at
    <3> QED BY <3>1, <3>2, IterationIsOrder
  <2>2. Steps = steps
    BY <1>3 DEF Steps, StepsOf, Allocated
  <2>3. Iterated = [k \in 1 .. Cardinality(Steps) |-> at[k - 1]]
    BY <1>3 DEF Iterated
  <2> HIDE DEF at, steps
  <2>4. {NodeAt[k] : k \in Steps} = {at[k] : k \in Steps}
    BY <1>3 DEF at
  <2>5. IteratedOf(nodes, at) = Iterated /\ ReachedOf(nodes, at) = {at[k] : k \in Steps}
    BY <2>2, <2>3 DEF IteratedOf, ReachedOf, steps
  <2> QED BY <2>1, <2>4, <2>5 DEF Allocated
<1> QED BY <1>4 DEF Contents, ValuesOf

\* The same after a step.
LEMMA ListNextIs ==
  ASSUME LinkListAssumption, TypeOK', NEW order \in Seq(Nodes), status' = "ok",
         Links(m_head', m_tail', nodes', order)
  PROVE  ListInv' /\ Contents' = ValuesOf(nodes', order)
<1>1. nodes' \in [DOMAIN nodes' -> Node] /\ m_head' \in Nodes \cup {NULL}
      /\ DOMAIN nodes' \subseteq Nodes
  BY DEF TypeOK, Allocated, Node
<1>2. IsWalk(m_head', nodes', Walk(m_head', nodes'))
  BY <1>1, WalkWalks
<1>3. NodeAt' = Walk(m_head', nodes')
  BY DEF NodeAt, Walk, Allocated
<1>4. Iterated' = order
  <2> DEFINE at == Walk(m_head', nodes')
             steps == StepsOf(nodes', at)
  <2>1. IteratedOf(nodes', at) = order /\ ReachedOf(nodes', at) = DOMAIN nodes'
    <3>1. IsWalk(m_head', nodes', at)
      BY <1>2
    <3>2. DOMAIN nodes' \subseteq Nodes
      BY <1>1
    <3> HIDE DEF at
    <3> QED BY <3>1, <3>2, IterationIsOrder
  <2>2. Steps' = steps
    BY <1>3 DEF Steps, StepsOf, Allocated
  <2>3. Iterated' = [k \in 1 .. Cardinality(Steps') |-> at[k - 1]]
    BY <1>3 DEF Iterated
  <2> HIDE DEF at, steps
  <2>4. IteratedOf(nodes', at) = Iterated'
    BY <2>2, <2>3 DEF IteratedOf, steps
  <2> QED BY <2>1, <2>4
<1>5. Ok'
  BY DEF Ok
<1> QED BY <1>4, <1>5 DEF Contents, ValuesOf, ListInv

\* An empty list is linked.
LEMMA ListEmptyIs ==
  ASSUME NEW ns, DOMAIN ns = {}
  PROVE  <<>> \in Seq(Nodes) /\ Links(NULL, NULL, ns, <<>>) /\ ValuesOf(ns, <<>>) = <<>>
<1> DEFINE none == <<>>
<1>1. none \in Seq(Nodes) /\ Len(none) = 0 /\ DOMAIN none = 1 .. 0
  OBVIOUS
<1> HIDE DEF none
<1>2. DOMAIN none = {}
  BY <1>1
<1>3. Links(NULL, NULL, ns, none)
  BY <1>2 DEF Links, Range, IsInjective, none
<1>4. ValuesOf(ns, none) = <<>>
  <2>1. ValuesOf(ns, none) = [k \in {} |-> ns[none[k]].value]
    BY <1>2 DEF ValuesOf
  <2> QED BY <2>1
<1> QED BY <1>1, <1>3, <1>4 DEF none

-----------------------------------------------------------------------------
LEMMA ListInitIs == LinkListAssumption /\ Init => ListInv /\ Abstract!Init
<1> SUFFICES ASSUME LinkListAssumption, Init PROVE ListInv /\ Abstract!Init
  OBVIOUS
<1>1. Allocated = {} /\ DOMAIN nodes = {} /\ Ok
  BY DEF Init, Allocated, Ok
<1>2. TypeOK
  BY <1>1 DEF Init, TypeOK, Allocated
<1>3. <<>> \in Seq(Nodes) /\ Links(m_head, m_tail, nodes, <<>>) /\ ValuesOf(nodes, <<>>) = <<>>
  BY <1>1, ListEmptyIs DEF Init
<1>4. Contents = <<>>
  BY <1>1, <1>2, <1>3, ListStateIs
<1> QED BY <1>1, <1>2, <1>3, <1>4 DEF ListInv, Init, Abstract!Init

LEMMA ListPushBackIs ==
  ASSUME LinkListAssumption, ListInv, NEW v \in Values, PushBack(v)
  PROVE  ListInv' /\ Abstract!PushBack(<<v>>)
<1>1. Ok /\ TypeOK
  BY DEF PushBack, ListInv
<1>2. PICK order \in Seq(Nodes) : Links(m_head, m_tail, nodes, order)
  BY <1>1 DEF ListInv
<1>3. PICK n \in Nodes \ DOMAIN nodes :
        /\ nodes' = InBack(m_tail, nodes, n, v)
        /\ m_head' = IF m_tail = NULL THEN n ELSE m_head
        /\ m_tail' = n
  BY DEF PushBack, Allocated, InBack
<1>4. nodes \in [DOMAIN nodes -> Node] /\ DOMAIN nodes \subseteq Nodes
      /\ m_head \in Nodes \cup {NULL} /\ m_tail \in Nodes \cup {NULL}
  BY <1>1 DEF TypeOK, Node, Allocated
<1>5. status' = "ok"
  BY <1>1 DEF PushBack, Ok
<1>6. TypeOK'
  <2>1. DOMAIN nodes' = DOMAIN nodes \cup {n}
    BY <1>3 DEF InBack
  <2>2. ASSUME NEW x \in DOMAIN nodes' PROVE nodes'[x] \in Node
    BY <1>3, <1>4, <2>1 DEF Node, InBack
  <2>3. nodes' = [x \in DOMAIN nodes' |-> nodes'[x]]
    BY <1>3 DEF InBack
  <2>4. nodes' \in [DOMAIN nodes' -> Node]
    BY <2>2, <2>3
  <2> QED BY <1>3, <1>4, <1>5, <2>1, <2>4 DEF TypeOK, Allocated, Node
<1>7. /\ Links(m_head', m_tail', nodes', Append(order, n))
      /\ ValuesOf(nodes', Append(order, n)) = ValuesOf(nodes, order) \o <<v>>
  BY <1>2, <1>3, <1>4, LinkedBack
<1>8. Append(order, n) \in Seq(Nodes)
  OBVIOUS
<1>9. ListInv' /\ Contents' = Contents \o <<v>>
  BY <1>1, <1>2, <1>5, <1>6, <1>7, <1>8, ListStateIs, ListNextIs
<1> QED BY <1>9 DEF PushBack, Abstract!PushBack

LEMMA ListPushFrontIs ==
  ASSUME LinkListAssumption, ListInv, NEW v \in Values, PushFront(v)
  PROVE  ListInv' /\ Abstract!PushFront(<<v>>)
<1>1. Ok /\ TypeOK
  BY DEF PushFront, ListInv
<1>2. PICK order \in Seq(Nodes) : Links(m_head, m_tail, nodes, order)
  BY <1>1 DEF ListInv
<1>3. PICK n \in Nodes \ DOMAIN nodes :
        /\ nodes' = InFront(m_head, nodes, n, v)
        /\ m_tail' = IF m_head = NULL THEN n ELSE m_tail
        /\ m_head' = n
  BY DEF PushFront, LinkedInFront, Allocated, InFront
<1>4. nodes \in [DOMAIN nodes -> Node] /\ DOMAIN nodes \subseteq Nodes
      /\ m_head \in Nodes \cup {NULL} /\ m_tail \in Nodes \cup {NULL}
  BY <1>1 DEF TypeOK, Node, Allocated
<1>5. status' = "ok"
  BY <1>1 DEF PushFront, Ok
<1>6. TypeOK'
  <2>1. DOMAIN nodes' = DOMAIN nodes \cup {n}
    BY <1>3 DEF InFront
  <2>2. ASSUME NEW x \in DOMAIN nodes' PROVE nodes'[x] \in Node
    BY <1>3, <1>4, <2>1 DEF Node, InFront
  <2>3. nodes' = [x \in DOMAIN nodes' |-> nodes'[x]]
    BY <1>3 DEF InFront
  <2>4. nodes' \in [DOMAIN nodes' -> Node]
    BY <2>2, <2>3
  <2> QED BY <1>3, <1>4, <1>5, <2>1, <2>4 DEF TypeOK, Allocated, Node
<1>7. \E order2 \in Seq(Nodes) :
        /\ Links(m_head', m_tail', nodes', order2)
        /\ ValuesOf(nodes', order2) = <<v>> \o ValuesOf(nodes, order)
  <2> DEFINE h == m_head
             t == m_tail
             h2 == m_head'
             t2 == m_tail'
             ns == nodes
             ns2 == nodes'
  <2>1. /\ Links(h, t, ns, order) /\ ns2 = InFront(h, ns, n, v) /\ ns \in [DOMAIN ns -> Node]
        /\ h2 = n /\ t2 = (IF h = NULL THEN n ELSE t) /\ n \in Nodes \ DOMAIN ns
    BY <1>2, <1>3, <1>4
  <2> HIDE DEF h, t, h2, t2, ns, ns2
  <2>2. \E order2 \in Seq(Nodes) :
          /\ Links(n, t2, ns2, order2)
          /\ ValuesOf(ns2, order2) = <<v>> \o ValuesOf(ns, order)
    BY <2>1, LinkedFront
  <2> QED BY <2>1, <2>2 DEF h, t, h2, t2, ns, ns2
<1>9. ListInv' /\ Contents' = <<v>> \o Contents
  BY <1>1, <1>2, <1>5, <1>6, <1>7, ListStateIs, ListNextIs
<1> QED BY <1>9 DEF PushFront, Abstract!PushFront

\* Whatever node is unlinked, the element it holds is gone from where it was.
LEMMA ListUnlinkedIs ==
  ASSUME LinkListAssumption, ListInv, Ok, NEW order \in Seq(Nodes), NEW p \in 1 .. Len(order),
         Links(m_head, m_tail, nodes, order), NEW g, g = order[p], status' = "ok",
         IsOut(g, m_head, m_tail, nodes, m_head', m_tail', nodes'),
         nodes' \in [DOMAIN nodes' -> Node]
  PROVE  ListInv' /\ p \in DOMAIN Contents /\ Contents' = RemoveAt(Contents, p)
<1>1. nodes \in [DOMAIN nodes -> Node] /\ DOMAIN nodes \subseteq Nodes
      /\ m_head \in Nodes \cup {NULL} /\ m_tail \in Nodes \cup {NULL}
  BY DEF ListInv, TypeOK, Node, Allocated
<1>2. Len(order) \in Nat /\ DOMAIN order = 1 .. Len(order) /\ g \in DOMAIN nodes
  BY DEF Links, Range
<1>3. TypeOK'
  <2>1. nodes[g] \in Node
    BY <1>1, <1>2
  <2>2. m_head' \in Nodes \cup {NULL} /\ m_tail' \in Nodes \cup {NULL}
    BY <1>1, <2>1 DEF Node, IsOut
  <2>3. DOMAIN nodes' \subseteq Nodes
    BY <1>1 DEF IsOut
  <2> QED BY <2>2, <2>3 DEF TypeOK, Allocated, Node
<1>4. \E order2 \in Seq(Nodes) :
        /\ Links(m_head', m_tail', nodes', order2)
        /\ ValuesOf(nodes', order2) = RemoveAt(ValuesOf(nodes, order), p)
  <2>1. IsOutAt(order, p, m_head, m_tail, nodes, m_head', m_tail', nodes')
    BY <1>1 DEF IsOutAt
  <2> QED BY <2>1, LinkedOut
<1>5. TypeOK
  BY DEF ListInv
<1>6. Contents = ValuesOf(nodes, order)
  BY <1>5, ListStateIs
<1>7. p \in DOMAIN Contents
  BY <1>2, <1>6 DEF ValuesOf
<1> QED BY <1>3, <1>4, <1>6, <1>7, ListNextIs

LEMMA ListEraseIs ==
  ASSUME LinkListAssumption, ListInv, NEW n \in Allocated, Erase(n)
  PROVE  ListInv' /\ \E k \in DOMAIN Contents : Abstract!Erase(k)
<1>1. Ok /\ TypeOK /\ status' = "ok"
  BY DEF Erase, ListInv, Ok
<1>2. PICK order \in Seq(Nodes) : Links(m_head, m_tail, nodes, order)
  BY <1>1 DEF ListInv
<1>3. DOMAIN order = 1 .. Len(order) /\ \A k, l \in 1 .. Len(order) : order[k] = order[l] => k = l
  BY <1>2 DEF Links, IsInjective
<1>4. PICK p \in 1 .. Len(order) : order[p] = n
  BY <1>2, <1>3 DEF Links, Range, Allocated
<1>5. Position(n) = p
  <2>1. Iterated = order
    BY <1>1, <1>2, ListStateIs
  <2> QED BY <1>3, <1>4, <2>1 DEF Position
<1>6. nodes' = [x \in DOMAIN nodes \ {n} |->
                  [nodes[x] EXCEPT !.next = IF x = nodes[n].prev THEN nodes[n].next ELSE @,
                                   !.prev = IF x = nodes[n].next THEN nodes[n].prev ELSE @]]
  BY DEF Erase, Unlinked, Allocated
<1>7. DOMAIN nodes' = DOMAIN nodes \ {n} /\ nodes' = [x \in DOMAIN nodes' |-> nodes'[x]]
  BY <1>6
<1>8. ASSUME NEW x \in DOMAIN nodes'
      PROVE  /\ nodes'[x] \in Node
             /\ nodes'[x].next = IF x = nodes[n].prev THEN nodes[n].next ELSE nodes[x].next
             /\ nodes'[x].prev = IF x = nodes[n].next THEN nodes[n].prev ELSE nodes[x].prev
             /\ nodes'[x].value = nodes[x].value
  <2>1. x \in DOMAIN nodes /\ nodes[x] \in Node /\ nodes[n] \in Node
    BY <1>1, <1>7 DEF TypeOK, Node, Allocated
  <2>2. nodes'[x] = [nodes[x] EXCEPT !.next = IF x = nodes[n].prev THEN nodes[n].next ELSE @,
                                     !.prev = IF x = nodes[n].next THEN nodes[n].prev ELSE @]
    BY <1>6, <1>7
  <2> QED BY <2>1, <2>2 DEF Node
<1>9. IsOut(n, m_head, m_tail, nodes, m_head', m_tail', nodes')
  <2>1. /\ m_head' = IF nodes[n].prev = NULL THEN nodes[n].next ELSE m_head
        /\ m_tail' = IF nodes[n].next = NULL THEN nodes[n].prev ELSE m_tail
    BY DEF Erase
  <2> QED BY <1>7, <1>8, <2>1 DEF IsOut
<1>10. nodes' \in [DOMAIN nodes' -> Node]
  BY <1>7, <1>8
<1>11. ListInv' /\ p \in DOMAIN Contents /\ Contents' = RemoveAt(Contents, p)
  BY <1>1, <1>2, <1>4, <1>9, <1>10, ListUnlinkedIs
<1>12. Contents' = Abstract!RemoveAt(Contents, p)
  BY <1>11 DEF RemoveAt, Abstract!RemoveAt
<1>13. call' = <<"erase", p>>
  BY <1>5 DEF Erase
<1> QED BY <1>11, <1>12, <1>13 DEF Abstract!Erase

LEMMA ListPopFrontIs ==
  ASSUME LinkListAssumption, ListInv, PopFront
  PROVE  ListInv' /\ Abstract!PopFront
<1>1. Ok /\ TypeOK /\ status' = "ok" /\ m_head # NULL
  BY DEF PopFront, ListInv, Ok
<1>2. PICK order \in Seq(Nodes) : Links(m_head, m_tail, nodes, order)
  BY <1>1 DEF ListInv
<1>3. Len(order) \in Nat /\ DOMAIN order = 1 .. Len(order) /\ order # <<>>
  BY <1>1, <1>2 DEF Links
<1>4. 1 \in 1 .. Len(order)
  BY <1>3
<1>5. m_head = order[1] /\ m_head \in DOMAIN nodes /\ nodes[m_head].prev = NULL
  <2>1. order[1] \in DOMAIN nodes
    BY <1>2, <1>3, <1>4 DEF Links, Range
  <2> QED BY <1>2, <1>3, <1>4, <2>1 DEF Links
<1>6. /\ nodes \in [DOMAIN nodes -> Node] /\ DOMAIN nodes \subseteq Nodes /\ NULL \notin Nodes
      /\ m_tail \in Nodes \cup {NULL}
  BY <1>1 DEF TypeOK, Node, Allocated, LinkListAssumption
<1> DEFINE next == nodes[m_head].next
<1>7. /\ nodes' = [x \in DOMAIN nodes \ {m_head} |->
                     IF x = next THEN [nodes[x] EXCEPT !.prev = NULL] ELSE nodes[x]]
      /\ m_head' = next
      /\ m_tail' = IF next = NULL THEN NULL ELSE m_tail
  BY DEF PopFront, Allocated
<1> HIDE DEF next
<1>8. DOMAIN nodes' = DOMAIN nodes \ {m_head} /\ nodes' = [x \in DOMAIN nodes' |-> nodes'[x]]
  BY <1>7
<1>9. ASSUME NEW x \in DOMAIN nodes'
      PROVE  /\ nodes'[x] \in Node
             /\ nodes'[x].next = IF x = nodes[m_head].prev THEN next ELSE nodes[x].next
             /\ nodes'[x].prev = IF x = next THEN nodes[m_head].prev ELSE nodes[x].prev
             /\ nodes'[x].value = nodes[x].value
  <2>1. x \in DOMAIN nodes /\ nodes[x] \in Node /\ x # NULL
    BY <1>6, <1>8
  <2>2. nodes'[x] = IF x = next THEN [nodes[x] EXCEPT !.prev = NULL] ELSE nodes[x]
    BY <1>7, <1>8
  <2> QED BY <1>5, <2>1, <2>2 DEF Node
<1>10. IsOut(m_head, m_head, m_tail, nodes, m_head', m_tail', nodes')
  BY <1>5, <1>7, <1>8, <1>9 DEF IsOut, next
<1>11. nodes' \in [DOMAIN nodes' -> Node]
  BY <1>8, <1>9
<1>12. ListInv' /\ 1 \in DOMAIN Contents /\ Contents' = RemoveAt(Contents, 1)
  BY <1>1, <1>2, <1>4, <1>5, <1>10, <1>11, ListUnlinkedIs
<1>13. Contents \in Seq(Values) /\ Contents # <<>>
  <2>1. Contents = ValuesOf(nodes, order)
    BY <1>1, <1>2, ListStateIs
  <2>2. \A k \in 1 .. Len(order) : nodes[order[k]].value \in Values
    <3>1. \A k \in 1 .. Len(order) : order[k] \in DOMAIN nodes
      BY <1>2, <1>3 DEF Links, Range
    <3> QED BY <1>6, <3>1 DEF Node
  <2>3. ValuesOf(nodes, order) = [k \in 1 .. Len(order) |-> nodes[order[k]].value]
    BY <1>3 DEF ValuesOf
  <2>4. ValuesOf(nodes, order) \in Seq(Values)
    BY <1>3, <2>2, <2>3
  <2> QED BY <1>12, <2>1, <2>4
<1>14. Contents' = Tail(Contents)
  BY <1>12, <1>13, FirstRemoved
<1>15. call' = <<"pop_front">>
  BY DEF PopFront
<1> QED BY <1>12, <1>13, <1>14, <1>15 DEF Abstract!PopFront

\* Its only element is popped from a list that has one.
LEMMA ListPopBackIs ==
  ASSUME LinkListAssumption, ~PopsLonger, ListInv, PopBack
  PROVE  ListInv' /\ Abstract!PopBack
<1>1. Ok /\ TypeOK /\ status' = "ok" /\ m_tail # NULL /\ m_head = m_tail
  BY DEF PopBack, ListInv, Ok
<1>2. PICK order \in Seq(Nodes) : Links(m_head, m_tail, nodes, order)
  BY <1>1 DEF ListInv
<1>3. /\ Len(order) \in Nat /\ DOMAIN order = 1 .. Len(order) /\ order # <<>>
      /\ m_head = order[1] /\ m_tail = order[Len(order)]
      /\ \A k, l \in 1 .. Len(order) : order[k] = order[l] => k = l
  <2>1. Len(order) \in Nat /\ DOMAIN order = 1 .. Len(order)
    OBVIOUS
  <2>2. order # <<>> /\ m_head = order[1] /\ m_tail = order[Len(order)]
    BY <1>1, <1>2 DEF Links
  <2>3. \A k, l \in 1 .. Len(order) : order[k] = order[l] => k = l
    BY <1>2, <2>1 DEF Links, IsInjective
  <2> QED BY <2>1, <2>2, <2>3
<1>4. Len(order) = 1
  <2>1. 1 \in 1 .. Len(order) /\ Len(order) \in 1 .. Len(order)
    BY <1>3
  <2> QED BY <1>1, <1>3, <2>1
<1>5. DOMAIN nodes = {m_tail} /\ nodes[m_tail].next = NULL
  <2>1. DOMAIN order = {1} /\ order[1] = m_tail
    BY <1>3, <1>4
  <2>2. Range(order) = {m_tail}
    BY <2>1 DEF Range
  <2>3. Range(order) = DOMAIN nodes
        /\ \A k \in DOMAIN order :
             nodes[order[k]].next = IF k = Len(order) THEN NULL ELSE order[k + 1]
    BY <1>2 DEF Links
  <2>4. nodes[order[1]].next = NULL
    BY <1>4, <2>1, <2>3
  <2> QED BY <2>1, <2>2, <2>3, <2>4
<1>6. DOMAIN nodes' = {} /\ m_head' = NULL /\ m_tail' = NULL
  BY <1>5 DEF PopBack, Without, Allocated
<1>7. nodes' = [x \in {} |-> nodes[x]]
  BY <1>5 DEF PopBack, Without, Allocated
<1>8. TypeOK'
  BY <1>1, <1>6, <1>7 DEF TypeOK, Allocated
<1>9. <<>> \in Seq(Nodes) /\ Links(NULL, NULL, nodes', <<>>) /\ ValuesOf(nodes', <<>>) = <<>>
  BY <1>6, ListEmptyIs
<1>10. ListInv' /\ Contents' = <<>>
  BY <1>1, <1>6, <1>8, <1>9, ListNextIs
<1>11. Contents # <<>> /\ Abstract!Front(Contents) = <<>>
  <2>1. Contents = [k \in 1 .. 1 |-> nodes[order[k]].value]
    BY <1>1, <1>2, <1>3, <1>4, ListStateIs DEF ValuesOf
  <2>2. Contents = <<nodes[order[1]].value>>
    BY <2>1
  <2> QED BY <2>2 DEF Abstract!Front
<1> QED BY <1>10, <1>11 DEF PopBack, Abstract!PopBack

\* All nodes are freed.
LEMMA ListClearIs ==
  ASSUME LinkListAssumption, ListInv, Clear \/ Deinit
  PROVE  ListInv' /\ Abstract!Clear
<1>1. Ok /\ TypeOK
  BY DEF Clear, Deinit, ListInv
<1>2. PICK order \in Seq(Nodes) : Links(m_head, m_tail, nodes, order)
  BY <1>1 DEF ListInv
<1>3. {NodeAt[k] : k \in Steps} = Allocated
  BY <1>1, <1>2, ListStateIs
<1>4. nodes' = [x \in {} |-> nodes[x]] /\ call' = <<"clear">>
  BY <1>3 DEF Clear, Deinit, FreeAll, Without
<1>5. Allocated' = {} /\ DOMAIN nodes' = {}
  BY <1>4 DEF Allocated
<1>6. CASE Clear
  <2>1. status' = "ok" /\ m_head' = NULL /\ m_tail' = NULL
    BY <1>1, <1>6 DEF Clear, Ok
  <2>2. TypeOK'
    BY <1>4, <1>5, <2>1 DEF TypeOK
  <2>3. <<>> \in Seq(Nodes) /\ Links(NULL, NULL, nodes', <<>>) /\ ValuesOf(nodes', <<>>) = <<>>
    BY <1>5, ListEmptyIs
  <2>4. ListInv' /\ Contents' = <<>>
    BY <2>1, <2>2, <2>3, ListNextIs
  <2> QED BY <1>4, <2>4 DEF Abstract!Clear
<1>7. CASE Deinit
  <2>1. status' = "freed" /\ m_head' = m_head /\ m_tail' = m_tail /\ ~Ok'
    BY <1>7 DEF Deinit, Ok
  <2>2. TypeOK'
    BY <1>1, <1>4, <1>5, <2>1 DEF TypeOK
  <2>3. Contents' = <<>>
    BY <2>1 DEF Contents
  <2> QED BY <1>4, <1>5, <2>1, <2>2, <2>3 DEF ListInv, Abstract!Clear
<1> QED BY <1>6, <1>7

LEMMA ListStayIs ==
  ASSUME ListInv, UNCHANGED <<m_head, m_tail, nodes, status>>
  PROVE  ListInv' /\ Contents' = Contents
<1>1. Allocated' = Allocated /\ Ok' = Ok /\ NodeAt' = NodeAt
  BY DEF Allocated, Ok, NodeAt
<1>2. Steps' = Steps
  BY <1>1 DEF Steps
<1>3. Iterated' = Iterated
  BY <1>1, <1>2 DEF Iterated
<1>4. Contents' = Contents
  BY <1>1, <1>3 DEF Contents
<1>5. TypeOK'
  BY <1>1 DEF TypeOK, ListInv
<1>6. Ok' => \E order \in Seq(Nodes) : Links(m_head', m_tail', nodes', order)
  BY <1>1 DEF ListInv
<1> QED BY <1>1, <1>4, <1>5, <1>6 DEF ListInv

LEMMA ListStepIs ==
  ASSUME LinkListAssumption, ~PopsLonger, ListInv, [Next]_vars
  PROVE  ListInv' /\ [Abstract!Next]_(Abstract!vars)
<1>1. ASSUME NEW v \in Values, PushBack(v)
      PROVE  ListInv' /\ Abstract!Next
  BY <1>1, ListPushBackIs DEF Abstract!Next
<1>2. ASSUME NEW v \in Values, PushFront(v)
      PROVE  ListInv' /\ Abstract!Next
  BY <1>2, ListPushFrontIs DEF Abstract!Next
<1>3. ASSUME NEW n \in Allocated, Erase(n)
      PROVE  ListInv' /\ Abstract!Next
  BY <1>3, ListEraseIs DEF Abstract!Next
<1>4. CASE PopFront
  BY <1>4, ListPopFrontIs DEF Abstract!Next
<1>5. CASE PopBack
  BY <1>5, ListPopBackIs DEF Abstract!Next
<1>6. CASE Clear \/ Deinit
  BY <1>6, ListClearIs DEF Abstract!Next
<1>7. CASE Refuse
  BY <1>7, ListStayIs DEF Refuse, Abstract!Next, Abstract!Refuse
<1>8. CASE UNCHANGED vars
  BY <1>8, ListStayIs DEF vars, Abstract!vars
<1> QED BY <1>1, <1>2, <1>3, <1>4, <1>5, <1>6, <1>7, <1>8 DEF Next

\* While nothing longer than one element is popped at the back, IInv holds.
LEMMA ListInductive == LinkListAssumption /\ ~PopsLonger /\ Spec => []ListInv
<1> SUFFICES ASSUME LinkListAssumption, ~PopsLonger PROVE Spec => []ListInv
  OBVIOUS
<1>1. Init => ListInv
  BY ListInitIs
<1>2. ListInv /\ [Next]_vars => ListInv'
  BY ListStepIs
<1> QED BY <1>1, <1>2, PTL DEF Spec

\* Every pointer of a list (woort_linklist.c) is NULL or points to a node of it.
THEOREM ListTyped == LinkListAssumption /\ ~PopsLonger /\ Spec => []TypeOK
<1>1. ListInv => TypeOK
  BY DEF ListInv
<1> QED BY <1>1, ListInductive, PTL

\* However nodes are pushed, popped in front, erased and used again, the list is
\* linked backwards as it is forwards, both ends are right, and no node is lost
\* (woort_linklist_push_back to woort_linklist_erase and woort_linklist_clear).
THEOREM AlwaysLinked == LinkListAssumption /\ ~PopsLonger /\ Spec => []ListIsLinked
<1>1. LinkListAssumption /\ ListInv => ListIsLinked
  <2> SUFFICES ASSUME LinkListAssumption, ListInv, Ok PROVE LinkedAs(Iterated)
    BY DEF ListIsLinked, ListInv
  <2>1. PICK order \in Seq(Nodes) : Links(m_head, m_tail, nodes, order)
    BY DEF ListInv
  <2>2. Iterated = order
    BY <2>1, ListStateIs DEF ListInv
  <2>3. Links(m_head, m_tail, nodes, Iterated)
    BY <2>1, <2>2
  <2> QED BY <2>3 DEF Links, LinkedAs, Allocated
<1>2. CASE LinkListAssumption
  <2>1. ListInv => ListIsLinked
    BY <1>1, <1>2
  <2> QED BY <2>1, ListInductive, PTL
<1>3. CASE ~LinkListAssumption
  BY <1>3
<1> QED BY <1>2, <1>3

\* The list implements the sequence its calls make: every call of
\* woort_linklist.c changes what an iteration finds as that call promises.
THEOREM ListImplements == LinkListAssumption /\ ~PopsLonger /\ Spec => ListIsSequence
<1> SUFFICES ASSUME LinkListAssumption, ~PopsLonger PROVE Spec => ListIsSequence
  OBVIOUS
<1>1. Init => Abstract!Init
  BY ListInitIs
<1>2. ListInv /\ [Next]_vars => [Abstract!Next]_(Abstract!vars)
  BY ListStepIs
<1>3. Spec => []ListInv
  BY ListInductive
<1> QED BY <1>1, <1>2, <1>3, PTL DEF Spec, ListIsSequence, Abstract!Spec

-----------------------------------------------------------------------------
(* The vector. *)

Cell == Values \cup {Junk}

\* Contents of a vector given by its block and its size.
ContentsOf(data, size) == [k \in 1 .. size |-> data[k]]

\* m_capacity is the size of the block, or, once a reallocation has failed,
\* more than that.
VectorInv ==
  /\ V!TypeOK
  /\ vec_status # "freed" => vec_size <= Len(vec_data) /\ Len(vec_data) <= vec_capacity
  /\ vec_status # "freed" /\ ~vec_failed => Len(vec_data) = vec_capacity
  /\ vec_status = "wild" => vec_failed

\* reserve doubles up to a capacity that holds what is asked for.
LEMMA CapacityHolds ==
  ASSUME V!VectorAssumption, NEW n \in Nat, ~(n <= vec_capacity), V!Holding(n) # {}
  PROVE  V!CapacityFor(n) \in Capacities /\ n <= V!CapacityFor(n)
<1>1. V!Holding(n) \in SUBSET Nat
  BY DEF V!Holding, V!VectorAssumption
<1>2. PICK m \in V!Holding(n) : \A d \in V!Holding(n) : m <= d
  BY <1>1, HP!Least
<1>3. (CHOOSE c \in V!Holding(n) : \A d \in V!Holding(n) : c <= d) \in V!Holding(n)
  BY <1>2
<1> QED BY <1>3 DEF V!CapacityFor, V!Holding

LEMMA ContentsIs ==
  ASSUME NEW data \in Seq(Cell), NEW size \in Nat, size <= Len(data)
  PROVE  /\ ContentsOf(data, size) \in Seq(Cell)
         /\ Len(ContentsOf(data, size)) = size
         /\ \A k \in 1 .. size : ContentsOf(data, size)[k] = data[k]
<1>1. \A k \in 1 .. size : data[k] \in Cell
  OBVIOUS
<1> QED BY <1>1 DEF ContentsOf

LEMMA StateContents ==
  /\ V!TypeOK /\ vec_status # "freed" => V!Contents = ContentsOf(vec_data, vec_size)
  /\ (V!TypeOK /\ vec_status # "freed" => V!Contents = ContentsOf(vec_data, vec_size))'
<1>1. ASSUME NEW d, NEW size \in Nat
      PROVE  [k \in 1 .. size |-> d[(k - 1) + 1]] = ContentsOf(d, size)
  <2>1. \A k \in 1 .. size : (k - 1) + 1 = k
    OBVIOUS
  <2> QED BY <2>1 DEF ContentsOf
<1> QED BY <1>1 DEF V!Contents, V!At, V!TypeOK

\* The block that reserve leaves holds what was asked for, unless a reallocation
\* has failed, and all it held before.
LEMMA BlockIs ==
  ASSUME V!VectorAssumption, VectorInv, NEW n \in Nat, V!Reserve(n)
  PROVE  /\ V!BlockFor(n) \in Seq(Cell)
         /\ Len(vec_data) <= Len(V!BlockFor(n))
         /\ Len(V!BlockFor(n)) <= V!CapacityFor(n)
         /\ n > vec_capacity \/ ~vec_failed => Len(V!BlockFor(n)) = V!CapacityFor(n)
         /\ n <= V!CapacityFor(n)
         /\ \A k \in 1 .. Len(vec_data) : V!BlockFor(n)[k] = vec_data[k]
         /\ V!CapacityFor(n) \in Capacities \cup {0}
<1>1. /\ V!Ok /\ vec_data \in Seq(Cell) /\ vec_capacity \in Nat /\ vec_capacity \in Capacities \cup {0}
      /\ Len(vec_data) \in Nat /\ Len(vec_data) <= vec_capacity
      /\ (~vec_failed => Len(vec_data) = vec_capacity)
  BY DEF V!Reserve, V!Ok, VectorInv, V!TypeOK, Cell, V!VectorAssumption
<1>2. CASE n <= vec_capacity
  BY <1>1, <1>2 DEF V!BlockFor, V!CapacityFor
<1>3. CASE ~(n <= vec_capacity)
  <2> DEFINE c == V!CapacityFor(n)
  <2>1. c \in Capacities /\ n <= c /\ c \in Nat
    <3>1. V!Holding(n) # {}
      BY <1>3 DEF V!Reserve
    <3> QED BY <1>3, <3>1, CapacityHolds DEF V!VectorAssumption
  <2> HIDE DEF c
  <2>2. V!BlockFor(n) = [k \in 1 .. c |-> IF k \in DOMAIN vec_data THEN vec_data[k] ELSE Junk]
    BY <1>3 DEF V!BlockFor, c
  <2>3. Len(vec_data) <= c
    BY <1>1, <1>3, <2>1
  <2>4. \A k \in 1 .. c : (IF k \in DOMAIN vec_data THEN vec_data[k] ELSE Junk) \in Cell
    BY <1>1 DEF Cell
  <2>5. V!BlockFor(n) \in Seq(Cell) /\ Len(V!BlockFor(n)) = c
    BY <2>1, <2>2, <2>4
  <2>6. \A k \in 1 .. Len(vec_data) : k \in 1 .. c /\ k \in DOMAIN vec_data
    BY <1>1, <2>1, <2>3
  <2>7. \A k \in 1 .. Len(vec_data) : V!BlockFor(n)[k] = vec_data[k]
    BY <2>2, <2>6
  <2> QED BY <2>1, <2>3, <2>5, <2>7 DEF c
<1> QED BY <1>2, <1>3

LEMMA CoveringIs ==
  ASSUME NEW b \in Seq(Cell), NEW end \in Nat
  PROVE  /\ V!Covering(b, end) \in Seq(Cell)
         /\ Len(V!Covering(b, end)) = IF end <= Len(b) THEN Len(b) ELSE end
         /\ \A k \in 1 .. Len(b) : V!Covering(b, end)[k] = b[k]
<1> DEFINE m == IF end <= Len(b) THEN Len(b) ELSE end
<1>1. Len(b) \in Nat /\ DOMAIN b = 1 .. Len(b) /\ m \in Nat /\ Len(b) <= m
      /\ \A k \in 1 .. Len(b) : b[k] \in Cell /\ k \in 1 .. m
  OBVIOUS
<1> HIDE DEF m
<1>2. \A k \in 1 .. m : (IF k \in DOMAIN b THEN b[k] ELSE Junk) \in Cell
  BY <1>1 DEF Cell
<1>3. V!Covering(b, end) = [k \in 1 .. m |-> IF k \in DOMAIN b THEN b[k] ELSE Junk]
  BY DEF V!Covering, m
<1>4. V!Covering(b, end) \in Seq(Cell) /\ Len(V!Covering(b, end)) = m
  BY <1>1, <1>2, <1>3
<1>5. \A k \in 1 .. Len(b) : V!Covering(b, end)[k] = b[k]
  BY <1>1, <1>3
<1> QED BY <1>4, <1>5 DEF m

\* What push_back and resize have to write to: all that they asked for, the old
\* elements first; it goes outside the block only after a failure.
LEMMA RoomIs ==
  ASSUME V!VectorAssumption, VectorInv, NEW n \in Nat, V!Reserve(n), V!Ok
  PROVE  /\ V!Covering(V!BlockFor(n), n) \in Seq(Cell)
         /\ Len(vec_data) <= Len(V!Covering(V!BlockFor(n), n))
         /\ n <= Len(V!Covering(V!BlockFor(n), n))
         /\ Len(V!Covering(V!BlockFor(n), n)) <= V!CapacityFor(n)
         /\ n > vec_capacity \/ ~vec_failed
              => Len(V!Covering(V!BlockFor(n), n)) = V!CapacityFor(n)
         /\ \A k \in 1 .. Len(vec_data) : V!Covering(V!BlockFor(n), n)[k] = vec_data[k]
         /\ V!CapacityFor(n) \in Capacities \cup {0}
         /\ V!StatusAfter(V!BlockFor(n), n) \in {"ok", "wild"}
         /\ V!StatusAfter(V!BlockFor(n), n) = "wild" => vec_failed /\ n <= vec_capacity
<1> DEFINE b == V!BlockFor(n)
           c == V!Covering(b, n)
           m == V!CapacityFor(n)
<1>1. /\ b \in Seq(Cell) /\ Len(vec_data) <= Len(b) /\ Len(b) <= m
      /\ n > vec_capacity \/ ~vec_failed => Len(b) = m
      /\ n <= m /\ m \in Capacities \cup {0}
      /\ \A k \in 1 .. Len(vec_data) : b[k] = vec_data[k]
  BY BlockIs
<1>2. vec_capacity \in Nat /\ vec_data \in Seq(Cell) /\ vec_status = "ok"
      /\ vec_failed \in BOOLEAN
  <2>1. V!TypeOK
    BY DEF VectorInv
  <2> QED BY <2>1 DEF V!TypeOK, V!VectorAssumption, V!Ok, Cell
<1> HIDE DEF b, m
<1>3. m \in Nat
  <2>1. m \in Capacities \/ m = 0
    BY <1>1
  <2>2. Capacities \subseteq Nat /\ 0 \in Nat
    BY DEF V!VectorAssumption
  <2> QED BY <2>1, <2>2, Zenon
<1>4. /\ c \in Seq(Cell) /\ Len(c) = IF n <= Len(b) THEN Len(b) ELSE n
      /\ \A k \in 1 .. Len(b) : c[k] = b[k]
  BY <1>1, CoveringIs
<1> HIDE DEF c
<1>5. Len(b) \in Nat /\ Len(vec_data) \in Nat
  BY <1>1, <1>2
<1>6. Len(vec_data) <= Len(c) /\ n <= Len(c) /\ Len(c) <= m
      /\ (Len(b) = m => Len(c) = m)
  BY <1>1, <1>3, <1>4, <1>5
<1>7. \A k \in 1 .. Len(vec_data) : c[k] = vec_data[k]
  <2>1. \A k \in 1 .. Len(vec_data) : k \in 1 .. Len(b)
    BY <1>1, <1>5
  <2> QED BY <1>1, <1>4, <2>1
<1>8. ~(n <= Len(b)) => vec_failed /\ n <= vec_capacity
  <2>1. ~(n <= Len(b)) => Len(b) # m
    BY <1>1
  <2>2. Len(b) # m => ~(n > vec_capacity) /\ vec_failed
    BY <1>1, <1>2
  <2>3. ~(n > vec_capacity) => n <= vec_capacity
    BY <1>2
  <2> QED BY <2>1, <2>2, <2>3
<1>9. /\ V!StatusAfter(b, n) \in {"ok", "wild"}
      /\ V!StatusAfter(b, n) = "wild" => vec_failed /\ n <= vec_capacity
  BY <1>2, <1>8 DEF V!StatusAfter
<1> QED BY <1>1, <1>4, <1>6, <1>7, <1>9 DEF b, c, m

-----------------------------------------------------------------------------
\* What a step has to leave.
VectorSound ==
  /\ vec_data \in Seq(Cell) /\ vec_size \in Nat /\ vec_size <= Len(vec_data)
  /\ Len(vec_data) <= vec_capacity /\ vec_capacity \in Capacities \cup {0}
  /\ vec_failed \in BOOLEAN /\ (~vec_failed => Len(vec_data) = vec_capacity)
  /\ vec_status \in {"ok", "wild"} /\ (vec_status = "wild" => vec_failed)

LEMMA VectorNextIs ==
  ASSUME VectorSound'
  PROVE  VectorInv' /\ V!Contents' = ContentsOf(vec_data', vec_size')
<1>1. V!TypeOK' /\ vec_status' # "freed"
  BY DEF V!TypeOK, Cell, VectorSound
<1>2. VectorInv'
  BY <1>1 DEF VectorInv, VectorSound
<1> QED BY <1>1, <1>2, StateContents

\* What every action but deinit can count on.
LEMMA VectorStateIs ==
  ASSUME V!VectorAssumption, VectorInv, V!Ok
  PROVE  /\ vec_status = "ok" /\ vec_data \in Seq(Cell) /\ vec_size \in Nat /\ Len(vec_data) \in Nat
         /\ vec_size <= Len(vec_data) /\ Len(vec_data) <= vec_capacity
         /\ vec_capacity \in Capacities \cup {0} /\ vec_capacity \in Nat
         /\ vec_failed \in BOOLEAN /\ (~vec_failed => Len(vec_data) = vec_capacity)
         /\ V!Contents = ContentsOf(vec_data, vec_size)
         /\ V!Contents \in Seq(Cell) /\ Len(V!Contents) = vec_size /\ DOMAIN V!Contents = 1 .. vec_size
         /\ \A k \in 1 .. vec_size : V!Contents[k] = vec_data[k]
<1>1. vec_status = "ok" /\ V!TypeOK
  BY DEF V!Ok, VectorInv
<1>2. /\ vec_data \in Seq(Cell) /\ vec_size \in Nat /\ Len(vec_data) \in Nat
      /\ vec_size <= Len(vec_data) /\ Len(vec_data) <= vec_capacity
      /\ vec_capacity \in Capacities \cup {0} /\ vec_capacity \in Nat
      /\ vec_failed \in BOOLEAN /\ (~vec_failed => Len(vec_data) = vec_capacity)
  BY <1>1 DEF VectorInv, V!TypeOK, Cell, V!VectorAssumption
<1>3. V!Contents = ContentsOf(vec_data, vec_size)
  BY <1>1, StateContents
<1>4. /\ ContentsOf(vec_data, vec_size) \in Seq(Cell)
      /\ Len(ContentsOf(vec_data, vec_size)) = vec_size
      /\ \A k \in 1 .. vec_size : ContentsOf(vec_data, vec_size)[k] = vec_data[k]
  BY <1>2, ContentsIs
<1>5. DOMAIN V!Contents = 1 .. vec_size
  BY <1>3 DEF ContentsOf
<1> QED BY <1>1, <1>2, <1>3, <1>4, <1>5

LEMMA VectorInitIs == V!VectorAssumption /\ V!Init => VectorInv /\ V!Abstract!Init
<1> SUFFICES ASSUME V!VectorAssumption, V!Init PROVE VectorInv /\ V!Abstract!Init
  OBVIOUS
<1>1. vec_data = <<>> /\ vec_size = 0 /\ vec_capacity = 0 /\ vec_failed = FALSE /\ vec_status = "ok"
      /\ vec_call = <<"init">>
  BY DEF V!Init
<1>2. vec_data \in Seq(Cell) /\ Len(vec_data) = 0
  BY <1>1
<1>3. VectorInv
  <2>1. V!TypeOK
    BY <1>1, <1>2 DEF V!TypeOK, Cell
  <2> QED BY <1>1, <1>2, <2>1 DEF VectorInv
<1>4. V!Contents = <<>>
  <2>1. V!Contents \in Seq(Cell) /\ Len(V!Contents) = 0
    BY <1>1, <1>3, VectorStateIs DEF V!Ok
  <2> QED BY <2>1
<1> QED BY <1>1, <1>3, <1>4 DEF V!Abstract!Init

LEMMA VectorPushBackIs ==
  ASSUME V!VectorAssumption, VectorInv, NEW s \in Chunks, V!PushBack(s)
  PROVE  VectorInv' /\ V!Abstract!PushBack(s)
<1> DEFINE n == vec_size + Len(s)
           b == V!Covering(V!BlockFor(n), n)
           d == [k \in DOMAIN b |-> IF k \in vec_size + 1 .. n THEN s[k - vec_size] ELSE b[k]]
<1>1. V!Ok /\ V!Reserve(n) /\ V!NeededFor(s) = n
  BY DEF V!PushBack, V!Reserve, V!NeededFor
<1>2. s \in Seq(Cell) /\ Len(s) \in Nat /\ \A k \in 1 .. Len(s) : s[k] \in Cell
  <2>1. s \in Seq(Values)
    BY DEF V!VectorAssumption
  <2> QED BY <2>1 DEF Cell
<1>3. n \in Nat /\ vec_size <= n
  BY <1>1, <1>2, VectorStateIs
<1>4. /\ vec_data' = d /\ vec_size' = n
      /\ vec_capacity' = V!CapacityFor(n) /\ vec_failed' = (vec_failed /\ n <= vec_capacity)
      /\ vec_call' = <<"push_back", s>> /\ vec_status' = V!StatusAfter(V!BlockFor(n), n)
  BY <1>1 DEF V!PushBack, V!Reserve
<1> HIDE DEF n
<1>5. /\ b \in Seq(Cell) /\ Len(vec_data) <= Len(b) /\ Len(b) <= V!CapacityFor(n)
      /\ n <= Len(b)
      /\ (n > vec_capacity \/ ~vec_failed => Len(b) = V!CapacityFor(n))
      /\ \A k \in 1 .. Len(vec_data) : b[k] = vec_data[k]
      /\ V!CapacityFor(n) \in Capacities \cup {0}
      /\ vec_status' \in {"ok", "wild"} /\ (vec_status' = "wild" => vec_failed /\ n <= vec_capacity)
  BY <1>1, <1>3, <1>4, RoomIs
<1> HIDE DEF b
<1>6. Len(b) \in Nat /\ DOMAIN b = 1 .. Len(b) /\ \A k \in 1 .. Len(b) : b[k] \in Cell
  BY <1>5
<1>7. \A k \in vec_size + 1 .. n : k - vec_size \in 1 .. Len(s)
  BY <1>1, <1>2, VectorStateIs DEF n
<1>8. d \in Seq(Cell) /\ Len(d) = Len(b)
  <2>1. \A k \in 1 .. Len(b) : d[k] \in Cell
    BY <1>2, <1>6, <1>7
  <2>2. d = [k \in 1 .. Len(b) |-> d[k]]
    BY <1>6
  <2> HIDE DEF d
  <2> QED BY <1>6, <2>1, <2>2
<1>9. /\ \A k \in 1 .. vec_size : d[k] = vec_data[k]
      /\ \A k \in vec_size + 1 .. n : d[k] = s[k - vec_size]
  <2>1. \A k \in 1 .. vec_size : k \in DOMAIN b /\ k \notin vec_size + 1 .. n /\ k \in 1 .. Len(vec_data)
    BY <1>1, <1>3, <1>5, <1>6, VectorStateIs
  <2>2. \A k \in vec_size + 1 .. n : k \in DOMAIN b
    BY <1>1, <1>3, <1>5, <1>6, VectorStateIs
  <2> QED BY <1>5, <2>1, <2>2
<1> HIDE DEF d
<1>10. VectorInv' /\ V!Contents' = ContentsOf(d, n)
  <2>1. /\ vec_status' \in {"ok", "wild"} /\ vec_failed' \in BOOLEAN
        /\ vec_status' = "wild" => vec_failed'
    BY <1>1, <1>4, <1>5, VectorStateIs
  <2>2. ~vec_failed' => Len(d) = V!CapacityFor(n)
    <3>1. vec_capacity \in Nat /\ vec_failed \in BOOLEAN
      BY <1>1, VectorStateIs
    <3>2. n > vec_capacity \/ n <= vec_capacity
      BY <1>3, <3>1
    <3> QED BY <1>4, <1>5, <1>8, <3>1, <3>2
  <2>3. /\ vec_data' \in Seq(Cell) /\ vec_size' \in Nat /\ vec_size' <= Len(vec_data')
        /\ Len(vec_data') <= vec_capacity' /\ vec_capacity' \in Capacities \cup {0}
        /\ (~vec_failed' => Len(vec_data') = vec_capacity')
    BY <1>3, <1>4, <1>5, <1>8, <2>2
  <2>4. VectorInv' /\ V!Contents' = ContentsOf(vec_data', vec_size')
    <3>1. VectorSound'
      BY <2>1, <2>3 DEF VectorSound
    <3> QED BY <3>1, VectorNextIs
  <2> QED BY <1>4, <2>4
<1>11. ContentsOf(d, n) = V!Contents \o s
  <2>1. /\ ContentsOf(d, n) \in Seq(Cell) /\ Len(ContentsOf(d, n)) = n
        /\ \A k \in 1 .. n : ContentsOf(d, n)[k] = d[k]
    BY <1>3, <1>5, <1>8, ContentsIs
  <2>2. /\ V!Contents \o s \in Seq(Cell) /\ Len(V!Contents \o s) = vec_size + Len(s)
        /\ \A k \in 1 .. vec_size + Len(s) :
             (V!Contents \o s)[k] = IF k <= vec_size THEN V!Contents[k] ELSE s[k - vec_size]
    <3>1. V!Contents \in Seq(Cell) /\ Len(V!Contents) = vec_size
      BY <1>1, VectorStateIs
    <3> QED BY <1>2, <3>1, ConcatProperties
  <2>3. ASSUME NEW k \in 1 .. n PROVE ContentsOf(d, n)[k] = (V!Contents \o s)[k]
    <3>1. vec_size \in Nat
      BY <1>1, VectorStateIs
    <3>2. CASE k <= vec_size
      <4>1. k \in 1 .. vec_size
        BY <3>1, <3>2
      <4>2. V!Contents[k] = vec_data[k]
        BY <1>1, <4>1, VectorStateIs
      <4> QED BY <1>9, <2>1, <2>2, <3>2, <4>1, <4>2 DEF n
    <3>3. CASE ~(k <= vec_size)
      <4>1. k \in vec_size + 1 .. n
        BY <1>3, <3>1, <3>3
      <4> QED BY <1>9, <2>1, <2>2, <3>3, <4>1 DEF n
    <3> QED BY <3>2, <3>3
  <2>4. Len(V!Contents \o s) = n
    BY <2>2 DEF n
  <2> QED BY <2>1, <2>2, <2>3, <2>4, SameElements
<1> QED BY <1>4, <1>10, <1>11 DEF V!Abstract!PushBack

LEMMA VectorResizeIs ==
  ASSUME V!VectorAssumption, VectorInv, NEW n \in Sizes, V!Resize(n)
  PROVE  VectorInv' /\ V!Abstract!Resize(n)
<1> DEFINE b == V!Covering(V!BlockFor(n), n)
<1>1. V!Ok /\ V!Reserve(n) /\ n \in Nat
  BY DEF V!Resize, V!Reserve, V!VectorAssumption
<1>2. /\ vec_data' = b /\ vec_size' = n
      /\ vec_capacity' = V!CapacityFor(n) /\ vec_failed' = (vec_failed /\ n <= vec_capacity)
      /\ vec_call' = <<"resize", n>> /\ vec_status' = V!StatusAfter(V!BlockFor(n), n)
  BY <1>1 DEF V!Resize, V!Reserve
<1>3. /\ b \in Seq(Cell) /\ Len(vec_data) <= Len(b) /\ Len(b) <= V!CapacityFor(n)
      /\ n <= Len(b)
      /\ (n > vec_capacity \/ ~vec_failed => Len(b) = V!CapacityFor(n))
      /\ \A k \in 1 .. Len(vec_data) : b[k] = vec_data[k]
      /\ V!CapacityFor(n) \in Capacities \cup {0}
      /\ vec_status' \in {"ok", "wild"} /\ (vec_status' = "wild" => vec_failed /\ n <= vec_capacity)
  BY <1>1, <1>2, RoomIs
<1> HIDE DEF b
<1>4. VectorSound'
  <2>1. vec_capacity \in Nat /\ vec_failed \in BOOLEAN /\ vec_status = "ok"
    BY <1>1, VectorStateIs
  <2>2. n > vec_capacity \/ n <= vec_capacity
    BY <1>1, <2>1
  <2>3. ~vec_failed' => Len(b) = V!CapacityFor(n)
    BY <1>2, <1>3, <2>1, <2>2
  <2> QED BY <1>1, <1>2, <1>3, <2>1, <2>3 DEF VectorSound
<1>5. VectorInv' /\ V!Contents' = ContentsOf(b, n)
  BY <1>2, <1>4, VectorNextIs
<1>6. /\ ContentsOf(b, n) = [k \in 1 .. n |-> b[k]]
      /\ \A k \in 1 .. n : b[k] \in Cell
  BY <1>1, <1>3 DEF ContentsOf
<1>7. V!Contents' \in [1 .. n -> Cell] /\ DOMAIN V!Contents' = 1 .. n
  BY <1>5, <1>6
<1>8. ASSUME NEW k \in DOMAIN V!Contents \cap DOMAIN V!Contents'
      PROVE  V!Contents'[k] = V!Contents[k]
  <2>1. k \in 1 .. n /\ k \in 1 .. vec_size /\ V!Contents[k] = vec_data[k] /\ k \in 1 .. Len(vec_data)
    BY <1>1, <1>7, VectorStateIs
  <2> QED BY <1>3, <1>5, <1>6, <2>1
<1> QED BY <1>2, <1>5, <1>7, <1>8 DEF V!Abstract!Resize, Cell

LEMMA VectorEraseIs ==
  ASSUME V!VectorAssumption, VectorInv, NEW k \in 0 .. vec_size - 1, V!EraseAt(k)
  PROVE  VectorInv' /\ k + 1 \in DOMAIN V!Contents /\ V!Abstract!Erase(k + 1)
<1> DEFINE d == V!Erased(k)
           c == Len(vec_data)
<1>1. V!Ok
  BY DEF V!EraseAt
<1>2. /\ vec_data \in Seq(Cell) /\ vec_size \in Nat /\ c \in Nat /\ vec_size <= c
      /\ DOMAIN vec_data = 1 .. c /\ \A i \in 1 .. c : vec_data[i] \in Cell
      /\ k \in Nat /\ k < vec_size /\ k + 1 \in 1 .. vec_size
  BY <1>1, VectorStateIs
<1>3. /\ vec_data' = d /\ vec_size' = vec_size - 1 /\ vec_call' = <<"erase", k + 1>>
      /\ vec_capacity' = vec_capacity /\ vec_failed' = vec_failed /\ vec_status' = vec_status
  BY DEF V!EraseAt
<1>4. /\ d \in Seq(Cell) /\ Len(d) = c
      /\ \A i \in 1 .. vec_size - 1 : d[i] = IF i < k + 1 THEN vec_data[i] ELSE vec_data[i + 1]
  <2>1. d = [i \in 1 .. c |-> IF i \in k + 1 .. vec_size - 1 THEN vec_data[i + 1] ELSE vec_data[i]]
    BY <1>2 DEF V!Erased
  <2>2. \A i \in k + 1 .. vec_size - 1 : i + 1 \in 1 .. c
    BY <1>2
  <2>3. \A i \in 1 .. c :
          (IF i \in k + 1 .. vec_size - 1 THEN vec_data[i + 1] ELSE vec_data[i]) \in Cell
    BY <1>2, <2>2
  <2>4. \A i \in 1 .. vec_size - 1 : i \in 1 .. c /\ (i \in k + 1 .. vec_size - 1 <=> ~(i < k + 1))
    BY <1>2
  <2> HIDE DEF c, d
  <2> QED BY <1>2, <2>1, <2>3, <2>4
<1> HIDE DEF d, c
<1>5. vec_size - 1 \in Nat /\ vec_size - 1 <= c
  BY <1>2
<1>6. VectorSound'
  <2>1. /\ vec_failed \in BOOLEAN /\ vec_status = "ok" /\ c <= vec_capacity
        /\ vec_capacity \in Capacities \cup {0} /\ (~vec_failed => c = vec_capacity)
    BY <1>1, VectorStateIs DEF c
  <2> QED BY <1>3, <1>4, <1>5, <2>1 DEF VectorSound
<1>7. VectorInv' /\ V!Contents' = ContentsOf(d, vec_size - 1)
  BY <1>3, <1>6, VectorNextIs
<1>8. /\ ContentsOf(d, vec_size - 1) \in Seq(Cell) /\ Len(ContentsOf(d, vec_size - 1)) = vec_size - 1
      /\ \A i \in 1 .. vec_size - 1 : ContentsOf(d, vec_size - 1)[i] = d[i]
  BY <1>4, <1>5, ContentsIs
<1>9. /\ RemoveAt(V!Contents, k + 1) \in Seq(Cell)
      /\ Len(RemoveAt(V!Contents, k + 1)) = vec_size - 1
      /\ \A i \in 1 .. vec_size - 1 :
           RemoveAt(V!Contents, k + 1)[i] = IF i < k + 1 THEN V!Contents[i] ELSE V!Contents[i + 1]
  <2>1. V!Contents \in Seq(Cell) /\ Len(V!Contents) = vec_size /\ k + 1 \in 1 .. Len(V!Contents)
    BY <1>1, <1>2, VectorStateIs
  <2> QED BY <2>1, Removed
<1>10. ASSUME NEW i \in 1 .. vec_size - 1
       PROVE  ContentsOf(d, vec_size - 1)[i] = RemoveAt(V!Contents, k + 1)[i]
  <2>1. i \in 1 .. vec_size /\ i + 1 \in 1 .. vec_size
    BY <1>2
  <2>2. V!Contents[i] = vec_data[i] /\ V!Contents[i + 1] = vec_data[i + 1]
    BY <1>1, <2>1, VectorStateIs
  <2> QED BY <1>4, <1>8, <1>9, <2>2
<1>11. V!Contents' = RemoveAt(V!Contents, k + 1)
  <2> DEFINE r == RemoveAt(V!Contents, k + 1)
             e == ContentsOf(d, vec_size - 1)
  <2>1. r \in Seq(Cell) /\ e \in Seq(Cell) /\ Len(r) = Len(e) /\ Len(e) = vec_size - 1
        /\ \A i \in 1 .. vec_size - 1 : e[i] = r[i]
    BY <1>8, <1>9, <1>10
  <2> HIDE DEF r, e
  <2>2. e = r
    BY <2>1, SameElements
  <2> QED BY <1>7, <2>2 DEF r, e
<1>12. V!Contents' = V!Abstract!RemoveAt(V!Contents, k + 1)
  BY <1>11 DEF RemoveAt, V!Abstract!RemoveAt
<1>13. k + 1 \in DOMAIN V!Contents
  BY <1>1, <1>2, VectorStateIs
<1> QED BY <1>3, <1>7, <1>12, <1>13 DEF V!Abstract!Erase

LEMMA VectorEmptyIs ==
  ASSUME V!VectorAssumption, VectorInv, V!Clear \/ V!MoveOut \/ V!Deinit
  PROVE  VectorInv' /\ (V!Abstract!Clear \/ V!Abstract!MoveOut)
<1>1. V!Ok
  BY DEF V!Clear, V!MoveOut, V!Deinit
<1>2. /\ vec_status = "ok" /\ vec_data \in Seq(Cell) /\ Len(vec_data) \in Nat /\ vec_size \in Nat
      /\ vec_size <= Len(vec_data) /\ Len(vec_data) <= vec_capacity
      /\ vec_capacity \in Capacities \cup {0} /\ vec_failed \in BOOLEAN
      /\ (~vec_failed => Len(vec_data) = vec_capacity)
  BY <1>1, VectorStateIs
<1>3. ASSUME NEW d PROVE ContentsOf(d, 0) = <<>>
  BY DEF ContentsOf
<1>4. CASE V!Clear
  <2>1. VectorSound'
    BY <1>2, <1>4 DEF VectorSound, V!Clear
  <2>2. VectorInv' /\ V!Contents' = <<>>
    <3>1. vec_size' = 0
      BY <1>4 DEF V!Clear
    <3> QED BY <1>3, <2>1, <3>1, VectorNextIs
  <2> QED BY <1>4, <2>2 DEF V!Clear, V!Abstract!Clear
<1>5. CASE V!MoveOut
  <2>1. vec_data' = <<>> /\ vec_size' = 0 /\ vec_capacity' = 0 /\ vec_failed' = FALSE /\ vec_status' = "ok"
    BY <1>2, <1>5 DEF V!MoveOut
  <2>2. vec_data' \in Seq(Cell) /\ Len(vec_data') = 0
    BY <2>1
  <2>3. VectorSound'
    <3>1. vec_size' <= Len(vec_data') /\ Len(vec_data') <= vec_capacity' /\ Len(vec_data') = vec_capacity'
      BY <2>1, <2>2
    <3>2. vec_failed' \in BOOLEAN /\ vec_size' \in Nat /\ vec_capacity' \in Capacities \cup {0}
          /\ vec_status' \in {"ok", "wild"} /\ vec_status' # "wild"
      BY <2>1
    <3> QED BY <2>2, <3>1, <3>2 DEF VectorSound
  <2>4. VectorInv' /\ V!Contents' = <<>>
    <3>1. vec_size' = 0
      BY <2>1
    <3>2. VectorInv' /\ V!Contents' = ContentsOf(vec_data', vec_size')
      BY <2>3, VectorNextIs
    <3> QED BY <1>3, <3>1, <3>2
  <2>5. SubSeq(vec_data, 1, vec_size) = V!Contents
    <3> DEFINE p == SubSeq(vec_data, 1, vec_size)
    <3>1. /\ p \in Seq(Cell) /\ Len(p) = IF 1 <= vec_size THEN vec_size - 1 + 1 ELSE 0
          /\ \A k \in 1 .. vec_size - 1 + 1 : p[k] = vec_data[1 + k - 1]
      <4>1. 1 \in Int /\ vec_size \in Int /\ \A k \in 1 .. vec_size : vec_data[k] \in Cell
        BY <1>2
      <4> QED BY <4>1, SubSeqProperties
    <3> HIDE DEF p
    <3>2. Len(p) = vec_size /\ \A k \in 1 .. vec_size : p[k] = vec_data[k]
      BY <1>2, <3>1
    <3>3. V!Contents \in Seq(Cell) /\ Len(V!Contents) = vec_size
          /\ \A k \in 1 .. vec_size : V!Contents[k] = vec_data[k]
      BY <1>1, VectorStateIs
    <3>4. p = V!Contents
      BY <3>1, <3>2, <3>3, SameElements
    <3> QED BY <3>4 DEF p
  <2>6. vec_call' = <<"move_out", V!Contents>>
    BY <1>5, <2>5 DEF V!MoveOut
  <2> QED BY <2>4, <2>6 DEF V!Abstract!MoveOut
<1>6. CASE V!Deinit
  <2>1. /\ vec_data' = <<>> /\ vec_status' = "freed" /\ vec_call' = <<"clear">>
        /\ vec_size' = vec_size /\ vec_capacity' = vec_capacity /\ vec_failed' = vec_failed
    BY <1>6 DEF V!Deinit
  <2>2. vec_data' \in Seq(Cell)
    BY <2>1
  <2>3. V!TypeOK'
    BY <1>2, <2>1, <2>2 DEF V!TypeOK, Cell
  <2>4. V!Contents' = <<>>
    BY <2>1 DEF V!Contents
  <2> QED BY <2>1, <2>3, <2>4 DEF VectorInv, V!Abstract!Clear
<1> QED BY <1>4, <1>5, <1>6

\* reserve alone and a call that is refused leave the elements alone.
LEMMA VectorKeepIs ==
  ASSUME V!VectorAssumption, VectorInv, NEW n \in Nat,
         V!ReserveOnly(n) \/ V!ReserveFails(n) \/ V!EraseOutOfBounds
  PROVE  VectorInv' /\ (UNCHANGED V!Abstract!vars \/ V!Abstract!Refuse)
<1>1. V!Ok
  BY DEF V!ReserveOnly, V!ReserveFails, V!EraseOutOfBounds, V!Reserve
<1>2. /\ vec_status = "ok" /\ vec_data \in Seq(Cell) /\ vec_size \in Nat /\ Len(vec_data) \in Nat
      /\ vec_size <= Len(vec_data) /\ Len(vec_data) <= vec_capacity
      /\ vec_capacity \in Capacities \cup {0} /\ vec_capacity \in Nat
      /\ vec_failed \in BOOLEAN /\ (~vec_failed => Len(vec_data) = vec_capacity)
      /\ V!Contents = ContentsOf(vec_data, vec_size)
  BY <1>1, VectorStateIs
<1>3. CASE V!ReserveOnly(n)
  <2> DEFINE b == V!BlockFor(n)
  <2>1. /\ V!Reserve(n) /\ vec_data' = b /\ vec_size' = vec_size /\ vec_call' = vec_call /\ vec_status' = "ok"
        /\ vec_capacity' = V!CapacityFor(n) /\ vec_failed' = (vec_failed /\ n <= vec_capacity)
    BY <1>2, <1>3 DEF V!ReserveOnly, V!Reserve
  <2>2. /\ b \in Seq(Cell) /\ Len(vec_data) <= Len(b) /\ Len(b) <= V!CapacityFor(n)
        /\ (n > vec_capacity \/ ~vec_failed => Len(b) = V!CapacityFor(n))
        /\ \A k \in 1 .. Len(vec_data) : b[k] = vec_data[k]
        /\ V!CapacityFor(n) \in Capacities \cup {0}
    BY <2>1, BlockIs
  <2> HIDE DEF b
  <2>3. n > vec_capacity \/ n <= vec_capacity
    BY <1>2
  <2>4. ~vec_failed' => Len(b) = V!CapacityFor(n)
    BY <1>2, <2>1, <2>2, <2>3
  <2>5. Len(b) \in Nat /\ vec_size <= Len(b)
    BY <1>2, <2>2
  <2>6. VectorSound'
    BY <1>2, <2>1, <2>2, <2>4, <2>5 DEF VectorSound
  <2>7. VectorInv' /\ V!Contents' = ContentsOf(b, vec_size)
    BY <2>1, <2>6, VectorNextIs
  <2>8. ContentsOf(b, vec_size) = ContentsOf(vec_data, vec_size)
    <3>1. \A k \in 1 .. vec_size : k \in 1 .. Len(vec_data)
      BY <1>2
    <3> QED BY <2>2, <3>1 DEF ContentsOf
  <2> QED BY <1>2, <2>1, <2>7, <2>8 DEF V!Abstract!vars
<1>4. CASE V!ReserveFails(n)
  <2>1. /\ n > vec_capacity /\ V!Holding(n) # {} /\ vec_capacity' = V!CapacityFor(n)
        /\ vec_failed' = TRUE /\ vec_call' = <<"refused">>
        /\ vec_data' = vec_data /\ vec_size' = vec_size /\ vec_status' = "ok"
    BY <1>2, <1>4 DEF V!ReserveFails
  <2>2. V!CapacityFor(n) \in Capacities /\ n <= V!CapacityFor(n) /\ V!CapacityFor(n) \in Nat
    <3>1. ~(n <= vec_capacity)
      BY <1>2, <2>1
    <3> QED BY <2>1, <3>1, CapacityHolds DEF V!VectorAssumption
  <2>3. Len(vec_data) <= V!CapacityFor(n)
    BY <1>2, <2>1, <2>2
  <2>4. VectorSound'
    BY <1>2, <2>1, <2>2, <2>3 DEF VectorSound
  <2>5. VectorInv' /\ V!Contents' = V!Contents
    BY <1>2, <2>1, <2>4, VectorNextIs
  <2> QED BY <2>1, <2>5 DEF V!Abstract!Refuse
<1>5. CASE V!EraseOutOfBounds
  <2>1. /\ vec_call' = <<"refused">> /\ vec_data' = vec_data /\ vec_size' = vec_size /\ vec_status' = "ok"
        /\ vec_capacity' = vec_capacity /\ vec_failed' = vec_failed
    BY <1>2, <1>5 DEF V!EraseOutOfBounds
  <2>2. VectorSound'
    BY <1>2, <2>1 DEF VectorSound
  <2>3. VectorInv' /\ V!Contents' = V!Contents
    BY <1>2, <2>1, <2>2, VectorNextIs
  <2> QED BY <2>1, <2>3 DEF V!Abstract!Refuse
<1> QED BY <1>3, <1>4, <1>5

LEMMA VectorStepIs ==
  ASSUME V!VectorAssumption, VectorInv, [V!Next]_(V!vars)
  PROVE  VectorInv' /\ [V!Abstract!Next]_(V!Abstract!vars)
<1>1. ASSUME NEW s \in Chunks, V!PushBack(s)
      PROVE  VectorInv' /\ V!Abstract!Next
  BY <1>1, VectorPushBackIs DEF V!Abstract!Next
<1>2. ASSUME NEW n \in Sizes, V!Resize(n)
      PROVE  VectorInv' /\ V!Abstract!Next
  BY <1>2, VectorResizeIs DEF V!Abstract!Next
<1>3. ASSUME NEW k \in 0 .. vec_size - 1, V!EraseAt(k)
      PROVE  VectorInv' /\ V!Abstract!Next
  BY <1>3, VectorEraseIs DEF V!Abstract!Next
<1>4. CASE V!Clear \/ V!MoveOut \/ V!Deinit
  BY <1>4, VectorEmptyIs DEF V!Abstract!Next
<1>5. ASSUME NEW n \in Nat,
             V!ReserveOnly(n) \/ V!ReserveFails(n) \/ V!EraseOutOfBounds
      PROVE  VectorInv' /\ [V!Abstract!Next]_(V!Abstract!vars)
  BY <1>5, VectorKeepIs DEF V!Abstract!Next
<1>6. CASE UNCHANGED V!vars
  <2>1. V!TypeOK' /\ V!Contents' = V!Contents
    BY <1>6 DEF V!vars, V!TypeOK, VectorInv, V!Contents, V!At
  <2>2. VectorInv'
    BY <1>6, <2>1 DEF V!vars, VectorInv
  <2> QED BY <1>6, <2>1, <2>2 DEF V!vars, V!Abstract!vars
<1>7. \A s \in Chunks : /\ V!NeededFor(s) = vec_size + Len(s)
                        /\ V!NeededFor(s) \in Nat
  BY DEF V!NeededFor, V!VectorAssumption, VectorInv, V!TypeOK
<1>8. ASSUME NEW s \in Chunks, V!ReserveFails(V!NeededFor(s))
      PROVE  VectorInv' /\ [V!Abstract!Next]_(V!Abstract!vars)
  BY <1>5, <1>7, <1>8
<1>9. ASSUME NEW n \in Sizes, V!ReserveOnly(n) \/ V!ReserveFails(n)
      PROVE  VectorInv' /\ [V!Abstract!Next]_(V!Abstract!vars)
  <2>1. n \in Nat
    BY DEF V!VectorAssumption
  <2> QED BY <1>5, <1>9, <2>1
<1>10. CASE V!EraseOutOfBounds
  <2>1. 0 \in Nat
    OBVIOUS
  <2> QED BY <1>5, <1>10, <2>1
<1> QED BY <1>1, <1>2, <1>3, <1>4, <1>6, <1>8, <1>9, <1>10 DEF V!Next

LEMMA VectorInductive == V!VectorAssumption /\ V!Spec => []VectorInv
<1> SUFFICES ASSUME V!VectorAssumption PROVE V!Spec => []VectorInv
  OBVIOUS
<1>1. V!Init => VectorInv
  BY VectorInitIs
<1>2. VectorInv /\ [V!Next]_(V!vars) => VectorInv'
  BY VectorStepIs
<1> QED BY <1>1, <1>2, PTL DEF V!Spec

\* The fields of a vector (woort_vector.h) keep their types, whatever its calls.
THEOREM VectorTyped == V!VectorAssumption /\ V!Spec => []V!TypeOK
<1>1. VectorInv => V!TypeOK
  BY DEF VectorInv
<1> QED BY <1>1, VectorInductive, PTL

\* Every element lies in the block; only the m_capacity that a failed realloc of
\* woort_vector_reserve leaves behind lets a call write outside.
THEOREM AlwaysInBlock == V!VectorAssumption /\ V!Spec => []V!VectorStaysInBlock
<1>1. VectorInv => V!VectorStaysInBlock
  BY DEF VectorInv, V!VectorStaysInBlock, V!Ok
<1> QED BY <1>1, VectorInductive, PTL

\* The vector implements the sequence its calls make: growing by doubling, moving
\* elements down and refusing calls neither lose nor change one.
THEOREM VectorImplements == V!VectorAssumption /\ V!Spec => V!VectorIsSequence
<1> SUFFICES ASSUME V!VectorAssumption PROVE V!Spec => V!VectorIsSequence
  OBVIOUS
<1>1. V!Init => V!Abstract!Init
  BY VectorInitIs
<1>2. VectorInv /\ [V!Next]_(V!vars) => [V!Abstract!Next]_(V!Abstract!vars)
  BY VectorStepIs
<1>3. V!Spec => []VectorInv
  BY VectorInductive
<1> QED BY <1>1, <1>2, <1>3, PTL DEF V!Spec, V!VectorIsSequence, V!Abstract!Spec

-----------------------------------------------------------------------------
(* The bit set. *)

\* The words have room for every bit, and bit b of word w tells of w * WordBits + b.
BitInv ==
  /\ B!TypeOK
  /\ set_word_count = (set_bit_count + WordBits - 1) \div WordBits
  /\ set_members \subseteq 0 .. set_bit_count - 1
  /\ \A w \in 0 .. set_word_count - 1 : \A b \in B!Bits :
       b \in set_data[w] <=> w * WordBits + b \in set_members

\* An index is its word and its bit.
LEMMA TakenApart ==
  ASSUME NEW m \in Nat \ {0}, NEW x \in Nat
  PROVE  /\ x \div m \in Nat /\ x % m \in 0 .. m - 1
         /\ x = (x \div m) * m + (x % m)
<1>1. x \div m \in Nat
  OBVIOUS
<1>2. x % m \in 0 .. m - 1
  OBVIOUS
<1>3. x = (x \div m) * m + (x % m)
  OBVIOUS
<1> QED BY <1>1, <1>2, <1>3

LEMMA PutTogether ==
  ASSUME NEW m \in Nat \ {0}, NEW w \in Nat, NEW b \in 0 .. m - 1
  PROVE  /\ w * m + b \in Nat
         /\ (w * m + b) \div m = w
         /\ (w * m + b) % m = b
<1>1. w * m + b \in Nat
  OBVIOUS
<1> DEFINE x == w * m + b
<1>2. x \in Nat /\ x = w * m + b /\ b \in Nat /\ b < m
  BY <1>1
<1> HIDE DEF x
<1>3. x \div m = w
  BY <1>2
<1>4. x % m = b
  BY <1>2
<1> QED BY <1>1, <1>3, <1>4 DEF x

\* A smaller index is in an earlier word, or earlier in the same word.
LEMMA EarlierWord ==
  ASSUME NEW m \in Nat \ {0}, NEW w \in Nat, NEW b \in 0 .. m - 1,
         NEW x \in Nat, x < w * m + b
  PROVE  x \div m < w \/ (x \div m = w /\ x % m < b)
<1> DEFINE q == x \div m
           r == x % m
<1>1. q \in Nat /\ r \in 0 .. m - 1 /\ x = q * m + r
  BY TakenApart
<1> HIDE DEF q, r
<1>2. ASSUME q > w PROVE FALSE
  <2>1. PICK d \in Nat : q = w + 1 + d
    <3>1. q - w - 1 \in Nat /\ q = w + 1 + (q - w - 1)
      BY <1>1, <1>2
    <3> QED BY <3>1
  <2>2. q * m = w * m + m + d * m
    BY <2>1
  <2>3. w * m \in Nat /\ d * m \in Nat
    BY <2>1
  <2> DEFINE p == w * m
             e == d * m
  <2>4. p \in Nat /\ e \in Nat /\ x = p + m + e + r /\ x < p + b
    BY <1>1, <2>2, <2>3
  <2> HIDE DEF p, e
  <2> QED BY <1>1, <2>4
<1>3. ASSUME q = w, ~(r < b) PROVE FALSE
  <2> DEFINE p == w * m
  <2>1. p \in Nat /\ x = p + r /\ x < p + b
    BY <1>1, <1>3
  <2> HIDE DEF p
  <2> QED BY <1>1, <1>3, <2>1
<1>4. q < w \/ (q = w /\ r < b)
  BY <1>1, <1>2, <1>3
<1> QED BY <1>4 DEF q, r

\* There is a word for every bit.
LEMMA WordThere ==
  ASSUME NEW m \in Nat \ {0}, NEW count \in Nat, NEW x \in Nat, x < count
  PROVE  x \div m \in 0 .. ((count + m - 1) \div m) - 1
<1> DEFINE q == x \div m
           top == count + m - 1
           n == top \div m
<1>1. q \in Nat /\ x % m \in Nat /\ x = q * m + (x % m)
  BY TakenApart
<1>2. top \in Nat
  OBVIOUS
<1>3. n \in Nat /\ top % m \in 0 .. m - 1 /\ top = n * m + (top % m)
  <2> HIDE DEF top
  <2> QED BY <1>2, TakenApart
<1> DEFINE r == x % m
           s == top % m
<1>4. q * m + r + m <= n * m + s
  <2> HIDE DEF q, r, n, s
  <2>1. x = q * m + r /\ count + m - 1 = n * m + s
    BY <1>1, <1>3 DEF r, s, q, n
  <2>2. x + m <= count + m - 1
    OBVIOUS
  <2> QED BY <2>1, <2>2
<1> HIDE DEF q, n, r, s, top
<1>5. r \in Nat /\ s \in Nat /\ s < m
  BY <1>1, <1>3 DEF r, s
<1>6. ASSUME n <= q PROVE FALSE
  <2>1. PICK d \in Nat : q = n + d
    <3>1. q - n \in Nat /\ q = n + (q - n)
      BY <1>1, <1>3, <1>6
    <3> QED BY <3>1
  <2>2. q * m = n * m + d * m
    BY <1>3, <2>1
  <2>3. n * m \in Nat /\ d * m \in Nat
    BY <1>3, <2>1
  <2> DEFINE p == n * m
             e == d * m
  <2>4. p \in Nat /\ e \in Nat /\ p + e + r + m <= p + s
    BY <1>4, <2>2, <2>3
  <2> HIDE DEF p, e
  <2> QED BY <1>5, <2>4
<1>7. q \in 0 .. n - 1
  BY <1>1, <1>3, <1>6
<1> QED BY <1>7 DEF q, n, top

LEMMA LeastIs ==
  ASSUME NEW S \in SUBSET Nat, NEW x \in S, \A y \in S : x <= y
  PROVE  B!Least(S) = x
<1>1. \A z \in S : (\A y \in S : z <= y) => z = x
  OBVIOUS
<1> QED BY <1>1 DEF B!Least

LEMMA LeastOfSome ==
  ASSUME NEW S \in SUBSET Nat, S # {}
  PROVE  B!Least(S) \in S /\ \A y \in S : B!Least(S) <= y
<1>1. PICK x \in S : \A y \in S : x <= y
  BY HP!Least
<1> QED BY <1>1, LeastIs

LEMMA BitsTyped ==
  BitInv => /\ WordBits \in Nat \ {0}
            /\ set_bit_count \in Nat /\ set_word_count \in Nat
            /\ set_data \in [0 .. set_word_count - 1 -> SUBSET B!Bits]
  BY ContainersAssumption DEF BitInv, B!TypeOK, B!BitSetAssumption

LEMMA BitInit == B!Init => BitInv
<1> SUFFICES ASSUME B!Init PROVE BitInv
  OBVIOUS
<1>1. WordBits \in Nat \ {0} /\ set_bit_count \in Nat
  BY ContainersAssumption DEF B!Init, B!BitSetAssumption
<1>2. set_word_count \in Nat
  <2> DEFINE n == set_bit_count + WordBits - 1
  <2>1. n \in Nat /\ set_word_count = n \div WordBits
    BY <1>1 DEF B!Init
  <2> HIDE DEF n
  <2> QED BY <1>1, <2>1, TakenApart
<1>3. B!TypeOK
  BY <1>1, <1>2 DEF B!Init, B!TypeOK
<1>4. /\ set_word_count = (set_bit_count + WordBits - 1) \div WordBits
      /\ set_members = {}
      /\ \A w \in 0 .. set_word_count - 1 : set_data[w] = {}
  BY DEF B!Init
<1> QED BY <1>3, <1>4 DEF BitInv

\* What the bit at an index says, before and after the word is changed.
LEMMA BitAt ==
  ASSUME BitInv, NEW x \in Nat, x < set_bit_count
  PROVE  /\ x \div WordBits \in 0 .. set_word_count - 1
         /\ x % WordBits \in B!Bits
         /\ x % WordBits \in set_data[x \div WordBits] <=> x \in set_members
<1> DEFINE w == x \div WordBits
           b == x % WordBits
<1>1. w \in 0 .. set_word_count - 1
  BY BitsTyped, WordThere DEF BitInv
<1>2. b \in B!Bits /\ x = w * WordBits + b
  BY BitsTyped, TakenApart DEF B!Bits
<1>3. b \in set_data[w] <=> w * WordBits + b \in set_members
  <2> HIDE DEF w, b
  <2> QED BY <1>1, <1>2 DEF BitInv
<1> HIDE DEF w, b
<1> QED BY <1>1, <1>2, <1>3 DEF w, b

\* Setting and resetting change one bit of one word.
LEMMA BitChanged ==
  ASSUME BitInv, NEW x \in Indices, x < set_bit_count, NEW word,
         set_data' = [set_data EXCEPT ![x \div WordBits] = word],
         \/ /\ word = set_data[x \div WordBits] \cup {x % WordBits}
            /\ set_members' = set_members \cup {x}
         \/ /\ word = set_data[x \div WordBits] \ {x % WordBits}
            /\ set_members' = set_members \ {x},
         UNCHANGED <<set_bit_count, set_word_count>>
  PROVE  BitInv'
<1> DEFINE v == x \div WordBits
           c == x % WordBits
<1>1. x \in Nat
  BY ContainersAssumption DEF B!BitSetAssumption
<1>2. v \in 0 .. set_word_count - 1 /\ c \in B!Bits /\ x = v * WordBits + c
  BY <1>1, BitAt, BitsTyped, TakenApart
<1>3. /\ set_data' = [set_data EXCEPT ![v] = word]
      /\ \/ word = set_data[v] \cup {c} /\ set_members' = set_members \cup {x}
         \/ word = set_data[v] \ {c} /\ set_members' = set_members \ {x}
  OBVIOUS
<1> HIDE DEF v, c
<1>4. /\ word \in SUBSET B!Bits
      /\ \A b : b # c => (b \in word <=> b \in set_data[v])
      /\ \A y : y # x => (y \in set_members' <=> y \in set_members)
      /\ c \in word <=> x \in set_members'
  <2>1. set_data[v] \in SUBSET B!Bits
    BY <1>2, BitsTyped
  <2> QED BY <1>2, <1>3, <2>1
<1>5. /\ set_data' \in [0 .. set_word_count - 1 -> SUBSET B!Bits]
      /\ \A w \in 0 .. set_word_count - 1 : set_data'[w] = IF w = v THEN word ELSE set_data[w]
  BY <1>2, <1>3, <1>4, BitsTyped
<1>6. B!TypeOK' /\ set_members' \subseteq 0 .. set_bit_count - 1
  <2>1. set_members' \in SUBSET Indices
    BY DEF BitInv, B!TypeOK
  <2>2. x \in 0 .. set_bit_count - 1
    BY <1>1, BitsTyped
  <2>3. set_members' \subseteq 0 .. set_bit_count - 1
    BY <2>2 DEF BitInv
  <2> QED BY <1>5, <2>1, <2>3 DEF BitInv, B!TypeOK, B!Bits
<1>7. ASSUME NEW w \in 0 .. set_word_count - 1, NEW b \in B!Bits
      PROVE  b \in set_data'[w] <=> w * WordBits + b \in set_members'
  <2> DEFINE y == w * WordBits + b
  <2>1. b \in set_data[w] <=> y \in set_members
    BY DEF BitInv
  <2>2. y = x <=> w = v /\ b = c
    <3>1. w \in Nat /\ v \in Nat /\ b \in 0 .. WordBits - 1 /\ c \in 0 .. WordBits - 1
      BY <1>2, BitsTyped DEF B!Bits
    <3>2. y \div WordBits = w /\ y % WordBits = b
      BY <3>1, BitsTyped, PutTogether
    <3>3. x \div WordBits = v /\ x % WordBits = c
      BY DEF v, c
    <3> HIDE DEF y
    <3>4. y = x => w = v /\ b = c
      BY <3>2, <3>3
    <3>5. w = v /\ b = c => y = x
      BY <1>2 DEF y
    <3> QED BY <3>4, <3>5
  <2> HIDE DEF y
  <2>3. ASSUME w = v /\ b = c PROVE b \in set_data'[w] <=> y \in set_members'
    BY <1>4, <1>5, <2>2, <2>3
  <2>4. ASSUME ~(w = v /\ b = c) PROVE b \in set_data'[w] <=> y \in set_members'
    <3>1. y \in set_members' <=> y \in set_members
      BY <1>4, <2>2, <2>4
    <3>2. b \in set_data'[w] <=> b \in set_data[w]
      BY <1>4, <1>5, <2>4
    <3> QED BY <2>1, <3>1, <3>2
  <2>5. b \in set_data'[w] <=> y \in set_members'
    BY <2>3, <2>4
  <2> QED BY <2>5 DEF y
<1> QED BY <1>5, <1>6, <1>7 DEF BitInv, B!Bits

LEMMA BitStep == BitInv /\ [B!Next]_setVars => BitInv'
<1> SUFFICES ASSUME BitInv, [B!Next]_setVars PROVE BitInv'
  OBVIOUS
<1>1. ASSUME NEW x \in Indices, B!SetBit(x) PROVE BitInv'
  BY <1>1, BitChanged DEF B!SetBit
<1>2. ASSUME NEW x \in Indices, B!ResetBit(x) PROVE BitInv'
  BY <1>2, BitChanged DEF B!ResetBit
<1>3. CASE UNCHANGED setVars
  BY <1>3 DEF setVars, BitInv, B!TypeOK, B!Bits
<1>4. ASSUME NEW x \in Indices, B!Refuse(x) PROVE BitInv'
  BY <1>3, <1>4 DEF B!Refuse, B!vars, setVars
<1>5. CASE B!Deinit
  <2>1. /\ set_bit_count' = 0 /\ set_word_count' = 0 /\ set_members' = {}
        /\ set_data' = [w \in {} |-> {}]
    BY <1>5 DEF B!Deinit
  <2>2. (0 + WordBits - 1) \div WordBits = 0
    <3>1. WordBits \in Nat \ {0}
      BY BitsTyped
    <3>2. WordBits - 1 \in 0 .. WordBits - 1 /\ 0 * WordBits + (WordBits - 1) = 0 + WordBits - 1
      BY <3>1
    <3>3. (0 * WordBits + (WordBits - 1)) \div WordBits = 0
      BY <3>1, <3>2, PutTogether
    <3> QED BY <3>2, <3>3
  <2>3. B!TypeOK'
    BY <2>1 DEF B!TypeOK
  <2> QED BY <2>1, <2>2, <2>3 DEF BitInv
<1> QED BY <1>1, <1>2, <1>3, <1>4, <1>5 DEF B!Next

LEMMA SearchIsRight ==
  ASSUME BitInv
  PROVE  LET unset == (0 .. set_bit_count - 1) \ set_members
         IN B!FirstUnset = IF unset = {} THEN B!None ELSE B!Least(unset)
<1> DEFINE unset == (0 .. set_bit_count - 1) \ set_members
           full(w) == set_data[w] = B!Bits
<1>1. ASSUME NEW x \in Nat, x < set_bit_count, full(x \div WordBits)
      PROVE  x \in set_members
  BY <1>1, BitAt
<1>2. CASE B!Gaps = {}
  <2>1. ASSUME NEW x \in 0 .. set_bit_count - 1 PROVE x \in set_members
    <3>1. x \in Nat /\ x < set_bit_count
      BY BitsTyped
    <3>2. x \div WordBits \in 0 .. set_word_count - 1
      BY <3>1, BitAt
    <3>3. full(x \div WordBits)
      BY <1>2, <3>2 DEF B!Gaps
    <3> QED BY <1>1, <3>1, <3>3
  <2> QED BY <1>2, <2>1 DEF B!FirstUnset
<1>3. CASE B!Gaps # {}
  <2> DEFINE w == B!Least(B!Gaps)
             b == B!Least(B!Bits \ set_data[w])
             index == w * WordBits + b
  <2>1. w \in B!Gaps /\ \A v \in B!Gaps : w <= v
    <3>1. B!Gaps \in SUBSET Nat
      BY BitsTyped DEF B!Gaps
    <3> QED BY <1>3, <3>1, LeastOfSome
  <2>2. w \in 0 .. set_word_count - 1 /\ w \in Nat /\ ~full(w)
    BY <2>1, BitsTyped DEF B!Gaps
  <2>3. \A v \in 0 .. w - 1 : full(v)
    BY <2>1, <2>2, BitsTyped DEF B!Gaps
  <2> HIDE DEF w
  <2>4. b \in B!Bits \ set_data[w] /\ \A c \in B!Bits \ set_data[w] : b <= c
    <3>1. B!Bits \ set_data[w] \in SUBSET Nat
      BY DEF B!Bits
    <3>2. B!Bits \ set_data[w] # {}
      BY <2>2, BitsTyped
    <3> QED BY <3>1, <3>2, LeastOfSome
  <2> HIDE DEF b
  <2>5. b \in 0 .. WordBits - 1
    BY <2>4 DEF B!Bits
  <2>6. index \in Nat /\ index \notin set_members
    BY <2>2, <2>4, <2>5, BitsTyped, PutTogether DEF BitInv
  <2>7. ASSUME NEW x \in Nat, x < set_bit_count, x < index PROVE x \in set_members
    <3>1. x \div WordBits < w \/ (x \div WordBits = w /\ x % WordBits < b)
      BY <2>2, <2>5, <2>7, BitsTyped, EarlierWord
    <3>2. x \div WordBits \in Nat /\ x % WordBits \in B!Bits
      BY BitsTyped, TakenApart DEF B!Bits
    <3>3. CASE x \div WordBits < w
      <4> DEFINE v == x \div WordBits
      <4>1. v \in 0 .. w - 1
        <5>1. v \in Nat /\ v < w
          BY <3>2, <3>3
        <5> HIDE DEF v
        <5> QED BY <2>2, <5>1
      <4>2. full(v)
        BY <2>3, <4>1
      <4> QED BY <1>1, <2>7, <4>2
    <3>4. CASE x \div WordBits = w /\ x % WordBits < b
      <4>1. x % WordBits \in set_data[w]
        <5> DEFINE c == x % WordBits
        <5>1. c \in B!Bits /\ c < b /\ c \in Nat
          BY <3>2, <3>4 DEF B!Bits
        <5> HIDE DEF c
        <5>2. c \in set_data[w]
          BY <2>4, <2>5, <5>1
        <5> QED BY <5>2 DEF c
      <4> QED BY <2>7, <3>4, <4>1, BitAt
    <3> QED BY <3>1, <3>3, <3>4
  <2>8. B!FirstUnset = IF index < set_bit_count THEN index ELSE B!None
    BY <1>3 DEF B!FirstUnset, w, b
  <2> HIDE DEF index
  <2>9. CASE index < set_bit_count
    <3>1. index \in unset
      BY <2>6, <2>9, BitsTyped
    <3>2. \A y \in unset : index <= y
      BY <2>6, <2>7, BitsTyped
    <3>3. unset \in SUBSET Nat
      BY BitsTyped
    <3> HIDE DEF unset
    <3>4. B!Least(unset) = index
      BY <3>1, <3>2, <3>3, LeastIs
    <3> QED BY <2>8, <2>9, <3>1, <3>4 DEF unset
  <2>10. CASE ~(index < set_bit_count)
    <3>1. ASSUME NEW x \in 0 .. set_bit_count - 1 PROVE x \in set_members
      <4>1. x \in Nat /\ x < set_bit_count /\ x < index
        BY <2>6, <2>10, BitsTyped
      <4> QED BY <2>7, <4>1
    <3> QED BY <2>8, <2>10, <3>1
  <2> QED BY <2>9, <2>10
<1> QED BY <1>2, <1>3

LEMMA BitsAreSet == BitInv => B!BitSetIsSet
<1> SUFFICES ASSUME BitInv PROVE B!BitSetIsSet
  OBVIOUS
<1>1. ASSUME NEW x \in Indices PROVE B!Test(x) <=> x \in set_members
  <2>1. x \in Nat
    BY ContainersAssumption DEF B!BitSetAssumption
  <2>2. x \in set_members => x < set_bit_count
    BY BitsTyped DEF BitInv
  <2> QED BY <2>1, <2>2, BitAt DEF B!Test
<1> QED BY <1>1, SearchIsRight DEF B!BitSetIsSet

-----------------------------------------------------------------------------
(* The composition. *)

\* HashMapProofs speaks of the same map.
LEMMA SameMap ==
  /\ H!HashMapAssumption <=> HP!HashMapAssumption
  /\ H!Init <=> HP!Init
  /\ H!Next <=> HP!Next
  /\ H!vars = HP!vars
  /\ H!TypeOK <=> HP!TypeOK
  /\ H!FindsContent <=> HP!FindsContent
  /\ H!ChainsAreSound <=> HP!ChainsAreSound
  /\ H!EveryEntryOnce <=> HP!EveryEntryOnce
<1>1. H!m_bucket_count = HP!m_bucket_count
  BY DEF H!m_bucket_count, HP!m_bucket_count, H!Cardinality, HP!Cardinality
<1>2. ASSUME NEW e PROVE H!ListFrom(e) = HP!ListFrom(e)
  BY DEF H!ListFrom, HP!ListFrom, H!Cardinality, HP!Cardinality, H!NULL, HP!NULL
<1>3. ASSUME NEW b PROVE H!Chain(b) = HP!Chain(b)
  BY <1>2 DEF H!Chain, HP!Chain
<1>4. H!Walked = HP!Walked
  <2>1. ASSUME NEW ss PROVE H!FlattenSeq(ss) = HP!FlattenSeq(ss)
    BY DEF H!FlattenSeq, HP!FlattenSeq
  <2> QED BY <1>1, <1>3, <2>1 DEF H!Walked, HP!Walked
<1>5. ASSUME NEW k, NEW n PROVE H!BucketOf(k, n) = HP!BucketOf(k, n)
  BY DEF H!BucketOf, HP!BucketOf
<1>6. ASSUME NEW S PROVE H!Min(S) = HP!Min(S) /\ H!Max(S) = HP!Max(S)
  BY DEF H!Min, HP!Min, H!Max, HP!Max
<1>7. ASSUME NEW s PROVE H!ToSet(s) = HP!ToSet(s) /\ H!Reverse(s) = HP!Reverse(s)
  BY DEF H!ToSet, HP!ToSet, H!Reverse, HP!Reverse
<1>8. H!NULL = HP!NULL /\ H!NewCount = HP!NewCount /\ (H!MustGrow <=> HP!MustGrow)
  BY <1>1 DEF H!NULL, HP!NULL, H!NewCount, HP!NewCount, H!MustGrow, HP!MustGrow
<1>9. ASSUME NEW k PROVE H!Lookup(k) = HP!Lookup(k)
  BY <1>1, <1>3, <1>5, <1>6, <1>8 DEF H!Lookup, HP!Lookup
<1>10. ASSUME NEW b PROVE H!TakenFor(b) = HP!TakenFor(b)
  BY <1>4, <1>5, <1>8 DEF H!TakenFor, HP!TakenFor
<1>11. ASSUME NEW S PROVE H!LastTaken(S) = HP!LastTaken(S) /\ H!FirstTaken(S) = HP!FirstTaken(S)
  BY <1>4, <1>6, <1>8 DEF H!LastTaken, HP!LastTaken, H!FirstTaken, HP!FirstTaken
<1>12. ASSUME NEW n PROVE H!Relinked(n) = HP!Relinked(n)
  BY <1>4, <1>5, <1>8, <1>10, <1>11 DEF H!Relinked, HP!Relinked
<1>13. H!Rehashed = HP!Rehashed
  <2>1. ASSUME NEW list, NEW e PROVE H!PlaceIn(list, e) = HP!PlaceIn(list, e)
    BY DEF H!PlaceIn, HP!PlaceIn
  <2>2. H!ToSet(H!Walked) = HP!ToSet(HP!Walked)
    BY <1>4, <1>7
  <2> QED BY <1>4, <1>8, <1>10, <1>11, <1>12, <2>1, <2>2 DEF H!Rehashed, HP!Rehashed
<1>14. H!Grown = HP!Grown
  BY <1>8, <1>13 DEF H!Grown, HP!Grown
<1>15. ASSUME NEW k PROVE H!SlotInGrown(k) = HP!SlotInGrown(k)
  BY <1>5, <1>14 DEF H!SlotInGrown, HP!SlotInGrown, H!Cardinality, HP!Cardinality
<1>16. /\ H!Ok <=> HP!Ok
       /\ H!Cleared <=> HP!Cleared
       /\ H!vars = HP!vars /\ H!table = HP!table /\ H!Entries = HP!Entries
       /\ H!TakenEntry = HP!TakenEntry /\ H!FreeBehind = HP!FreeBehind
  BY <1>8 DEF H!Ok, HP!Ok, H!Cleared, HP!Cleared, H!vars, HP!vars, H!table, HP!table, H!Entries, HP!Entries,
              H!TakenEntry, HP!TakenEntry, H!FreeBehind, HP!FreeBehind
<1>17. ASSUME NEW k PROVE H!Exists(k) <=> HP!Exists(k)
  BY <1>1, <1>8, <1>9 DEF H!Exists, HP!Exists
<1>18. /\ H!GrowthFails <=> HP!GrowthFails
       /\ H!SearchNothing <=> HP!SearchNothing
       /\ H!DeinitCleared <=> HP!DeinitCleared
  BY <1>1, <1>8, <1>16 DEF H!GrowthFails, HP!GrowthFails, H!SearchNothing, HP!SearchNothing,
                           H!DeinitCleared, HP!DeinitCleared,
                           H!vars, HP!vars, H!table, HP!table
<1>19. H!Clear <=> HP!Clear
  <2>1. ASSUME NEW list, NEW e PROVE H!PlaceIn(list, e) = HP!PlaceIn(list, e)
    BY DEF H!PlaceIn, HP!PlaceIn
  <2>2. /\ H!ToSet(H!Walked) = HP!ToSet(HP!Walked)
        /\ H!Reverse(H!Walked) \o H!ListFrom(map_free_entries)
             = HP!Reverse(HP!Walked) \o HP!ListFrom(map_free_entries)
    BY <1>2, <1>4, <1>7
  <2> DEFINE hfree == H!Reverse(H!Walked) \o H!ListFrom(map_free_entries)
             hpfree == HP!Reverse(HP!Walked) \o HP!ListFrom(map_free_entries)
             hentries == [e \in DOMAIN map_entries |->
               IF e \in H!ToSet(H!Walked)
               THEN [map_entries[e] EXCEPT !.next =
                       IF H!PlaceIn(hfree, e) = Len(hfree) THEN H!NULL
                       ELSE hfree[H!PlaceIn(hfree, e) + 1]]
               ELSE map_entries[e]]
             hpentries == [e \in DOMAIN map_entries |->
               IF e \in HP!ToSet(HP!Walked)
               THEN [map_entries[e] EXCEPT !.next =
                       IF HP!PlaceIn(hpfree, e) = Len(hpfree) THEN HP!NULL
                       ELSE hpfree[HP!PlaceIn(hpfree, e) + 1]]
               ELSE map_entries[e]]
  <2>3. H!Clear <=>
          /\ H!Ok
          /\ map_free_entries' = IF hfree = <<>> THEN H!NULL ELSE Head(hfree)
          /\ map_entries' = hentries
          /\ map_status' = IF H!Walked = <<>> THEN "ok" ELSE "cleared"
          /\ map_size' = 0
          /\ map_content' = [k \in Keys |-> H!NULL]
          /\ UNCHANGED <<map_hash_fn, map_buckets, map_intact>>
    BY Zenon DEF H!Clear
  <2>4. HP!Clear <=>
          /\ HP!Ok
          /\ map_free_entries' = IF hpfree = <<>> THEN HP!NULL ELSE Head(hpfree)
          /\ map_entries' = hpentries
          /\ map_status' = IF HP!Walked = <<>> THEN "ok" ELSE "cleared"
          /\ map_size' = 0
          /\ map_content' = [k \in Keys |-> HP!NULL]
          /\ UNCHANGED <<map_hash_fn, map_buckets, map_intact>>
    BY Zenon DEF HP!Clear
  <2>5. hfree = hpfree
    BY <2>2
  <2> HIDE DEF hfree, hpfree
  <2>6. hentries = hpentries
    BY <1>4, <1>8, <2>1, <2>2, <2>5
  <2> HIDE DEF hentries, hpentries
  <2>7. /\ H!NULL = HP!NULL /\ (H!Ok <=> HP!Ok) /\ H!Walked = HP!Walked
        /\ (IF hfree = <<>> THEN H!NULL ELSE Head(hfree))
             = (IF hpfree = <<>> THEN HP!NULL ELSE Head(hpfree))
        /\ (IF H!Walked = <<>> THEN "ok" ELSE "cleared")
             = (IF HP!Walked = <<>> THEN "ok" ELSE "cleared")
        /\ [k \in Keys |-> H!NULL] = [k \in Keys |-> HP!NULL]
    BY <1>4, <1>8, <1>16, <2>5
  <2>8. H!Clear => HP!Clear
    BY <2>3, <2>4, <2>6, <2>7
  <2>9. HP!Clear => H!Clear
    BY <2>3, <2>4, <2>6, <2>7
  <2> QED BY <2>8, <2>9
<1>20. H!Deinit <=> HP!Deinit
  <2> DEFINE hchains == {H!ToSet(H!Chain(b)) : b \in DOMAIN map_buckets}
             hpchains == {HP!ToSet(HP!Chain(b)) : b \in DOMAIN map_buckets}
  <2>1. hchains = hpchains /\ H!ToSet(H!ListFrom(map_free_entries)) = HP!ToSet(HP!ListFrom(map_free_entries))
    BY <1>2, <1>3, <1>7
  <2>2. H!Deinit <=>
          /\ H!Ok
          /\ map_entries' = [e \in DOMAIN map_entries
               \ (H!ToSet(H!ListFrom(map_free_entries)) \cup UNION hchains) |-> map_entries[e]]
          /\ map_status' = "freed"
          /\ UNCHANGED <<map_hash_fn, map_buckets, map_size, map_free_entries, map_content, map_intact>>
    BY Zenon DEF H!Deinit
  <2>3. HP!Deinit <=>
          /\ HP!Ok
          /\ map_entries' = [e \in DOMAIN map_entries
               \ (HP!ToSet(HP!ListFrom(map_free_entries)) \cup UNION hpchains) |-> map_entries[e]]
          /\ map_status' = "freed"
          /\ UNCHANGED <<map_hash_fn, map_buckets, map_size, map_free_entries, map_content, map_intact>>
    BY Zenon DEF HP!Deinit
  <2> HIDE DEF hchains, hpchains
  <2>4. H!Ok <=> HP!Ok
    BY <1>16
  <2> QED BY <2>1, <2>2, <2>3, <2>4
<1>21. ASSUME NEW k
       PROVE  (H!InsertNot(k) <=> HP!InsertNot(k)) /\ (H!EmplaceExisting(k) <=> HP!EmplaceExisting(k))
  BY <1>8, <1>14, <1>16, <1>17
  DEF H!InsertNot, HP!InsertNot, H!EmplaceExisting, HP!EmplaceExisting
<1>22. ASSUME NEW k, NEW v PROVE H!Insert(k, v) <=> HP!Insert(k, v)
  <2>1. ASSUME NEW e PROVE H!PutFirst(e, k, v) <=> HP!PutFirst(e, k, v)
    BY <1>8, <1>14, <1>15 DEF H!PutFirst, HP!PutFirst
  <2> QED BY <1>8, <1>16, <1>17, <2>1 DEF H!Insert, HP!Insert
<1>23. ASSUME NEW k PROVE H!RemoveKey(k) <=> HP!RemoveKey(k)
  <2>1. ASSUME NEW e PROVE H!Dropped(H!Unlinked(e), e) = HP!Dropped(HP!Unlinked(e), e)
    BY DEF H!Dropped, HP!Dropped, H!Unlinked, HP!Unlinked
  <2> QED BY <1>1, <1>5, <1>8, <1>9, <1>16, <1>17, <2>1 DEF H!RemoveKey, HP!RemoveKey
<1>24. H!Next <=> HP!Next
  BY <1>18, <1>19, <1>20, <1>21, <1>22, <1>23 DEF H!Next, HP!Next
<1>25. H!HashMapAssumption <=> HP!HashMapAssumption
  BY DEF H!HashMapAssumption, HP!HashMapAssumption
<1>26. H!Init <=> HP!Init
  BY <1>8 DEF H!Init, HP!Init
<1>27. H!TypeOK <=> HP!TypeOK
  BY <1>1, <1>8, <1>16 DEF H!TypeOK, HP!TypeOK
<1>28. H!FindsContent <=> HP!FindsContent
  <2>1. ASSUME NEW k PROVE H!Found(k) = HP!Found(k)
    BY <1>8, <1>9, <1>17 DEF H!Found, HP!Found
  <2> QED BY <1>8, <1>16, <2>1 DEF H!FindsContent, HP!FindsContent, H!Cardinality, HP!Cardinality
<1>29. ASSUME NEW s PROVE H!IsInjective(s) <=> HP!IsInjective(s)
  BY DEF H!IsInjective, HP!IsInjective
<1>30. H!ChainsAreSound <=> HP!ChainsAreSound
  BY <1>1, <1>2, <1>3, <1>5, <1>7, <1>8, <1>16, <1>29 DEF H!ChainsAreSound, HP!ChainsAreSound
<1>31. H!EveryEntryOnce <=> HP!EveryEntryOnce
  BY <1>2, <1>4, <1>7, <1>16, <1>29 DEF H!EveryEntryOnce, HP!EveryEntryOnce
<1> QED BY <1>16, <1>24, <1>25, <1>26, <1>27, <1>28, <1>30, <1>31

\* Every step of the containers is a step of each of them, or leaves it alone.
LEMMA EachIsPart ==
  ContainersSpec => HP!Spec /\ V!Spec /\ Spec /\ B!Spec
<1>1. ContainersInit => HP!Init /\ V!Init /\ Init /\ B!Init
  BY SameMap DEF ContainersInit
<1>2. [ContainersNext]_allVars => [HP!Next]_(HP!vars)
  BY SameMap DEF ContainersNext, HashMapNext, VectorNext, LinkListNext, BitSetNext,
                 allVars, mapVars, HP!vars, HP!table
<1>3. [ContainersNext]_allVars => [V!Next]_(V!vars)
  BY DEF ContainersNext, HashMapNext, VectorNext, LinkListNext, BitSetNext,
         allVars, vecVars, V!vars
<1>4. [ContainersNext]_allVars => [Next]_vars
  BY DEF ContainersNext, HashMapNext, VectorNext, LinkListNext, BitSetNext, allVars
<1>5. [ContainersNext]_allVars => [B!Next]_(B!vars)
  BY DEF ContainersNext, HashMapNext, VectorNext, LinkListNext, BitSetNext,
         allVars, setVars, B!vars
<1> QED BY <1>1, <1>2, <1>3, <1>4, <1>5, PTL DEF ContainersSpec, HP!Spec, V!Spec, Spec, B!Spec

LEMMA BitInductive == B!BitSetAssumption /\ B!Spec => []BitInv
<1> SUFFICES ASSUME B!BitSetAssumption PROVE B!Spec => []BitInv
  OBVIOUS
<1>1. B!Init => BitInv
  BY BitInit
<1>2. BitInv /\ [B!Next]_(B!vars) => BitInv'
  BY BitStep DEF B!vars, setVars
<1> QED BY <1>1, <1>2, PTL DEF B!Spec

LEMMA Assumed ==
  ContainersAssumption =>
    HP!HashMapAssumption /\ V!VectorAssumption /\ LinkListAssumption /\ B!BitSetAssumption
BY SameMap DEF ContainersAssumption

-----------------------------------------------------------------------------
\* The fields of all containers keep their types, whatever calls are made; of a
\* list as long as pop_back takes only a last element.
THEOREM TypesAlwaysOK ==
  ContainersAssumption /\ ~PopsLonger /\ ContainersSpec => []TypesOK
<1> SUFFICES ASSUME ContainersAssumption, ~PopsLonger PROVE ContainersSpec => []TypesOK
  OBVIOUS
<1>1. HP!Spec => []HP!TypeOK
  BY Assumed, HP!TypeCorrect
<1>2. V!Spec => []V!TypeOK
  BY Assumed, VectorTyped
<1>3. Spec => []TypeOK
  BY Assumed, ListTyped
<1>4. B!Spec => []BitInv
  BY Assumed, BitInductive
<1>5. HP!TypeOK /\ V!TypeOK /\ TypeOK /\ BitInv => TypesOK
  BY SameMap DEF TypesOK, BitInv
<1> QED BY <1>1, <1>2, <1>3, <1>4, <1>5, EachIsPart, PTL

\* Until a map that has entries is cleared, woort_hashmap_find gives what was
\* inserted under the key and not removed since, or nothing when a removal cut the
\* entry off, and m_size counts the keys until then; after the clear m_size is 0
\* and some key is found still.
THEOREM MapFindsContent == ContainersAssumption /\ ContainersSpec => []FindsContent
<1> SUFFICES ASSUME ContainersAssumption PROVE ContainersSpec => []FindsContent
  OBVIOUS
<1>1. HP!Spec => []HP!FindsContent
  BY Assumed, HP!AlwaysFinds
<1>2. HP!FindsContent => FindsContent
  BY SameMap DEF FindsContent
<1> QED BY <1>1, <1>2, EachIsPart, PTL

\* Until a map that has entries is cleared, no chain of it has a cycle, an entry of
\* another bucket, a free entry or a wrong link back, whatever was cut off; after
\* the clear no chain has a cycle, and every entry in a chain is free.
THEOREM MapChainsSound == ContainersAssumption /\ ContainersSpec => []ChainsAreSound
<1> SUFFICES ASSUME ContainersAssumption PROVE ContainersSpec => []ChainsAreSound
  OBVIOUS
<1>1. HP!Spec => []HP!ChainsAreSound
  BY Assumed, HP!ChainsAlwaysSound
<1>2. HP!ChainsAreSound => ChainsAreSound
  BY SameMap DEF ChainsAreSound
<1> QED BY <1>1, <1>2, EachIsPart, PTL

\* Until a removal cuts entries off or a map that has entries is cleared, every
\* entry of it is once in the free list or in one chain, so deinit frees each of
\* them once; after the clear the free list has each once, and the chains lead to
\* them again.
THEOREM MapEntriesOnce == ContainersAssumption /\ ContainersSpec => []EveryEntryOnce
<1> SUFFICES ASSUME ContainersAssumption PROVE ContainersSpec => []EveryEntryOnce
  OBVIOUS
<1>1. HP!Spec => []HP!EveryEntryOnce
  BY Assumed, HP!EntriesOnce
<1>2. HP!EveryEntryOnce => EveryEntryOnce
  BY SameMap DEF EveryEntryOnce
<1> QED BY <1>1, <1>2, EachIsPart, PTL

\* Every element of a vector lies in its block; only the m_capacity that a failed
\* realloc of woort_vector_reserve leaves behind lets a call write outside.
THEOREM VectorInBlock == ContainersAssumption /\ ContainersSpec => []VectorStaysInBlock
<1> SUFFICES ASSUME ContainersAssumption PROVE ContainersSpec => []VectorStaysInBlock
  OBVIOUS
<1>1. V!Spec => []V!VectorStaysInBlock
  BY Assumed, AlwaysInBlock
<1>2. V!VectorStaysInBlock => VectorStaysInBlock
  BY DEF VectorStaysInBlock
<1> QED BY <1>1, <1>2, EachIsPart, PTL

\* A vector implements the sequence its calls make: growing by doubling, moving
\* elements down and refusing calls neither lose nor change one.
THEOREM VectorMakesSequence == ContainersAssumption /\ ContainersSpec => VectorIsSequence
<1> SUFFICES ASSUME ContainersAssumption PROVE ContainersSpec => VectorIsSequence
  OBVIOUS
<1>1. V!Spec => V!VectorIsSequence
  BY Assumed, VectorImplements
<1> QED BY <1>1, EachIsPart, PTL DEF VectorIsSequence

\* However nodes are pushed, popped in front, erased and used again, a list is
\* linked backwards as it is forwards, both ends are right, and no node is lost
\* (woort_linklist_push_back to woort_linklist_erase and woort_linklist_clear).
THEOREM ListAlwaysLinked ==
  ContainersAssumption /\ ~PopsLonger /\ ContainersSpec => []ListIsLinked
<1> SUFFICES ASSUME ContainersAssumption, ~PopsLonger PROVE ContainersSpec => []ListIsLinked
  OBVIOUS
<1>1. Spec => []ListIsLinked
  BY Assumed, AlwaysLinked
<1> QED BY <1>1, EachIsPart, PTL

\* A list implements the sequence its calls make: every call of woort_linklist.c
\* changes what an iteration finds as that call promises.
THEOREM ListMakesSequence ==
  ContainersAssumption /\ ~PopsLonger /\ ContainersSpec => ListIsSequence
<1> SUFFICES ASSUME ContainersAssumption, ~PopsLonger PROVE ContainersSpec => ListIsSequence
  OBVIOUS
<1>1. Spec => ListIsSequence
  BY Assumed, ListImplements
<1> QED BY <1>1, EachIsPart, PTL

\* The words of a bit set hold the set the client means, and
\* woort_bitset_find_first_unset finds the least bit that is not in it, for every
\* width of a word and every number of bits.
THEOREM BitSetHoldsSet == ContainersAssumption /\ ContainersSpec => []BitSetIsSet
<1> SUFFICES ASSUME ContainersAssumption PROVE ContainersSpec => []BitSetIsSet
  OBVIOUS
<1>1. B!Spec => []BitInv
  BY Assumed, BitInductive
<1>2. BitInv => BitSetIsSet
  BY BitsAreSet DEF BitSetIsSet
<1> QED BY <1>1, <1>2, EachIsPart, PTL
=============================================================================
