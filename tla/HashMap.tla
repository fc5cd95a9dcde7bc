------------------------------ MODULE HashMap -------------------------------
(***************************************************************************)
(* woort_hashmap.c: chained buckets, a list of entries that are free, and  *)
(* growth by rehashing when three quarters of the buckets are used.        *)
(*                                                                         *)
(* A pointer to an entry is its number in the order in which malloc gave   *)
(* them.  Every call is one action: nobody shares a map.  The hash         *)
(* function is the client's and is arbitrary.  A client of                 *)
(* woort_hashmap_get_or_emplace that gets a new entry writes the value at  *)
(* once, which makes it woort_hashmap_insert.                              *)
(*                                                                         *)
(* content is the map the client means: what it inserted with the answer   *)
(* OK and has not removed or cleared since.                                *)
(*                                                                         *)
(* woort_hashmap_clear leaves a map whose buckets still lead to the        *)
(* entries it put on the free list (status "cleared").  What find answers  *)
(* then, what the lists are and what deinit does is modelled; insertions,  *)
(* removals and a second clear of such a map are not followed, for they    *)
(* rewrite entries that chains lead through (a list may become a cycle,    *)
(* m_size may go below zero).                                              *)
(***************************************************************************)
EXTENDS Integers, FiniteSets, Sequences, SequencesExt

CONSTANTS
  Keys,
  Values,
  InitialCapacity, \* WOORT_HASHMAP_INITIAL_CAPACITY, a power of two
  Hashes,          \* what a hash function may return
  MaxEntries       \* bound: entries that are allocated

HashMapAssumption ==
  /\ InitialCapacity \in Nat \ {0}
  /\ Hashes \subseteq Nat
  /\ MaxEntries \in Nat
  /\ 0 \notin Values

VARIABLES
  m_hash_fn,
  m_buckets,      \* from 0 to m_bucket_count - 1
  m_size,
  m_free_entries,
  entries,        \* key, value, prev and next of each entry
  content,
  intact,         \* no entry was cut off its chain (see RemoveKey)
  status          \* "ok", "cleared" when buckets lead to entries that are free,
                  \* "freed" by deinit, or "wild" after an access that C does not
                  \* define

table == <<m_buckets, m_size, m_free_entries, entries>>
vars == <<m_hash_fn, table, content, intact, status>>

NULL == 0

m_bucket_count == Cardinality(DOMAIN m_buckets)

Init ==
  /\ m_hash_fn \in [Keys -> Hashes]
  /\ m_buckets = [b \in {} |-> NULL]
  /\ m_size = 0
  /\ m_free_entries = NULL
  /\ entries = <<>>
  /\ content = [k \in Keys |-> NULL]
  /\ intact = TRUE
  /\ status = "ok"

-----------------------------------------------------------------------------
\* The list that begins with entry e (cut off, should it have a cycle).
ListFrom(e) ==
  LET at[n \in 0 .. Len(entries)] ==
        IF n = 0 THEN e
        ELSE IF at[n - 1] = NULL THEN NULL ELSE entries[at[n - 1]].next
  IN [n \in 1 .. Cardinality({k \in DOMAIN at : at[k] # NULL}) |-> at[n - 1]]

Chain(b) == ListFrom(m_buckets[b])

\* Where entry e is in a list.
PlaceIn(list, e) == CHOOSE n \in DOMAIN list : list[n] = e

\* The entries of all chains, bucket by bucket.
Walked == FlattenSeq([b \in 1 .. m_bucket_count |-> Chain(b - 1)])

BucketOf(k, count) == m_hash_fn[k] % count

\* The entry of the bucket that the key belongs to, if it is there.
Lookup(k) ==
  LET c == Chain(BucketOf(k, m_bucket_count))
      same == {n \in DOMAIN c : entries[c[n]].key = k}
  IN IF same = {} THEN NULL ELSE c[Min(same)]

\* _woort_hashmap_rehash_to_externed: the entries are taken bucket by bucket,
\* and each becomes the first of its new chain, before the one that was taken
\* last for the same bucket.
NewCount == IF m_bucket_count = 0 THEN InitialCapacity ELSE 2 * m_bucket_count

\* When the entries of new bucket b are taken.
TakenFor(b) == {n \in DOMAIN Walked : BucketOf(entries[Walked[n]].key, NewCount) = b}

LastTaken(S) == IF S = {} THEN NULL ELSE Walked[Max(S)]
FirstTaken(S) == IF S = {} THEN NULL ELSE Walked[Min(S)]

\* The entry that is taken at n, with its new links.
Relinked(n) ==
  LET same == TakenFor(BucketOf(entries[Walked[n]].key, NewCount))
  IN [entries[Walked[n]] EXCEPT !.next = LastTaken({m \in same : m < n}),
                                !.prev = FirstTaken({m \in same : m > n})]

Rehashed ==
  [buckets |-> [b \in 0 .. NewCount - 1 |-> LastTaken(TakenFor(b))],
   entries |-> [e \in DOMAIN entries |->
                  IF e \in ToSet(Walked)
                  THEN Relinked(PlaceIn(Walked, e))
                  ELSE entries[e]]]

MustGrow == m_size * 4 >= m_bucket_count * 3

\* The map as woort_hashmap_get_or_emplace goes on with it.
Grown ==
  IF MustGrow THEN Rehashed ELSE [buckets |-> m_buckets, entries |-> entries]

\* Bug: the bucket is computed before the map grows.
SlotInGrownEarly(k) == IF m_bucket_count = 0 THEN 0 ELSE BucketOf(k, m_bucket_count)

SlotInGrown(k) == BucketOf(k, Cardinality(DOMAIN Grown.buckets))

-----------------------------------------------------------------------------
\* What woort_hashmap_find, contains and remove look for.
Exists(k) == m_bucket_count # 0 /\ Lookup(k) # NULL

Ok == status = "ok"
Cleared == status = "cleared"

\* The first allocation fails: nothing has changed.
GrowthFails ==
  /\ Ok /\ MustGrow
  /\ UNCHANGED vars

\* woort_hashmap_insert when the key is there; or there is no memory for an entry.
\* The map has grown.
InsertNot(k) ==
  /\ Ok
  /\ Exists(k) \/ m_free_entries = NULL
  /\ m_buckets' = Grown.buckets
  /\ entries' = Grown.entries
  /\ UNCHANGED <<m_hash_fn, m_size, m_free_entries, content, intact, status>>

\* woort_hashmap_get_or_emplace when the key is there: the address of its value,
\* which the header promises, is not given, and the client writes the value through
\* a variable that was never set.
EmplaceExisting(k) ==
  /\ Ok /\ Exists(k)
  /\ m_buckets' = Grown.buckets
  /\ entries' = Grown.entries
  /\ status' = "wild"
  /\ UNCHANGED <<m_hash_fn, m_size, m_free_entries, content, intact>>

\* _woort_hashmap_get_free_entry_and_reset_prev: the entry that is taken, and
\* the free list behind it.
TakenEntry == IF m_free_entries = NULL THEN Len(entries) + 1 ELSE m_free_entries
FreeBehind == IF m_free_entries = NULL THEN NULL ELSE entries[m_free_entries].next

\* The new entry is the first of its chain.  (The one that was first keeps
\* NULL as its m_prev.)
PutFirst(e, k, v) ==
  LET b == SlotInGrown(k)
      new == [key |-> k, value |-> v, prev |-> NULL, next |-> Grown.buckets[b]]
  IN
  /\ m_buckets' = [Grown.buckets EXCEPT ![b] = e]
  /\ entries' = IF e \in DOMAIN entries
                  THEN [Grown.entries EXCEPT ![e] = new]
                  ELSE Append(Grown.entries, new)

\* Bug: m_size is not raised.
InsertUncounted(k, v) ==
  /\ Ok /\ ~Exists(k)
  /\ m_free_entries # NULL \/ Len(entries) < MaxEntries
  /\ PutFirst(TakenEntry, k, v)
  /\ m_free_entries' = FreeBehind
  /\ content' = [content EXCEPT ![k] = v]
  /\ UNCHANGED <<m_hash_fn, m_size, intact, status>>

Insert(k, v) ==
  /\ Ok /\ ~Exists(k)
  /\ m_free_entries # NULL \/ Len(entries) < MaxEntries
  /\ PutFirst(TakenEntry, k, v)
  /\ m_free_entries' = FreeBehind
  /\ m_size' = m_size + 1
  /\ content' = [content EXCEPT ![k] = v]
  /\ UNCHANGED <<m_hash_fn, intact, status>>

\* Bug: the entry that is dropped becomes the whole free list.
DroppedForgets(es, e) == [es EXCEPT ![e].next = NULL]

\* _woort_hashmap_drop_entry.
Dropped(es, e) == [es EXCEPT ![e].next = m_free_entries]

\* Bug: the entry behind keeps its m_prev.
UnlinkedForwards(e) ==
  [x \in DOMAIN entries |->
     IF x = entries[e].prev THEN [entries[x] EXCEPT !.next = entries[e].next]
     ELSE entries[x]]

Unlinked(e) ==
  [x \in DOMAIN entries |->
     IF x = entries[e].prev THEN [entries[x] EXCEPT !.next = entries[e].next]
     ELSE IF x = entries[e].next THEN [entries[x] EXCEPT !.prev = entries[e].prev]
     ELSE entries[x]]

\* An entry without m_prev is taken for the first of its bucket.  If it is not,
\* those before it are lost.
RemoveKey(k) ==
  /\ Ok /\ Exists(k)
  /\ LET e == Lookup(k)
         b == BucketOf(k, m_bucket_count)
     IN /\ m_buckets' = IF entries[e].prev = NULL
                          THEN [m_buckets EXCEPT ![b] = entries[e].next]
                          ELSE m_buckets
        /\ entries' = Dropped(Unlinked(e), e)
        /\ m_free_entries' = e
        /\ intact' = (intact /\ (entries[e].prev = NULL => m_buckets[b] = e))
  /\ m_size' = m_size - 1
  /\ content' = [content EXCEPT ![k] = NULL]
  /\ UNCHANGED <<m_hash_fn, status>>

\* find, contains and remove compute a bucket before there is one.
SearchNothing ==
  /\ Ok /\ m_bucket_count = 0
  /\ status' = "wild"
  /\ UNCHANGED <<m_hash_fn, table, content, intact>>

\* The entries of all chains go to the free list, but the buckets keep them.
Clear ==
  /\ Ok
  /\ LET free == Reverse(Walked) \o ListFrom(m_free_entries) IN
       /\ m_free_entries' = IF free = <<>> THEN NULL ELSE Head(free)
       /\ entries' = [e \in DOMAIN entries |->
            IF e \in ToSet(Walked)
            THEN LET n == PlaceIn(free, e)
                 IN [entries[e] EXCEPT !.next = IF n = Len(free) THEN NULL ELSE free[n + 1]]
            ELSE entries[e]]
       /\ status' = IF Walked = <<>> THEN "ok" ELSE "cleared"
  /\ m_size' = 0
  /\ content' = [k \in Keys |-> NULL]
  /\ UNCHANGED <<m_hash_fn, m_buckets, intact>>

\* The free list is freed, and what the buckets lead to; the map keeps the
\* pointers.
Deinit ==
  /\ Ok
  /\ LET freed == ToSet(ListFrom(m_free_entries))
                    \cup UNION {ToSet(Chain(b)) : b \in DOMAIN m_buckets}
     IN entries' = [e \in DOMAIN entries \ freed |-> entries[e]]
  /\ status' = "freed"
  /\ UNCHANGED <<m_hash_fn, m_buckets, m_size, m_free_entries, content, intact>>

\* The buckets of a cleared map lead to entries that the free list had already:
\* they are read after they were freed, and freed a second time.
DeinitCleared ==
  /\ Cleared
  /\ status' = "wild"
  /\ UNCHANGED <<m_hash_fn, table, content, intact>>

-----------------------------------------------------------------------------
Next ==
  \/ GrowthFails \/ SearchNothing \/ Clear \/ Deinit \/ DeinitCleared
  \/ \E k \in Keys : InsertNot(k) \/ EmplaceExisting(k) \/ RemoveKey(k)
  \/ \E k \in Keys, v \in Values : Insert(k, v)

Spec == Init /\ [][Next]_vars

-----------------------------------------------------------------------------
Entries == DOMAIN entries

TypeOK ==
  /\ m_hash_fn \in [Keys -> Hashes]
  /\ m_size \in Nat
  /\ Entries \subseteq 1 .. MaxEntries
  /\ Ok \/ Cleared =>
       /\ m_buckets \in [0 .. m_bucket_count - 1 -> Entries \cup {NULL}]
       /\ m_free_entries \in Entries \cup {NULL}
       /\ entries \in [Entries -> [key : Keys, value : Values,
                                  prev : Entries \cup {NULL}, next : Entries \cup {NULL}]]
  /\ content \in [Keys -> Values \cup {NULL}]
  /\ intact \in BOOLEAN
  /\ status \in {"ok", "cleared", "freed", "wild"}

\* What woort_hashmap_find gives: of a cleared map too.
Found(k) == IF Exists(k) THEN entries[Lookup(k)].value ELSE NULL

\* No key is found with a value of another key, of an earlier insertion, or
\* after its removal, across growth, collisions, removals and the reuse of
\* entries; and up to the first removal that cuts others off every key that was
\* inserted is found, and m_size counts them.  All that ends when a map that has
\* entries is cleared: nothing is in it, and still some key is found.
FindsContent ==
  /\ Ok =>
       /\ \A k \in Keys : Found(k) \in {content[k]} \cup (IF intact THEN {} ELSE {NULL})
       /\ intact => m_size = Cardinality({k \in Keys : content[k] # NULL})
  /\ Cleared =>
       /\ m_size = 0 /\ \A k \in Keys : content[k] = NULL
       /\ \E k \in Keys : Found(k) # NULL

\* The chains, whatever was cut off: no cycle, every entry in the bucket of its
\* key, a link back that is missing or right, and none of them free.  In a map that
\* was cleared while it had entries they have no cycle either, but all of their
\* entries are free.
ChainsAreSound ==
  \A b \in DOMAIN m_buckets :
    LET c == Chain(b)
        free == ToSet(ListFrom(m_free_entries))
    IN
      /\ Ok =>
           /\ IsInjective(c)
           /\ ToSet(c) \cap free = {}
           /\ \A n \in DOMAIN c :
                /\ BucketOf(entries[c[n]].key, m_bucket_count) = b
                /\ entries[c[n]].prev \in {NULL} \cup {c[m] : m \in {n - 1} \cap DOMAIN c}
      /\ Cleared => IsInjective(c) /\ ToSet(c) \subseteq free

\* Up to the first removal that cuts entries off: every entry that was allocated is
\* once in the free list or in one of the chains, so woort_hashmap_deinit frees
\* it, and once.  In a map that was cleared while it had entries the free list alone
\* has each of them once, and to deinit, which goes through the chains as well,
\* they are there twice (DeinitCleared).
EveryEntryOnce ==
  intact =>
    /\ Ok => LET all == ListFrom(m_free_entries) \o Walked
             IN IsInjective(all) /\ ToSet(all) = Entries
    /\ Cleared => LET free == ListFrom(m_free_entries)
                  IN IsInjective(free) /\ ToSet(free) = Entries
    /\ status = "freed" => Entries = {}

\* woort_hashmap.c:287, "First node in bucket.", says the removal of an entry without
\* m_prev.
NoPrevMeansFirst ==
  Ok => \A b \in DOMAIN m_buckets : \A n \in DOMAIN Chain(b) :
          entries[Chain(b)[n]].prev = NULL => n = 1
=============================================================================
