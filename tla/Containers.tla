----------------------------- MODULE Containers -----------------------------
(***************************************************************************)
(* The four containers side by side: HashMap, Vector, LinkList and BitSet. *)
(* They share nothing, so every behaviour uses one of them only, which is  *)
(* chosen in its initial state.                                            *)
(***************************************************************************)
EXTENDS LinkList

CONSTANTS
  Keys, InitialCapacity, Hashes, MaxEntries,           \* of HashMap
  Chunks, Sizes, VectorCapacity, Capacities, Junk,     \* of Vector
  WordBits, BitCounts, Indices                         \* of BitSet

VARIABLES
  container,
  map_hash_fn, map_buckets, map_size, map_free_entries, map_entries,
  map_content, map_intact, map_status,
  vec_data, vec_size, vec_capacity, vec_call, vec_failed, vec_status,
  set_bit_count, set_word_count, set_data, set_members

mapVars == <<map_hash_fn, map_buckets, map_size, map_free_entries, map_entries,
             map_content, map_intact, map_status>>
vecVars == <<vec_data, vec_size, vec_capacity, vec_call, vec_failed, vec_status>>
setVars == <<set_bit_count, set_word_count, set_data, set_members>>

H == INSTANCE HashMap WITH
  m_hash_fn <- map_hash_fn, m_buckets <- map_buckets, m_size <- map_size,
  m_free_entries <- map_free_entries, entries <- map_entries,
  content <- map_content, intact <- map_intact, status <- map_status

V == INSTANCE Vector WITH
  InitialCapacity <- VectorCapacity,
  m_data <- vec_data, m_size <- vec_size, m_capacity <- vec_capacity,
  call <- vec_call, failed <- vec_failed, status <- vec_status

B == INSTANCE BitSet WITH
  m_bit_count <- set_bit_count, m_word_count <- set_word_count,
  m_data <- set_data, members <- set_members

ASSUME ContainersAssumption ==
  /\ H!HashMapAssumption /\ V!VectorAssumption
  /\ LinkListAssumption /\ B!BitSetAssumption

ContainersInit ==
  /\ container \in {"hashmap", "vector", "linklist", "bitset"}
  /\ H!Init /\ V!Init /\ Init /\ B!Init

HashMapNext ==
  /\ container = "hashmap" /\ H!Next
  /\ UNCHANGED <<container, vars, vecVars, setVars>>

VectorNext ==
  /\ container = "vector" /\ V!Next
  /\ UNCHANGED <<container, vars, mapVars, setVars>>

LinkListNext ==
  /\ container = "linklist" /\ Next
  /\ UNCHANGED <<container, mapVars, vecVars, setVars>>

BitSetNext ==
  /\ container = "bitset" /\ B!Next
  /\ UNCHANGED <<container, vars, mapVars, vecVars>>

ContainersNext == HashMapNext \/ VectorNext \/ LinkListNext \/ BitSetNext

allVars == <<container, vars, mapVars, vecVars, setVars>>

ContainersSpec == ContainersInit /\ [][ContainersNext]_allVars

-----------------------------------------------------------------------------
\* Every variable of the containers has its type.
TypesOK == TypeOK /\ H!TypeOK /\ V!TypeOK /\ B!TypeOK

\* The properties of HashMap, Vector and BitSet.
FindsContent == H!FindsContent
ChainsAreSound == H!ChainsAreSound
EveryEntryOnce == H!EveryEntryOnce
VectorIsSequence == V!VectorIsSequence
VectorStaysInBlock == V!VectorStaysInBlock
BitSetIsSet == B!BitSetIsSet
=============================================================================
