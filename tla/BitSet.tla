------------------------------- MODULE BitSet -------------------------------
(***************************************************************************)
(* woort_bitset.c: a set of bits, kept in words of which the last may be   *)
(* in use only in part.  A word is the set of its bits that are 1.         *)
(***************************************************************************)
EXTENDS Integers

CONSTANTS
  WordBits,  \* 64
  BitCounts, \* what init is called with
  Indices    \* what set, reset and test are called with

BitSetAssumption ==
  /\ WordBits \in Nat \ {0}
  /\ BitCounts \subseteq Nat
  /\ Indices \subseteq Nat

VARIABLES
  m_bit_count,
  m_word_count,
  m_data,      \* from 0 to m_word_count - 1
  members      \* the bits the client has set and not reset

vars == <<m_bit_count, m_word_count, m_data, members>>

Bits == 0 .. WordBits - 1

\* The answer of a search that finds nothing.
None == -1

Init ==
  /\ m_bit_count \in BitCounts
  /\ m_word_count = (m_bit_count + WordBits - 1) \div WordBits
  /\ m_data = [w \in 0 .. m_word_count - 1 |-> {}]
  /\ members = {}

-----------------------------------------------------------------------------
SetBit(index) ==
  /\ index < m_bit_count
  /\ m_data' = [m_data EXCEPT ![index \div WordBits] = @ \cup {index % WordBits}]
  /\ members' = members \cup {index}
  /\ UNCHANGED <<m_bit_count, m_word_count>>

ResetBit(index) ==
  /\ index < m_bit_count
  /\ m_data' = [m_data EXCEPT ![index \div WordBits] = @ \ {index % WordBits}]
  /\ members' = members \ {index}
  /\ UNCHANGED <<m_bit_count, m_word_count>>

\* An index that is out of range is refused.
Refuse(index) ==
  /\ index >= m_bit_count
  /\ UNCHANGED vars

Deinit ==
  /\ m_data' = [w \in {} |-> {}]
  /\ m_bit_count' = 0
  /\ m_word_count' = 0
  /\ members' = {}

Test(index) == index < m_bit_count /\ index % WordBits \in m_data[index \div WordBits]

\* The words that are not UINT64_MAX.
Gaps == {w \in 0 .. m_word_count - 1 : m_data[w] # Bits}

Least(S) == CHOOSE x \in S : \A y \in S : x <= y

\* Bug: the bits of the last word that are not in use are found.
FirstUnsetAnywhere ==
  IF Gaps = {} THEN None
  ELSE LET w == Least(Gaps) IN w * WordBits + Least(Bits \ m_data[w])

\* woort_bitset_find_first_unset: the first gap decides.
FirstUnset ==
  IF Gaps = {} THEN None
  ELSE LET w == Least(Gaps)
           index == w * WordBits + Least(Bits \ m_data[w])
       IN IF index < m_bit_count THEN index ELSE None

-----------------------------------------------------------------------------
Next ==
  \/ \E index \in Indices : SetBit(index) \/ ResetBit(index) \/ Refuse(index)
  \/ Deinit

Spec == Init /\ [][Next]_vars

-----------------------------------------------------------------------------
TypeOK ==
  /\ m_bit_count \in Nat
  /\ m_word_count \in Nat
  /\ m_data \in [0 .. m_word_count - 1 -> SUBSET Bits]
  /\ members \in SUBSET Indices

\* The words hold the set the client means, and the search finds the least bit
\* that is not in it, or none when there is none, whatever is left of the last
\* word.
BitSetIsSet ==
  LET unset == (0 .. m_bit_count - 1) \ members IN
  /\ \A index \in Indices : Test(index) <=> index \in members
  /\ FirstUnset = IF unset = {} THEN None ELSE Least(unset)
=============================================================================
