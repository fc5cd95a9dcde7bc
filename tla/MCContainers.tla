---------------------------- MODULE MCContainers ----------------------------
(***************************************************************************)
(* Containers for TLC.  The keys of the hash map may be exchanged; its     *)
(* hash function is among the initial states.                              *)
(***************************************************************************)
EXTENDS Containers, TLC

MCChunks == {<<1>>, <<2>>, <<1, 2>>, <<2, 2, 1>>}

Symmetry == Permutations(Keys)

\* What is chosen for a container that is not used does not matter.
MCInit ==
  /\ ContainersInit
  /\ container # "hashmap" => map_hash_fn = [k \in Keys |-> 0]
  /\ container # "bitset" => set_bit_count = 0

MCSpec == MCInit /\ [][ContainersNext]_allVars
=============================================================================
