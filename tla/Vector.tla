------------------------------- MODULE Vector -------------------------------
(***************************************************************************)
(* woort_vector.c: an array that grows by doubling.                        *)
(*                                                                         *)
(* m_data is the block that realloc gave last, <<>> for NULL; Len(m_data)  *)
(* is its real size, which m_capacity need not be: woort_vector_reserve    *)
(* raises m_capacity first, and a reallocation that fails leaves it so.    *)
(* The callers of emplace_back and resize write to what they get at once.  *)
(* When that is outside the block, m_data has the cells behind it too, up  *)
(* to the last one that was given out, and no call after it is followed.   *)
(***************************************************************************)
EXTENDS Integers, Sequences

CONSTANTS
  Values,
  Chunks,          \* what is pushed at once
  Sizes,           \* what is reserved and resized to
  InitialCapacity, \* 8
  Capacities,      \* bound: the doublings of it there is memory for
  Junk             \* what realloc leaves in a cell

VectorAssumption ==
  /\ Chunks \subseteq Seq(Values)
  /\ Sizes \subseteq Nat
  /\ Capacities \subseteq Nat \ {0}
  /\ \A c \in Capacities : InitialCapacity <= c
  /\ \A c \in Capacities \ {InitialCapacity} : \E d \in Capacities : c = 2 * d

VARIABLES
  m_data,
  m_size,
  m_capacity,
  call,
  failed,  \* the last reallocation failed
  status   \* "ok", "freed" by deinit, or "wild" when a cell outside the
           \* block was given out

vars == <<m_data, m_size, m_capacity, call, failed, status>>

Init ==
  /\ m_data = <<>>
  /\ m_size = 0
  /\ m_capacity = 0
  /\ call = <<"init">>
  /\ failed = FALSE
  /\ status = "ok"

Ok == status = "ok"

-----------------------------------------------------------------------------
\* woort_vector_reserve doubles the capacity up to the first that holds n.
Holding(n) == {c \in Capacities : n <= c}

CapacityFor(n) ==
  IF n <= m_capacity THEN m_capacity
  ELSE CHOOSE c \in Holding(n) : \A d \in Holding(n) : c <= d

BlockFor(n) ==
  IF n <= m_capacity THEN m_data
  ELSE [k \in 1 .. CapacityFor(n) |-> IF k \in DOMAIN m_data THEN m_data[k] ELSE Junk]

\* The call finds room for n elements, or believes so.
Reserve(n) ==
  /\ Ok
  /\ n <= m_capacity \/ Holding(n) # {}
  /\ m_capacity' = CapacityFor(n)
  /\ failed' = (failed /\ n <= m_capacity)

ReserveOnly(n) ==
  /\ Reserve(n)
  /\ m_data' = BlockFor(n)
  /\ UNCHANGED <<m_size, call, status>>

\* realloc fails; so does the call that asked for room.
ReserveFails(n) ==
  /\ Ok
  /\ n > m_capacity /\ Holding(n) # {}
  /\ m_capacity' = CapacityFor(n)
  /\ failed' = TRUE
  /\ call' = <<"refused">>
  /\ UNCHANGED <<m_data, m_size, status>>

\* The block b with the cells behind it, up to end.
Covering(b, end) ==
  [k \in 1 .. IF end <= Len(b) THEN Len(b) ELSE end |-> IF k \in DOMAIN b THEN b[k] ELSE Junk]

StatusAfter(b, end) == IF end <= Len(b) THEN status ELSE "wild"

\* Bug: room is made for the elements that are there already.
NeededForGone(s) == m_size

NeededFor(s) == m_size + Len(s)

PushBack(s) ==
  LET n == NeededFor(s)
      end == m_size + Len(s)
      b == Covering(BlockFor(n), end)
  IN
  /\ Reserve(n)
  /\ m_data' = [k \in DOMAIN b |->
                  IF k \in m_size + 1 .. end THEN s[k - m_size] ELSE b[k]]
  /\ m_size' = end
  /\ call' = <<"push_back", s>>
  /\ status' = StatusAfter(BlockFor(n), end)

Resize(n) ==
  /\ Reserve(n)
  /\ m_data' = Covering(BlockFor(n), n)
  /\ m_size' = n
  /\ call' = <<"resize", n>>
  /\ status' = StatusAfter(BlockFor(n), n)

\* Bug: one element too few is moved.
ErasedShort(k) ==
  [c \in DOMAIN m_data |-> IF c \in k + 1 .. m_size - 2 THEN m_data[c + 1] ELSE m_data[c]]

\* The block after the elements behind index k were moved.
Erased(k) ==
  [c \in DOMAIN m_data |-> IF c \in k + 1 .. m_size - 1 THEN m_data[c + 1] ELSE m_data[c]]

EraseAt(k) ==
  /\ Ok
  /\ k < m_size
  /\ m_data' = Erased(k)
  /\ m_size' = m_size - 1
  /\ call' = <<"erase", k + 1>>
  /\ UNCHANGED <<m_capacity, failed, status>>

EraseOutOfBounds ==
  /\ Ok
  /\ call' = <<"refused">>
  /\ UNCHANGED <<m_data, m_size, m_capacity, failed, status>>

Clear ==
  /\ Ok
  /\ m_size' = 0
  /\ call' = <<"clear">>
  /\ UNCHANGED <<m_data, m_capacity, failed, status>>

MoveOut ==
  /\ Ok
  /\ call' = <<"move_out", SubSeq(m_data, 1, m_size)>>
  /\ m_size' = 0
  /\ m_capacity' = 0
  /\ m_data' = <<>>
  /\ failed' = FALSE
  /\ UNCHANGED status

\* m_size and m_capacity stay as they are.
Deinit ==
  /\ Ok
  /\ m_data' = <<>>
  /\ status' = "freed"
  /\ call' = <<"clear">>
  /\ UNCHANGED <<m_size, m_capacity, failed>>

-----------------------------------------------------------------------------
Next ==
  \/ \E s \in Chunks : PushBack(s) \/ ReserveFails(NeededFor(s))
  \/ \E n \in Sizes : ReserveOnly(n) \/ Resize(n) \/ ReserveFails(n)
  \/ \E k \in 0 .. m_size - 1 : EraseAt(k)
  \/ EraseOutOfBounds \/ Clear \/ MoveOut \/ Deinit

Spec == Init /\ [][Next]_vars

-----------------------------------------------------------------------------
TypeOK ==
  /\ m_data \in Seq(Values \cup {Junk})
  /\ m_size \in Nat
  /\ m_capacity \in Capacities \cup {0}
  /\ failed \in BOOLEAN
  /\ status \in {"ok", "freed", "wild"}

\* What woort_vector_at gives for each index.
At(k) == m_data[k + 1]

Contents == IF status = "freed" THEN <<>> ELSE [k \in 1 .. m_size |-> At(k - 1)]

Abstract == INSTANCE Sequence WITH
  seq <- Contents,
  Values <- Values \cup {Junk}

\* The vector is a sequence: growing, moving elements and failing calls lose
\* and change nothing.  (The call that goes outside the block still does what it
\* says; VectorStaysInBlock says when that can be.)
VectorIsSequence == Abstract!Spec

\* Every element is inside the block, until after a reallocation that failed a
\* call believes the m_capacity which that left behind and goes outside.
VectorStaysInBlock ==
  /\ Ok => m_size <= Len(m_data)
  /\ status = "wild" => failed
=============================================================================
