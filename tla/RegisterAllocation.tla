------------------------- MODULE RegisterAllocation -------------------------
(***************************************************************************)
(* woort_LIRFunction_register_allocation (woort_lir_function.c): a linear  *)
(* scan that gives every register of a function a place in its frame.      *)
(*                                                                         *)
(* The first loop walks over the instructions and marks from where to      *)
(* where each register is alive; the program is arbitrary, so which        *)
(* registers the next instruction names is chosen there.  The registers    *)
(* are then taken in the order of their first use: those of active_registers *)
(* that have expired give back their slot, and the register gets the first *)
(* slot whose bit is not set.  An allocation of memory may fail anywhere.  *)
(*                                                                         *)
(* A slot s is a bit; the register that has it gets the offset -s from the *)
(* frame pointer, or -s - 3 beyond the offsets INT8_MIN .. INT8_MIN + 2,   *)
(* which are reserved.  Registers of arguments get an offset when they are *)
(* asked for, while the function is built; the others are called value     *)
(* registers here, and only they take part in the scan.                    *)
(***************************************************************************)
EXTENDS Integers, FiniteSets, Sequences, SequencesExt

CONSTANTS
  MaxRegisters, \* bound: the registers there is memory for
  MaxArguments, \* bound: on the index of an argument
  INT8_MAX,
  INT16_MAX,
  MaxLirs,     \* bound: the length of the program
  MaxOperands  \* the number of registers an instruction names, three at most

ASSUME RegisterAllocationAssumption ==
  /\ MaxRegisters \in Nat /\ MaxArguments \in 0 .. INT16_MAX
  /\ INT8_MAX \in Nat /\ INT8_MAX >= 2
  /\ INT16_MAX \in Int /\ INT16_MAX > 3
  /\ MaxLirs \in Nat /\ MaxOperands \in Nat

\* A register is its number in m_register_list.
Registers == 1 .. MaxRegisters

NULL == 0

\* SIZE_MAX in m_alive_range: the register is not active.
SIZE_MAX == -1

INT8_MIN == -INT8_MAX - 1

\* The bits of the bit set.
Slots == 0 .. INT16_MAX - 4

VARIABLES
  pc,
  m_register_list,      \* the number of registers in it
  m_argument_registers, \* the register of each index, or NULL
  lir_count,    \* how many instructions have been marked
  first,        \* m_alive_range[0] of each register
  last,         \* m_alive_range[1]
  offset,       \* m_assigned_bp_offset
  registers,    \* the active ranges, sorted by their start
  i,            \* the index of the outer loop
  active,       \* active_registers
  j,            \* the index of the inner loop
  bitset,       \* the slots whose bit is set
  stack_usage   \* *out_stack_usage

built == <<m_register_list, m_argument_registers>>

vars == <<pc, built, lir_count, first, last, offset, registers, i, active, j, bitset, stack_usage>>

marks == <<lir_count, first, last>>

Init ==
  /\ pc = "build"
  /\ m_register_list = 0
  /\ m_argument_registers = <<>>
  /\ lir_count = 0
  /\ first = [r \in Registers |-> SIZE_MAX]
  /\ last = [r \in Registers |-> SIZE_MAX]
  /\ offset = [r \in Registers |-> INT16_MAX]
  /\ registers = <<>>
  /\ i = 1
  /\ active = <<>>
  /\ j = 1
  /\ bitset = {}
  /\ stack_usage = 0

Goto(from, to) == pc = from /\ pc' = to

-----------------------------------------------------------------------------
\* The new register is the last of the list.
NewRegister(offs) ==
  /\ m_register_list < MaxRegisters
  /\ m_register_list' = m_register_list + 1
  /\ offset' = [offset EXCEPT ![m_register_list + 1] = offs]

AllocRegister ==
  /\ Goto("build", "build")
  /\ NewRegister(INT16_MAX)
  /\ UNCHANGED <<m_argument_registers, marks, registers, i, active, j, bitset, stack_usage>>

\* The vector after the resize, in which the new elements are NULL.
ResizedFor(index) ==
  [k \in DOMAIN m_argument_registers \cup 1 .. index + 1 |->
     IF k \in DOMAIN m_argument_registers THEN m_argument_registers[k] ELSE NULL]

\* The argument has its register, or gets one, or there is no memory for it:
\* then the vector is longer all the same.
GetArgumentRegister(index) ==
  /\ Goto("build", "build")
  /\ \/ /\ ResizedFor(index)[index + 1] = NULL
        /\ NewRegister(-1 - index)
        /\ m_argument_registers' = [ResizedFor(index) EXCEPT ![index + 1] = m_register_list']
     \/ /\ m_argument_registers' = ResizedFor(index)
        /\ UNCHANGED <<m_register_list, offset>>
  /\ UNCHANGED <<marks, registers, i, active, j, bitset, stack_usage>>

\* woort_LIRFunction_register_allocation is called.
Begin ==
  /\ Goto("build", "mark")
  /\ UNCHANGED <<built, marks, offset, registers, i, active, j, bitset, stack_usage>>

-----------------------------------------------------------------------------
\* The next instruction names the registers in used.
MarkActiveRange(used) ==
  LET marked == {r \in used : offset[r] >= 0} IN
  /\ first' = [r \in Registers |->
                 IF r \in marked /\ first[r] = SIZE_MAX THEN lir_count ELSE first[r]]
  /\ last' = [r \in Registers |-> IF r \in marked THEN lir_count ELSE last[r]]

Mark(used) ==
  /\ Goto("mark", "mark")
  /\ lir_count < MaxLirs
  /\ used \subseteq 1 .. m_register_list
  /\ Cardinality(used) <= MaxOperands
  /\ MarkActiveRange(used)
  /\ lir_count' = lir_count + 1
  /\ UNCHANGED <<built, offset, registers, i, active, j, bitset, stack_usage>>

\* What qsort may make of the collected registers: those that start together
\* are in any order.
Sorted(s) == \A k, l \in DOMAIN s : k < l => first[s[k]] <= first[s[l]]

\* The registers that are used are collected and sorted, unless a push fails
\* or the bit set cannot be allocated.
Collect ==
  /\ \/ /\ Goto("mark", "scan")
        /\ registers' \in SetToSeqs({r \in Registers : first[r] # SIZE_MAX})
        /\ Sorted(registers')
     \/ /\ Goto("mark", "failed")
        /\ UNCHANGED registers
  /\ UNCHANGED <<built, marks, offset, i, active, j, bitset, stack_usage>>

-----------------------------------------------------------------------------
Scanning == pc = "scan" /\ i <= Len(registers)

\* Bug: the last element is dropped without taking the place of the expired one.
SwapRemoveDrops(s, k) == Front(s)

\* The last element takes the place of the one that goes.
SwapRemove(s, k) == Front(ReplaceAt(s, k, Last(s)))

\* woort_bitset_reset of the index computed from the offset of an expired
\* register.  The index is unsigned: that of a negative offset is out of range,
\* and nothing is reset.
ResetBit(offs) ==
  LET index == IF offs < INT8_MIN + 3 THEN offs + 3 ELSE offs IN
  bitset' = IF index \in Slots THEN bitset \ {index} ELSE bitset

\* Bug: the slot of a register that ends where the next one starts is given away.
HasExpiredEarly(r) == last[r] <= first[registers[i]]

HasExpired(r) == last[r] < first[registers[i]]

ExpireOne ==
  /\ Scanning /\ j <= Len(active)
  /\ HasExpired(active[j])
  /\ ResetBit(offset[active[j]])
  /\ active' = SwapRemove(active, j)
  /\ UNCHANGED <<pc, built, marks, offset, registers, i, j, stack_usage>>

\* Bug: the loop stays at an element that it keeps.
KeepOneStays ==
  /\ Scanning /\ j <= Len(active)
  /\ ~HasExpired(active[j])
  /\ UNCHANGED vars

KeepOne ==
  /\ Scanning /\ j <= Len(active)
  /\ ~HasExpired(active[j])
  /\ j' = j + 1
  /\ UNCHANGED <<pc, built, marks, offset, registers, i, active, bitset, stack_usage>>

\* Bug: the gap is left twice.
PlaceOfWide(s) == IF -s < INT8_MIN + 3 THEN -s - 6 ELSE -s

PlaceOf(s) == IF -s < INT8_MIN + 3 THEN -s - 3 ELSE -s

\* woort_bitset_find_first_unset.
FirstUnset(s) ==
  /\ s \in Slots \ bitset
  /\ \A k \in 0 .. s - 1 : k \in bitset

UsageWith(s) == IF stack_usage <= s THEN s + 1 ELSE stack_usage

\* The register gets its slot; the push onto active_registers may fail.
Assign ==
  /\ Scanning /\ j > Len(active)
  /\ \E s \in Slots :
       /\ FirstUnset(s)
       /\ stack_usage' = UsageWith(s)
       /\ offset' = [offset EXCEPT ![registers[i]] = PlaceOf(s)]
       /\ bitset' = bitset \cup {s}
  /\ \/ /\ active' = Append(active, registers[i])
        /\ i' = i + 1 /\ j' = 1
        /\ UNCHANGED pc
     \/ /\ Goto("scan", "failed")
        /\ UNCHANGED <<active, i, j>>
  /\ UNCHANGED <<built, marks, registers>>

NoSlot ==
  /\ Scanning /\ j > Len(active)
  /\ Slots \subseteq bitset
  /\ Goto("scan", "full")
  /\ UNCHANGED <<built, marks, offset, registers, i, active, j, bitset, stack_usage>>

Finish ==
  /\ Goto("scan", "done")
  /\ i > Len(registers)
  /\ UNCHANGED <<built, marks, offset, registers, i, active, j, bitset, stack_usage>>

-----------------------------------------------------------------------------
Scan == Collect \/ ExpireOne \/ KeepOne \/ Assign \/ NoSlot \/ Finish

Next ==
  \/ AllocRegister \/ Begin
  \/ \E index \in 0 .. MaxArguments - 1 : GetArgumentRegister(index)
  \/ \E used \in SUBSET Registers : Mark(used)
  \/ Scan

Spec == Init /\ [][Next]_vars

\* The thread that runs the function goes on running it.
FairSpec == Spec /\ WF_vars(Scan)

-----------------------------------------------------------------------------
TypeOK ==
  /\ pc \in {"build", "mark", "scan", "done", "failed", "full"}
  /\ m_register_list \in 0 .. MaxRegisters
  /\ m_argument_registers \in Seq(Registers \cup {NULL})
  /\ Len(m_argument_registers) <= MaxArguments
  /\ lir_count \in Nat
  /\ first \in [Registers -> Nat \cup {SIZE_MAX}]
  /\ last \in [Registers -> Nat \cup {SIZE_MAX}]
  /\ offset \in [Registers -> -INT16_MAX - 1 .. INT16_MAX]
  /\ registers \in Seq(Registers)
  /\ i \in Nat \ {0}
  /\ active \in Seq(Registers)
  /\ j \in Nat \ {0}
  /\ bitset \subseteq Slots
  /\ stack_usage \in Nat

\* The value registers that have been given their place.
Placed == {registers[k] : k \in 1 .. i - 1}

AliveTogether(r, q) == first[r] <= last[q] /\ first[q] <= last[r]

\* Two value registers that are alive at the same instruction never share a
\* place, whichever expired before and however qsort orders equal starts.
NoInterference ==
  \A r, q \in Placed : r # q /\ AliveTogether(r, q) => offset[r] # offset[q]

\* When a register gets its slot, active_registers holds those that are still
\* alive, each once: removing an element while walking skips and loses none.
ActiveIsAlive ==
  Scanning /\ j > Len(active) =>
    /\ ToSet(active) = {r \in Placed : ~HasExpired(r)}
    /\ IsInjective(active)

\* No value register lies at the offsets that emitted code uses for itself
\* (the assertion at woort_lir_function.c:374).
ReservedIsFree == \A r \in Placed : offset[r] \notin INT8_MIN .. INT8_MIN + 2

\* The size that is reserved for the frame is the number of places in it.
UsageCountsPlaces == stack_usage = Cardinality({offset[r] : r \in Placed}) \/ pc = "failed"

\* They lie in the frame of that size, but for those behind the reserved offsets:
\* *out_stack_usage does not count these, and so three cells of such a frame are
\* outside of what is asked for (woort_lir_function.c:410-416).
UsageReachesPlaces ==
  pc # "failed" =>
    \A r \in Placed : LET gap == IF offset[r] < INT8_MIN THEN 3 ELSE 0 IN
                        offset[r] <= 0 /\ -offset[r] < stack_usage + gap

\* The register of an argument keeps the offset -1 - index, whichever instructions
\* name it; no two indices share a register.  The code calls that offset "TBD"
\* (woort_lir_function.c:171): it is not where woort_opcode.h:19-20 has the
\* argument, at bp + 3 + index, and a value register in slot index + 1 has the
\* same one, which no property here excludes.
ArgumentsStay ==
  \A k \in DOMAIN m_argument_registers :
    LET r == m_argument_registers[k] IN
      r # NULL => r <= m_register_list /\ offset[r] = -k /\ r \notin Placed

\* What the scan promises: value registers that are alive together are apart and
\* leave the reserved offsets free, as many cells are asked for as they have
\* places, which reach no further than that and the gap; and it leaves the
\* registers of arguments alone.
ValuesHavePlaces ==
  /\ NoInterference /\ ReservedIsFree
  /\ UsageCountsPlaces /\ UsageReachesPlaces
  /\ ArgumentsStay

\* The scan ends, however the walk over active_registers shrinks the vector
\* it walks over.
ScanEnds == pc = "scan" ~> pc \in {"done", "failed", "full"}

-----------------------------------------------------------------------------
\* "Expire old intervals.", says the code at woort_lir_function.c:364: the slot
\* of an expired register is free again, so that an allocation is refused only
\* when every slot belongs to a register that is alive.
RefusedOnlyWhenFull ==
  pc = "full" =>
    \A s \in Slots : \E r \in ToSet(active) : offset[r] = PlaceOf(s)
=============================================================================
