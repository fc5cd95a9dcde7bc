---------------------- MODULE RegisterAllocationProofs ----------------------
(***************************************************************************)
(* The linear scan gives value registers that are alive together different *)
(* places, for any program, any number of registers and any limits.        *)
(***************************************************************************)
EXTENDS RegisterAllocation, FiniteSetTheorems, SequenceTheorems, TLAPS

\* A range that was begun is a range.
RangesGrow ==
  \A r \in Registers : first[r] # SIZE_MAX => first[r] \in Nat /\ last[r] \in Nat

\* Before the scan nothing is placed; then the registers are in order.
InOrder ==
  /\ pc \in {"build", "mark"} => registers = <<>> /\ active = <<>> /\ bitset = {} /\ i = 1
  /\ i <= Len(registers) + 1
  /\ IsInjective(registers)
  /\ Sorted(registers)
  /\ \A k \in DOMAIN registers : first[registers[k]] # SIZE_MAX

\* The active registers have different places, whose bits are set.
ActiveApart ==
  /\ ToSet(active) \subseteq Placed
  /\ IsInjective(active)
  /\ \A r \in ToSet(active) : \E s \in bitset : offset[r] = PlaceOf(s)
  /\ \A r, q \in ToSet(active) : r # q => offset[r] # offset[q]

PlacedInSlots == \A r \in Placed : \E s \in Slots : offset[r] = PlaceOf(s)

\* Who is no longer active is dead for all that are still to come.
ExpiredForGood ==
  \A r \in Placed \ ToSet(active) :
    \A k \in DOMAIN registers : k >= i => last[r] < first[registers[k]]

\* The inner loop has passed only registers that are alive.
Walked ==
  Scanning => \A k \in DOMAIN active : k < j => ~HasExpired(active[k])

\* No instruction has begun the range of an argument, nor that of any register
\* before the scan.
ArgumentsKept ==
  /\ pc = "build" => \A r \in Registers : first[r] = SIZE_MAX
  /\ \A k \in DOMAIN m_argument_registers :
       LET r == m_argument_registers[k] IN
         r # NULL => r <= m_register_list /\ offset[r] = -k /\ first[r] = SIZE_MAX

\* The slots below the usage are those that ever were given to a register.
UsageIsTight ==
  pc # "failed" =>
    /\ pc \in {"build", "mark"} => stack_usage = 0
    /\ stack_usage = 0 \/ stack_usage - 1 \in Slots
    /\ bitset \subseteq 0 .. stack_usage - 1
    /\ \A r \in Placed : \E s \in 0 .. stack_usage - 1 : offset[r] = PlaceOf(s)
    /\ \A s \in 0 .. stack_usage - 1 : \E r \in Placed : offset[r] = PlaceOf(s)

IInv ==
  /\ TypeOK
  /\ RangesGrow
  /\ InOrder
  /\ ActiveApart
  /\ PlacedInSlots
  /\ ExpiredForGood
  /\ Walked
  /\ NoInterference
  /\ ArgumentsKept
  /\ UsageIsTight

-----------------------------------------------------------------------------
\* Different slots are different places, none of them reserved.
LEMMA Places ==
  /\ \A s, k \in Slots : PlaceOf(s) = PlaceOf(k) => s = k
  /\ \A s \in Slots : /\ PlaceOf(s) \notin INT8_MIN .. INT8_MIN + 2
                      /\ PlaceOf(s) \in -INT16_MAX - 1 .. INT16_MAX
BY RegisterAllocationAssumption DEF Slots, PlaceOf, INT8_MIN

\* What expires frees at most its own slot.
LEMMA ResetFreesOwn ==
  ASSUME NEW s \in Slots, NEW k \in Slots, bitset \subseteq Slots,
         k \in bitset, PlaceOf(k) # PlaceOf(s), ResetBit(PlaceOf(s))
  PROVE  k \in bitset'
BY RegisterAllocationAssumption DEF Slots, PlaceOf, INT8_MIN, ResetBit

\* Exchanging an element with the last one and shortening removes that element
\* and no other, and moves nothing before it.
LEMMA SwapRemoved ==
  ASSUME NEW S, NEW s \in Seq(S), NEW k \in DOMAIN s, IsInjective(s)
  PROVE  /\ SwapRemove(s, k) \in Seq(S)
         /\ ToSet(SwapRemove(s, k)) = ToSet(s) \ {s[k]}
         /\ IsInjective(SwapRemove(s, k))
         /\ \A m \in DOMAIN SwapRemove(s, k) : m < k => SwapRemove(s, k)[m] = s[m]
         /\ DOMAIN SwapRemove(s, k) \subseteq DOMAIN s
<1> DEFINE r == SwapRemove(s, k)
           n == Len(s)
           t == [s EXCEPT ![k] = s[n]]
<1>1. n \in Nat \ {0} /\ DOMAIN s = 1 .. n /\ k \in 1 .. n /\ \A m \in 1 .. n : s[m] \in S
  OBVIOUS
<1>2. /\ t \in Seq(S) /\ Len(t) = n
      /\ \A m \in 1 .. n : t[m] = IF m = k THEN s[n] ELSE s[m]
  BY <1>1
<1>3. r = SubSeq(t, 1, n - 1)
  BY <1>2 DEF SwapRemove, Front, ReplaceAt, Last
<1> HIDE DEF r, t, n
<1>4. /\ r \in Seq(S) /\ Len(r) = n - 1 /\ DOMAIN r = 1 .. n - 1
      /\ \A m \in 1 .. n - 1 : r[m] = IF m = k THEN s[n] ELSE s[m]
  <2>1. \A m \in 1 .. n - 1 : t[m] \in S
    BY <1>1, <1>2
  <2>2. /\ r \in Seq(S) /\ Len(r) = IF 1 <= n - 1 THEN n - 1 - 1 + 1 ELSE 0
        /\ \A m \in 1 .. n - 1 - 1 + 1 : r[m] = t[1 + m - 1]
    BY <1>1, <1>3, <2>1, SubSeqProperties
  <2> QED BY <1>1, <1>2, <2>2
<1>5. \A m, l \in 1 .. n : s[m] = s[l] => m = l
  BY <1>1 DEF IsInjective
<1>6. IsInjective(r)
  BY <1>1, <1>4, <1>5 DEF IsInjective
<1>7. ASSUME NEW m \in 1 .. n, m # k
      PROVE  \E l \in 1 .. n - 1 : r[l] = s[m]
  <2>1. CASE m = n
    BY <1>1, <1>4, <1>7, <2>1
  <2>2. CASE m # n
    BY <1>1, <1>4, <1>7, <2>2
  <2> QED BY <2>1, <2>2
<1>8. \A l \in 1 .. n - 1 : r[l] \in ToSet(s) /\ r[l] # s[k]
  BY <1>1, <1>4, <1>5 DEF ToSet
<1>9. ToSet(r) = ToSet(s) \ {s[k]}
  <2>1. ASSUME NEW x \in ToSet(s) \ {s[k]}
        PROVE  x \in ToSet(r)
    <3>1. PICK m \in 1 .. n : s[m] = x
      BY <1>1 DEF ToSet
    <3>2. PICK l \in 1 .. n - 1 : r[l] = x
      BY <1>7, <3>1, <2>1
    <3> QED BY <1>4, <3>2 DEF ToSet
  <2>2. ASSUME NEW x \in ToSet(r)
        PROVE  x \in ToSet(s) \ {s[k]}
    BY <1>4, <1>8 DEF ToSet
  <2> QED BY <2>1, <2>2
<1> QED BY <1>1, <1>4, <1>6, <1>9 DEF r

LEMMA Appended ==
  ASSUME NEW S, NEW s \in Seq(S), NEW x \in S, IsInjective(s), x \notin ToSet(s)
  PROVE  ToSet(Append(s, x)) = ToSet(s) \cup {x} /\ IsInjective(Append(s, x))
<1> DEFINE t == Append(s, x)
           n == Len(s)
<1>1. n \in Nat /\ DOMAIN s = 1 .. n
  OBVIOUS
<1>2. DOMAIN t = 1 .. n + 1 /\ t[n + 1] = x /\ \A k \in 1 .. n : t[k] = s[k]
  OBVIOUS
<1> HIDE DEF t, n
<1>3. \A k \in 1 .. n : s[k] # x
  BY <1>1 DEF ToSet
<1>4. \A k, l \in 1 .. n : s[k] = s[l] => k = l
  BY <1>1 DEF IsInjective
<1>5. IsInjective(t)
  BY <1>1, <1>2, <1>3, <1>4 DEF IsInjective
<1>6. \A k \in 1 .. n + 1 : k \in 1 .. n \/ k = n + 1
  BY <1>1
<1>7. ToSet(t) = ToSet(s) \cup {x}
  <2>1. ASSUME NEW y \in ToSet(t) PROVE y \in ToSet(s) \cup {x}
    BY <1>1, <1>2, <1>6 DEF ToSet
  <2>2. ASSUME NEW y \in ToSet(s) \cup {x} PROVE y \in ToSet(t)
    <3>1. CASE y = x
      BY <1>1, <1>2, <3>1 DEF ToSet
    <3>2. CASE y \in ToSet(s)
      BY <1>1, <1>2, <3>2 DEF ToSet
    <3> QED BY <3>1, <3>2
  <2> QED BY <2>1, <2>2
<1> QED BY <1>5, <1>7 DEF t

-----------------------------------------------------------------------------
LEMMA Initially == Init => IInv
<1> SUFFICES ASSUME Init PROVE IInv
  OBVIOUS
<1> USE DEF Init
<1>1. TypeOK
  <2>1. offset \in [Registers -> -INT16_MAX - 1 .. INT16_MAX]
    BY RegisterAllocationAssumption
  <2> QED BY <2>1, RegisterAllocationAssumption DEF TypeOK
<1>2. RangesGrow /\ Walked BY DEF RangesGrow, Walked, Scanning
<1>3. InOrder BY DEF InOrder, IsInjective, Sorted
<1>4. Placed = {} /\ ToSet(active) = {}
  BY DEF Placed, ToSet
<1>5. ActiveApart BY <1>4 DEF ActiveApart, IsInjective
<1>6. PlacedInSlots /\ ExpiredForGood /\ NoInterference
  BY <1>4 DEF PlacedInSlots, ExpiredForGood, NoInterference
<1>7. ArgumentsKept /\ UsageIsTight
  BY <1>4 DEF ArgumentsKept, UsageIsTight
<1> QED BY <1>1, <1>2, <1>3, <1>5, <1>6, <1>7 DEF IInv

\* The vector of arguments after a resize.
LEMMA Resized ==
  ASSUME TypeOK, NEW index \in 0 .. MaxArguments - 1
  PROVE  /\ ResizedFor(index) \in Seq(Registers \cup {NULL})
         /\ Len(ResizedFor(index)) <= MaxArguments
         /\ index + 1 \in DOMAIN ResizedFor(index)
         /\ \A k \in DOMAIN ResizedFor(index) :
              \/ ResizedFor(index)[k] = NULL
              \/ k \in DOMAIN m_argument_registers /\ ResizedFor(index)[k] = m_argument_registers[k]
<1> DEFINE t == ResizedFor(index)
           n == IF Len(m_argument_registers) <= index THEN index + 1 ELSE Len(m_argument_registers)
<1>1. /\ Len(m_argument_registers) \in Nat /\ DOMAIN m_argument_registers = 1 .. Len(m_argument_registers)
      /\ \A k \in DOMAIN m_argument_registers : m_argument_registers[k] \in Registers \cup {NULL}
      /\ Len(m_argument_registers) <= MaxArguments /\ MaxArguments \in Nat
  BY RegisterAllocationAssumption DEF TypeOK
<1>2. n \in Nat /\ n <= MaxArguments /\ DOMAIN m_argument_registers \cup 1 .. index + 1 = 1 .. n
      /\ index + 1 \in 1 .. n
  BY <1>1
<1> HIDE DEF n
<1>3. t = [k \in 1 .. n |->
             IF k \in DOMAIN m_argument_registers THEN m_argument_registers[k] ELSE NULL]
  BY <1>2 DEF ResizedFor
<1>4. t \in [1 .. n -> Registers \cup {NULL}]
  BY <1>1, <1>3
<1>5. t \in Seq(Registers \cup {NULL}) /\ DOMAIN t = 1 .. n /\ Len(t) = n
  BY <1>2, <1>4
<1> QED BY <1>2, <1>3, <1>5

\* What only concerns the list of registers and the arguments.
LEMMA BuildStep ==
  ASSUME IInv,
         AllocRegister \/ Begin \/ \E index \in 0 .. MaxArguments - 1 : GetArgumentRegister(index)
  PROVE  IInv'
<1> USE DEF AllocRegister, Begin, GetArgumentRegister, Goto, IInv, marks, built
<1> DEFINE new == m_register_list + 1
<1>1. /\ pc = "build" /\ pc' \in {"build", "mark"} /\ registers = <<>> /\ active = <<>>
      /\ i = 1 /\ bitset = {} /\ stack_usage = 0
      /\ UNCHANGED <<lir_count, first, last, registers, i, active, j, bitset, stack_usage>>
  BY DEF InOrder, UsageIsTight
<1>2. /\ m_register_list \in Nat
      /\ \/ UNCHANGED <<m_register_list, offset>>
         \/ /\ new \in Registers /\ m_register_list' = new
            /\ \E offs \in {INT16_MAX} \cup {-1 - index : index \in 0 .. MaxArguments - 1} :
                 offset' = [offset EXCEPT ![new] = offs]
  <2>1. m_register_list \in 0 .. MaxRegisters /\ MaxRegisters \in Nat
    BY RegisterAllocationAssumption DEF TypeOK
  <2>2. m_register_list < MaxRegisters => new \in Registers
    BY <2>1 DEF Registers
  <2>3. CASE AllocRegister
    <3>1. /\ new \in Registers /\ m_register_list' = new
          /\ offset' = [offset EXCEPT ![new] = INT16_MAX]
      BY <2>2, <2>3 DEF NewRegister
    <3> DEFINE Offsets == {INT16_MAX} \cup {-1 - index : index \in 0 .. MaxArguments - 1}
    <3>2. INT16_MAX \in Offsets
      OBVIOUS
    <3> HIDE DEF AllocRegister, Begin, GetArgumentRegister, Offsets, new, IInv
    <3>3. \E offs \in Offsets : offset' = [offset EXCEPT ![new] = offs]
      BY <3>1, <3>2
    <3>4. m_register_list \in Nat
      BY <2>1
    <3> QED BY <3>1, <3>3, <3>4, Zenon DEF Offsets
  <2>4. CASE Begin
    BY <2>1, <2>4
  <2>5. ASSUME NEW index \in 0 .. MaxArguments - 1, GetArgumentRegister(index)
        PROVE  \/ UNCHANGED <<m_register_list, offset>>
               \/ /\ new \in Registers /\ m_register_list' = new
                  /\ offset' = [offset EXCEPT ![new] = -1 - index]
    BY <2>2, <2>5 DEF NewRegister
  <2> HIDE DEF AllocRegister, Begin, GetArgumentRegister
  <2> QED BY <2>1, <2>3, <2>4, <2>5
<1>3. /\ m_argument_registers' \in Seq(Registers \cup {NULL})
      /\ Len(m_argument_registers') <= MaxArguments
      /\ \A k \in DOMAIN m_argument_registers' :
           \/ m_argument_registers'[k] = NULL
           \/ k \in DOMAIN m_argument_registers /\ m_argument_registers'[k] = m_argument_registers[k]
           \/ /\ m_argument_registers'[k] = new /\ m_register_list' = new /\ new \in Registers
              /\ k \in Nat /\ offset' = [offset EXCEPT ![new] = -k]
  <2>1. CASE m_argument_registers' = m_argument_registers
    BY <2>1 DEF TypeOK
  <2>2. ASSUME NEW index \in 0 .. MaxArguments - 1, GetArgumentRegister(index)
        PROVE  <1>3!1 /\ <1>3!2 /\ <1>3!3
    <3> DEFINE t == ResizedFor(index)
               u == [t EXCEPT ![index + 1] = new]
    <3>1. /\ t \in Seq(Registers \cup {NULL}) /\ Len(t) <= MaxArguments
          /\ index + 1 \in DOMAIN t
          /\ \A k \in DOMAIN t :
               \/ t[k] = NULL
               \/ k \in DOMAIN m_argument_registers /\ t[k] = m_argument_registers[k]
      BY Resized
    <3> HIDE DEF t
    <3>2. CASE m_argument_registers' = t
      BY <3>1, <3>2
    <3>3. CASE NewRegister(-1 - index) /\ m_argument_registers' = u
      <4>1. new \in Registers /\ m_register_list' = new
            /\ offset' = [offset EXCEPT ![new] = -(index + 1)]
        <5>1. -1 - index = -(index + 1)
          OBVIOUS
        <5>2. offset' = [offset EXCEPT ![new] = -1 - index] /\ m_register_list' = new
          BY <3>3 DEF NewRegister
        <5>3. new \in Registers
          BY <3>3, RegisterAllocationAssumption DEF TypeOK, NewRegister, Registers
        <5> QED BY <5>1, <5>2, <5>3
      <4>2. /\ u \in Seq(Registers \cup {NULL}) /\ Len(u) = Len(t) /\ DOMAIN u = DOMAIN t
            /\ \A k \in DOMAIN t : u[k] = IF k = index + 1 THEN new ELSE t[k]
        BY <3>1, <4>1
      <4> HIDE DEF u
      <4>3. \A k \in DOMAIN u :
              \/ u[k] = NULL
              \/ k \in DOMAIN m_argument_registers /\ u[k] = m_argument_registers[k]
              \/ u[k] = new /\ k = index + 1
        BY <3>1, <4>2
      <4>4. index + 1 \in Nat
        OBVIOUS
      <4>5. m_argument_registers' = u /\ Len(u) <= MaxArguments
        BY <3>1, <3>3, <4>2
      <4> QED BY <4>1, <4>2, <4>3, <4>4, <4>5
    <3> QED BY <2>2, <3>2, <3>3 DEF NewRegister, t
  <2> QED BY <2>1, <2>2
<1>4. TypeOK'
  <2>1. offset' \in [Registers -> -INT16_MAX - 1 .. INT16_MAX]
    <3>1. {INT16_MAX} \cup {-1 - index : index \in 0 .. MaxArguments - 1} \subseteq -INT16_MAX - 1 .. INT16_MAX
      BY RegisterAllocationAssumption
    <3> QED BY <1>2, <3>1 DEF TypeOK
  <2>2. m_register_list' \in 0 .. MaxRegisters
    BY <1>2 DEF TypeOK, Registers
  <2> QED BY <1>1, <1>3, <2>1, <2>2 DEF TypeOK
<1>5. RangesGrow' BY <1>1 DEF RangesGrow
<1>6. InOrder' BY <1>1 DEF InOrder, IsInjective, Sorted
<1>7. Placed' = {} /\ ToSet(active)' = {}
  BY <1>1 DEF Placed, ToSet
<1>8. ActiveApart' BY <1>1, <1>7 DEF ActiveApart, IsInjective
<1>9. PlacedInSlots' /\ ExpiredForGood' /\ NoInterference' /\ UsageIsTight'
  BY <1>1, <1>7 DEF PlacedInSlots, ExpiredForGood, NoInterference, UsageIsTight
<1>10. Walked' BY <1>1 DEF Walked, Scanning
<1>11. ArgumentsKept'
  <2>1. \A r \in Registers : first'[r] = SIZE_MAX
    BY <1>1 DEF ArgumentsKept
  <2>2. ASSUME NEW k \in DOMAIN m_argument_registers', m_argument_registers'[k] # NULL
        PROVE  LET r == m_argument_registers'[k] IN
                 r <= m_register_list' /\ offset'[r] = -k /\ first'[r] = SIZE_MAX
    <3>1. CASE k \in DOMAIN m_argument_registers /\ m_argument_registers'[k] = m_argument_registers[k]
      <4> DEFINE r == m_argument_registers[k]
      <4>1. r \in Registers /\ r <= m_register_list /\ offset[r] = -k /\ first[r] = SIZE_MAX
        BY <2>2, <3>1 DEF ArgumentsKept, TypeOK
      <4>2. r \in Int /\ r # new
        BY <1>2, <4>1 DEF Registers
      <4>3. offset'[r] = offset[r]
        BY <1>2, <4>1, <4>2 DEF TypeOK
      <4>4. r <= m_register_list'
        BY <1>2, <4>1, <4>2
      <4> QED BY <1>1, <3>1, <4>1, <4>3, <4>4
    <3>2. CASE /\ m_argument_registers'[k] = new /\ m_register_list' = new /\ new \in Registers
               /\ k \in Nat /\ offset' = [offset EXCEPT ![new] = -k]
      BY <1>2, <2>1, <3>2 DEF TypeOK
    <3> QED BY <1>3, <2>2, <3>1, <3>2
  <2> QED BY <2>1, <2>2 DEF ArgumentsKept
<1> QED BY <1>4, <1>5, <1>6, <1>8, <1>9, <1>10, <1>11

LEMMA MarkStep ==
  ASSUME IInv, NEW used \in SUBSET Registers, Mark(used)
  PROVE  IInv'
<1> USE DEF Mark, Goto, IInv, MarkActiveRange, built
<1>1. /\ first' \in [Registers -> Nat \cup {SIZE_MAX}]
      /\ last' \in [Registers -> Nat \cup {SIZE_MAX}] /\ lir_count' \in Nat
  BY DEF TypeOK
<1>2. RangesGrow' BY DEF TypeOK, RangesGrow, SIZE_MAX
<1>3. TypeOK' BY <1>1 DEF TypeOK
<1>4. registers = <<>> /\ active = <<>> /\ i = 1 /\ bitset = {}
  BY DEF InOrder
<1>5. Placed' = {} /\ ToSet(active)' = {}
  BY <1>4 DEF Placed, ToSet
<1>6. InOrder' BY <1>4 DEF InOrder, IsInjective, Sorted
<1>7. ActiveApart' BY <1>4, <1>5 DEF ActiveApart, IsInjective
<1>8. PlacedInSlots' /\ ExpiredForGood' /\ NoInterference'
  BY <1>5 DEF PlacedInSlots, ExpiredForGood, NoInterference
<1>9. Walked' BY DEF Walked, Scanning
<1>10. UsageIsTight' BY <1>4, <1>5 DEF UsageIsTight
\* The offset of an argument is negative.
<1>11. ArgumentsKept'
  <2> SUFFICES ASSUME NEW k \in DOMAIN m_argument_registers, m_argument_registers[k] # NULL
               PROVE  LET r == m_argument_registers[k] IN
                        r <= m_register_list /\ offset[r] = -k /\ first'[r] = SIZE_MAX
    BY DEF ArgumentsKept
  <2>1. m_argument_registers[k] \in Registers /\ k \in Nat \ {0}
    BY DEF TypeOK
  <2> QED BY <2>1 DEF ArgumentsKept, SIZE_MAX
<1> QED BY <1>2, <1>3, <1>6, <1>7, <1>8, <1>9, <1>10, <1>11

LEMMA CollectStep ==
  ASSUME IInv, Collect
  PROVE  IInv'
<1> USE DEF Collect, Goto, IInv, marks, built
<1>1. registers = <<>> /\ active = <<>> /\ i = 1 /\ bitset = {} /\ i' = 1 /\ active' = <<>>
  BY DEF InOrder
<1>2. /\ registers' \in Seq(Registers) /\ IsInjective(registers')
      /\ Sorted(registers') /\ \A k \in DOMAIN registers' : first[registers'[k]] # SIZE_MAX
  <2>1. CASE registers' = registers
    BY <1>1, <2>1 DEF IsInjective, Sorted
  <2>2. CASE registers' \in SetToSeqs({r \in Registers : first[r] # SIZE_MAX}) /\ Sorted(registers')
    <3> DEFINE live == {r \in Registers : first[r] # SIZE_MAX}
               n == Cardinality(live)
    <3>1. n \in Nat
      <4>1. IsFiniteSet(Registers)
        BY RegisterAllocationAssumption, FS_Interval DEF Registers
      <4> QED BY <4>1, FS_Subset, FS_CardinalityType
    <3>2. registers' \in [1 .. n -> live] /\ IsInjective(registers')
      BY <2>2 DEF SetToSeqs, IsInjective
    <3> HIDE DEF n
    <3> QED BY <2>2, <3>1, <3>2
  <2> QED BY <2>1, <2>2
<1>3. TypeOK' BY <1>2 DEF TypeOK
<1>4. RangesGrow' BY DEF RangesGrow
<1>5. Sorted(registers)'
  BY <1>2 DEF Sorted
<1>6. Len(registers') \in Nat
  BY <1>2
<1>7. InOrder' BY <1>1, <1>2, <1>5, <1>6 DEF InOrder
<1>8. Placed' = {} /\ ToSet(active)' = {}
  BY <1>1 DEF Placed, ToSet
<1>9. ActiveApart' BY <1>1, <1>8 DEF ActiveApart, IsInjective
<1>10. PlacedInSlots' /\ ExpiredForGood' /\ NoInterference'
  BY <1>8 DEF PlacedInSlots, ExpiredForGood, NoInterference
<1>11. Walked' BY <1>1 DEF Walked
<1>12. ArgumentsKept' BY DEF ArgumentsKept
<1>13. UsageIsTight' BY <1>1, <1>8 DEF UsageIsTight
<1> QED BY <1>3, <1>4, <1>7, <1>9, <1>10, <1>11, <1>12, <1>13

LEMMA ExpireStep ==
  ASSUME IInv, ExpireOne
  PROVE  IInv'
<1> USE DEF ExpireOne, IInv, marks, built
<1> DEFINE gone == active[j]
<1>1. j \in DOMAIN active /\ gone \in Registers /\ gone \in ToSet(active)
      /\ active \in Seq(Registers) /\ IsInjective(active)
  BY DEF TypeOK, ToSet, ActiveApart
<1>2. /\ active' \in Seq(Registers) /\ ToSet(active') = ToSet(active) \ {gone}
      /\ IsInjective(active') /\ DOMAIN active' \subseteq DOMAIN active
      /\ \A m \in DOMAIN active' : m < j => active'[m] = active[m]
  BY <1>1, SwapRemoved
<1>3. Placed' = Placed
  BY DEF Placed
<1>4. bitset' \subseteq bitset
  BY DEF ResetBit
<1>5. TypeOK' BY <1>2, <1>4 DEF TypeOK
<1>6. RangesGrow' BY DEF RangesGrow
<1>7. InOrder' BY DEF InOrder, Sorted, Scanning
<1>8. ActiveApart'
  <2>1. PICK s \in bitset : offset[gone] = PlaceOf(s)
    BY <1>1 DEF ActiveApart
  <2>2. ASSUME NEW r \in ToSet(active) \ {gone}
        PROVE  \E k \in bitset' : offset[r] = PlaceOf(k)
    <3>1. PICK k \in bitset : offset[r] = PlaceOf(k)
      BY DEF ActiveApart
    <3>2. PlaceOf(k) # PlaceOf(s)
      BY <1>1, <2>1, <3>1 DEF ActiveApart
    <3>3. k \in bitset'
      BY <2>1, <3>2, ResetFreesOwn DEF TypeOK
    <3> QED BY <3>1, <3>3
  <2>3. ToSet(active)' = ToSet(active) \ {gone} /\ offset' = offset
    BY <1>2 DEF ToSet
  <2>4. IsInjective(active)'
    BY <1>2 DEF IsInjective
  <2> QED BY <1>3, <2>2, <2>3, <2>4 DEF ActiveApart, PlaceOf
<1>9. PlacedInSlots' BY <1>3 DEF PlacedInSlots, PlaceOf
<1>10. ExpiredForGood'
  <2>1. i \in DOMAIN registers /\ first[registers[i]] \in Nat /\ last[gone] \in Int
    BY <1>1 DEF Scanning, TypeOK, InOrder, RangesGrow, SIZE_MAX
  <2>2. ASSUME NEW k \in DOMAIN registers, k >= i
        PROVE  last[gone] < first[registers[k]]
    <3>1. first[registers[i]] <= first[registers[k]]
      <4>1. CASE k = i
        BY <2>1, <4>1
      <4>2. CASE k > i
        BY <2>1, <2>2, <4>2 DEF InOrder, Sorted
      <4>3. k \in Int /\ i \in Int
        BY DEF TypeOK
      <4> QED BY <2>2, <4>1, <4>2, <4>3
    <3>2. first[registers[k]] \in Nat
      BY <2>2 DEF TypeOK, InOrder, RangesGrow
    <3> QED BY <2>1, <3>1, <3>2 DEF HasExpired
  <2>3. ToSet(active)' = ToSet(active) \ {gone}
    BY <1>2 DEF ToSet
  <2> QED BY <1>3, <2>2, <2>3 DEF ExpiredForGood
<1>11. Walked' BY <1>2 DEF Walked, HasExpired, Scanning
<1>12. NoInterference' BY <1>3 DEF NoInterference, AliveTogether
<1>13. ArgumentsKept' BY DEF ArgumentsKept
<1>14. UsageIsTight' BY <1>3, <1>4 DEF UsageIsTight, PlaceOf, Scanning
<1> QED BY <1>5, <1>6, <1>7, <1>8, <1>9, <1>10, <1>11, <1>12, <1>13, <1>14

LEMMA AssignStep ==
  ASSUME IInv, Assign
  PROVE  IInv'
<1> USE DEF Assign, Goto, IInv, marks, built
<1> DEFINE new == registers[i]
<1>1. PICK s \in Slots :
        /\ s \notin bitset /\ stack_usage' = UsageWith(s)
        /\ offset' = [offset EXCEPT ![new] = PlaceOf(s)]
        /\ bitset' = bitset \cup {s}
        /\ \A k \in 0 .. s - 1 : k \in bitset
  BY DEF FirstUnset
<1>2. /\ i \in DOMAIN registers /\ new \in Registers /\ offset'[new] = PlaceOf(s)
      /\ \A r \in Registers \ {new} : offset'[r] = offset[r]
      /\ i \in Nat \ {0} /\ Len(registers) \in Nat
      /\ registers \in Seq(Registers) /\ Placed \subseteq Registers
  BY <1>1 DEF Scanning, TypeOK, Placed, InOrder
<1>3. new \notin Placed
  BY <1>2 DEF Placed, InOrder, IsInjective
<1>4. \A r \in Placed : offset'[r] = offset[r]
  BY <1>2, <1>3
<1>5. TypeOK'
  <2>1. offset' \in [Registers -> -INT16_MAX - 1 .. INT16_MAX]
    BY <1>1, <1>2, Places DEF TypeOK
  <2>2. stack_usage' \in Nat
    BY <1>1 DEF TypeOK, UsageWith, Slots
  <2>3. active' \in Seq(Registers)
    <3>1. Append(active, new) \in Seq(Registers)
      BY <1>2 DEF TypeOK
    <3> QED BY <3>1 DEF TypeOK
  <2>4. i' \in Nat \ {0} /\ j' \in Nat \ {0}
    BY <1>2 DEF TypeOK
  <2> QED BY <1>1, <2>1, <2>2, <2>3, <2>4 DEF TypeOK
<1>6. RangesGrow' BY DEF RangesGrow
<1>7. InOrder' BY <1>2 DEF InOrder, Sorted, Scanning
<1>8. \/ Placed' = Placed /\ active' = active /\ i' = i /\ pc' = "failed"
      \/ Placed' = Placed \cup {new} /\ active' = Append(active, new) /\ i' = i + 1
         /\ j' = 1
  BY <1>2 DEF Placed
<1>9. ToSet(Append(active, new)) = ToSet(active) \cup {new}
      /\ IsInjective(Append(active, new))
  <2>1. active \in Seq(Registers) /\ IsInjective(active) /\ new \notin ToSet(active)
    BY <1>3 DEF TypeOK, ActiveApart
  <2> QED BY <1>2, <2>1, Appended
<1>10. ActiveApart'
  <2>1. \A r \in ToSet(active) : offset'[r] = offset[r] /\ offset'[r] # PlaceOf(s)
                                 /\ \E k \in bitset' : offset'[r] = PlaceOf(k)
    <3> SUFFICES ASSUME NEW r \in ToSet(active)
                 PROVE  /\ offset'[r] = offset[r] /\ offset'[r] # PlaceOf(s)
                        /\ \E k \in bitset' : offset'[r] = PlaceOf(k)
      OBVIOUS
    <3>1. PICK k \in bitset : offset[r] = PlaceOf(k)
      BY DEF ActiveApart
    <3>2. k \in Slots /\ k # s
      BY <1>1 DEF TypeOK
    <3>3. offset'[r] = offset[r]
      BY <1>4 DEF ActiveApart
    <3> QED BY <1>1, <3>1, <3>2, <3>3, Places
  <2>2. CASE active' = active /\ Placed' = Placed
    <3>1. ToSet(active)' = ToSet(active) /\ IsInjective(active)'
      BY <2>2 DEF ToSet, IsInjective, ActiveApart
    <3> QED BY <2>1, <2>2, <3>1 DEF ActiveApart, PlaceOf
  <2>3. CASE active' = Append(active, new) /\ Placed' = Placed \cup {new}
    <3>1. ToSet(active)' = ToSet(active) \cup {new} /\ IsInjective(active)'
      BY <1>9, <2>3 DEF ToSet, IsInjective
    <3>2. s \in bitset'
      BY <1>1
    <3> QED BY <1>2, <2>1, <2>3, <3>1, <3>2 DEF ActiveApart, PlaceOf
  <2> QED BY <1>8, <2>2, <2>3
<1>11. PlacedInSlots' BY <1>2, <1>4, <1>8 DEF PlacedInSlots, PlaceOf
<1>12. ToSet(active)' = ToSet(active) \/ ToSet(active)' = ToSet(active) \cup {new}
  BY <1>8, <1>9 DEF ToSet
<1>13. ExpiredForGood'
  <2>1. Placed' \ ToSet(active)' \subseteq Placed \ ToSet(active)
    <3>1. CASE active' = active /\ Placed' = Placed
      BY <3>1 DEF ToSet
    <3>2. CASE active' = Append(active, new) /\ Placed' = Placed \cup {new}
      BY <1>9, <3>2 DEF ToSet
    <3> QED BY <1>8, <3>1, <3>2
  <2>2. i' >= i
    BY <1>2, <1>8
  <2>3. i \in Int /\ i' \in Int /\ DOMAIN registers \subseteq Int
    BY <1>2, <1>8
  <2> QED BY <2>1, <2>2, <2>3 DEF ExpiredForGood
<1>14. Walked' BY <1>8 DEF Walked, Scanning, TypeOK
\* The new register is apart from the active ones, and the others are dead.
<1>15. NoInterference'
  <2>1. CASE Placed' = Placed
    BY <1>4, <2>1 DEF NoInterference, AliveTogether
  <2>2. CASE Placed' = Placed \cup {new} /\ active' = Append(active, new)
    <3>1. ASSUME NEW r \in Placed, AliveTogether(r, new) \/ AliveTogether(new, r)
          PROVE  offset'[r] # offset'[new]
      <4>a. last[r] \in Int /\ first[new] \in Int
        BY <1>2 DEF TypeOK, SIZE_MAX
      <4>1. ~(last[r] < first[new])
        BY <4>a, <3>1 DEF AliveTogether
      <4>2. r \in ToSet(active)
        BY <1>2, <4>1 DEF ExpiredForGood
      <4>3. PICK k \in bitset : offset[r] = PlaceOf(k)
        BY <4>2 DEF ActiveApart
      <4>4. k \in Slots /\ k # s
        BY <1>1, <4>3 DEF TypeOK
      <4> QED BY <1>2, <1>4, <4>3, <4>4, Places
    <3>2. \A r, q : AliveTogether(r, q)' = AliveTogether(r, q)
      BY DEF AliveTogether
    <3> QED BY <1>4, <2>2, <3>1, <3>2 DEF NoInterference
  <2> QED BY <1>8, <2>1, <2>2
\* The new register is none of the arguments.
<1>16. ArgumentsKept'
  <2>1. first[new] # SIZE_MAX
    BY <1>2 DEF InOrder
  <2>2. pc' # "build"
    BY DEF Scanning
  <2>3. \A k \in DOMAIN m_argument_registers :
          m_argument_registers[k] # NULL => m_argument_registers[k] \in Registers
    BY DEF TypeOK
  <2> QED BY <1>2, <2>1, <2>2, <2>3 DEF ArgumentsKept
\* The first unset slot is below the usage or next to it.
<1>17. UsageIsTight'
  <2>1. CASE pc' = "failed"
    BY <2>1 DEF UsageIsTight
  <2>2. CASE Placed' = Placed \cup {new} /\ pc' = "scan"
    <3>1. stack_usage \in Nat /\ s \in Nat
      BY DEF TypeOK, Slots
    <3>2. s <= stack_usage
      <4>1. SUFFICES ASSUME s > stack_usage PROVE FALSE
        BY <3>1
      <4>2. stack_usage \in bitset
        BY <1>1, <3>1, <4>1
      <4> QED BY <3>1, <4>2 DEF UsageIsTight, Scanning
    <3>3. /\ 0 .. stack_usage' - 1 = 0 .. stack_usage - 1 \cup {s}
          /\ stack_usage' - 1 \in Slots
      BY <1>1, <3>1, <3>2 DEF UsageWith, UsageIsTight, Scanning
    <3>4. pc = "scan"
      BY DEF Scanning
    <3>5. bitset' \subseteq 0 .. stack_usage' - 1
      BY <1>1, <3>3, <3>4 DEF UsageIsTight
    <3>6. \A r \in Placed' : \E k \in 0 .. stack_usage' - 1 : offset'[r] = PlaceOf(k)
      <4>1. \A r \in Placed : \E k \in 0 .. stack_usage - 1 : offset'[r] = PlaceOf(k)
        BY <1>4, <3>4 DEF UsageIsTight
      <4> QED BY <1>2, <2>2, <3>3, <4>1
    <3>7. \A k \in 0 .. stack_usage' - 1 : \E r \in Placed' : offset'[r] = PlaceOf(k)
      <4>1. \A k \in 0 .. stack_usage - 1 : \E r \in Placed : offset'[r] = PlaceOf(k)
        BY <1>4, <3>4 DEF UsageIsTight
      <4> QED BY <1>2, <2>2, <3>3, <4>1
    <3> QED BY <2>2, <3>3, <3>5, <3>6, <3>7 DEF UsageIsTight, PlaceOf
  <2> QED BY <1>8, <2>1, <2>2 DEF Scanning
<1> QED BY <1>5, <1>6, <1>7, <1>10, <1>11, <1>13, <1>14, <1>15, <1>16, <1>17

\* The steps that place nothing and expire nothing.
LEMMA QuietStep ==
  ASSUME IInv, KeepOne \/ NoSlot \/ Finish
  PROVE  IInv'
<1> USE DEF KeepOne, NoSlot, Finish, Goto, IInv, marks, built
<1>1. UNCHANGED <<built, lir_count, first, last, offset, registers, i, active, bitset, stack_usage>>
  OBVIOUS
<1>2. \/ pc' = pc /\ j' = j + 1
      \/ pc' \in {"full", "done"} /\ j' = j /\ pc = "scan"
  BY DEF Scanning
<1>3. TypeOK' BY <1>1, <1>2 DEF TypeOK
<1>4. InOrder' BY <1>1, <1>2 DEF InOrder, Sorted
<1>5. Walked'
  <2>1. CASE KeepOne
    BY <2>1 DEF Walked, Scanning, HasExpired, TypeOK
  <2>2. CASE pc' \in {"full", "done"}
    BY <2>2 DEF Walked, Scanning
  <2> QED BY <2>1, <2>2
<1>6. RangesGrow' /\ ActiveApart' /\ PlacedInSlots' /\ ExpiredForGood' /\ NoInterference'
  <2>1. Placed' = Placed /\ ToSet(active)' = ToSet(active)
    BY <1>1 DEF Placed, ToSet
  <2>2. RangesGrow' /\ ActiveApart'
    BY <1>1, <2>1 DEF RangesGrow, ActiveApart, PlaceOf, IsInjective
  <2>3. PlacedInSlots' /\ ExpiredForGood' /\ NoInterference'
    BY <1>1, <2>1 DEF PlacedInSlots, ExpiredForGood, NoInterference, PlaceOf, AliveTogether
  <2> QED BY <2>2, <2>3
<1>7. ArgumentsKept' /\ UsageIsTight'
  <2>1. /\ pc \notin {"build", "failed"} /\ pc' \notin {"build", "mark"}
        /\ pc # "mark"
    BY DEF Scanning
  <2>2. Placed' = Placed
    BY <1>1 DEF Placed
  <2>3. ArgumentsKept /\ UsageIsTight
    OBVIOUS
  <2> HIDE DEF IInv, KeepOne, NoSlot, Finish
  <2>4. ArgumentsKept'
    BY <1>1, <2>1, <2>3 DEF ArgumentsKept
  <2>5. UsageIsTight'
    BY <1>1, <2>1, <2>2, <2>3 DEF UsageIsTight, PlaceOf
  <2> QED BY <2>4, <2>5
<1> QED BY <1>3, <1>4, <1>5, <1>6, <1>7

LEMMA Inductive == IInv /\ [Next]_vars => IInv'
<1> SUFFICES ASSUME IInv, [Next]_vars PROVE IInv'
  OBVIOUS
<1>1. ASSUME NEW used \in SUBSET Registers, Mark(used) PROVE IInv'
  BY <1>1, MarkStep
<1>2. CASE Collect BY <1>2, CollectStep
<1>3. CASE ExpireOne BY <1>3, ExpireStep
<1>4. CASE Assign BY <1>4, AssignStep
<1>5. CASE KeepOne \/ NoSlot \/ Finish BY <1>5, QuietStep
<1>6. CASE UNCHANGED vars
  <2> USE <1>6 DEF vars, built, IInv
  <2>1. TypeOK' BY DEF TypeOK
  <2>2. RangesGrow' /\ InOrder' BY DEF RangesGrow, InOrder, Sorted
  <2>3. Placed' = Placed /\ ToSet(active)' = ToSet(active)
    BY DEF Placed, ToSet
  <2>4. ActiveApart' BY <2>3 DEF ActiveApart, PlaceOf, IsInjective
  <2>5. PlacedInSlots' /\ NoInterference'
    BY <2>3 DEF PlacedInSlots, PlaceOf, NoInterference, AliveTogether
  <2>6. ExpiredForGood' BY <2>3 DEF ExpiredForGood
  <2>7. Walked' BY DEF Walked, Scanning, HasExpired
  <2>8. ArgumentsKept' /\ UsageIsTight'
    BY <2>3 DEF ArgumentsKept, UsageIsTight, PlaceOf
  <2> QED BY <2>1, <2>2, <2>4, <2>5, <2>6, <2>7, <2>8
<1>7. CASE AllocRegister \/ Begin \/ \E index \in 0 .. MaxArguments - 1 : GetArgumentRegister(index)
  BY <1>7, BuildStep
<1> QED BY <1>1, <1>2, <1>3, <1>4, <1>5, <1>6, <1>7 DEF Next, Scan

LEMMA Always == Spec => []IInv
BY Initially, Inductive, PTL DEF Spec

\* Every variable keeps its type; an offset fits its sixteen bits.
THEOREM TypeCorrect == Spec => []TypeOK
<1>1. IInv => TypeOK BY DEF IInv
<1> QED BY <1>1, Always, PTL

\* The expiry by exchange with the last element loses and skips no register.
THEOREM ExpiryIsExact == Spec => []ActiveIsAlive
<1>1. IInv => ActiveIsAlive
  <2> SUFFICES ASSUME IInv, Scanning, j > Len(active)
               PROVE  /\ ToSet(active) = {r \in Placed : ~HasExpired(r)}
                      /\ IsInjective(active)
    BY DEF ActiveIsAlive
  <2>1. i \in DOMAIN registers
    BY DEF IInv, TypeOK, Scanning
  <2>2. \A r \in Placed \ ToSet(active) : HasExpired(r)
    BY <2>1 DEF IInv, ExpiredForGood, HasExpired, TypeOK
  <2>3. \A r \in ToSet(active) : ~HasExpired(r)
    BY DEF IInv, Walked, ToSet, TypeOK
  <2> QED BY <2>2, <2>3 DEF IInv, ActiveApart
<1> QED BY <1>1, Always, PTL

\* As many places are asked for as there are: PlaceOf maps the slots below the
\* usage one to one onto the places.
LEMMA UsageIsCount == IInv => UsageCountsPlaces
<1> SUFFICES ASSUME IInv, pc # "failed"
             PROVE  stack_usage = Cardinality({offset[r] : r \in Placed})
  BY DEF UsageCountsPlaces
<1> DEFINE used == 0 .. stack_usage - 1
           places == {offset[r] : r \in Placed}
           f == [s \in used |-> PlaceOf(s)]
<1>1. stack_usage \in Nat /\ used \subseteq Slots
  <2>1. stack_usage = 0 \/ stack_usage - 1 \in Slots
    BY DEF IInv, UsageIsTight
  <2> QED BY <2>1, RegisterAllocationAssumption DEF IInv, TypeOK, Slots
<1>2. IsFiniteSet(used) /\ Cardinality(used) = stack_usage
  BY <1>1, FS_Interval
<1>3. f \in Bijection(used, places)
  <2>1. \A s \in used : f[s] \in places
    BY DEF IInv, UsageIsTight
  <2>2. \A s, k \in used : f[s] = f[k] => s = k
    BY <1>1, Places
  <2>3. \A x \in places : \E s \in used : f[s] = x
    BY DEF IInv, UsageIsTight
  <2> HIDE DEF f
  <2>4. f \in [used -> places]
    BY <2>1 DEF f
  <2> QED BY <2>2, <2>3, <2>4 DEF Bijection, Injection, Surjection, IsInjective
<1> HIDE DEF used, places, f
<1>4. Cardinality(used) = Cardinality(places)
  BY <1>2, <1>3, FS_Bijection DEF ExistsBijection
<1> QED BY <1>2, <1>4 DEF places

\* A place is no further from bp than its slot, or than its slot and the gap.
LEMMA UsageReaches == IInv => UsageReachesPlaces
<1> SUFFICES ASSUME IInv, pc # "failed", NEW r \in Placed
             PROVE  LET gap == IF offset[r] < INT8_MIN THEN 3 ELSE 0 IN
                      offset[r] <= 0 /\ -offset[r] < stack_usage + gap
  BY DEF UsageReachesPlaces
<1>1. stack_usage \in Nat
  BY DEF IInv, TypeOK
<1>2. PICK s \in 0 .. stack_usage - 1 : offset[r] = PlaceOf(s)
  BY DEF IInv, UsageIsTight
<1>3. s \in Nat /\ s < stack_usage
  BY <1>1, <1>2
<1> QED BY <1>1, <1>2, <1>3, RegisterAllocationAssumption DEF PlaceOf, INT8_MIN

\* woort_LIRFunction_register_allocation: no two value registers that are alive
\* together share a place, none lies at a reserved one, the usage is the number
\* of places and reaches them but for the gap, and the registers of arguments
\* keep the offsets that get_argument_register gave them (where a value register
\* may be as well: see ArgumentsStay).
THEOREM ValuesAlwaysHavePlaces == Spec => []ValuesHavePlaces
<1>1. IInv => ReservedIsFree BY Places DEF IInv, PlacedInSlots, ReservedIsFree
<1>2. IInv => ArgumentsStay
  <2> SUFFICES ASSUME IInv, NEW k \in DOMAIN m_argument_registers, m_argument_registers[k] # NULL
               PROVE  LET r == m_argument_registers[k] IN
                        r <= m_register_list /\ offset[r] = -k /\ r \notin Placed
    BY DEF ArgumentsStay
  <2>1. Placed \subseteq {registers[n] : n \in DOMAIN registers}
    BY DEF Placed, IInv, InOrder, TypeOK
  <2> QED BY <2>1 DEF IInv, ArgumentsKept, InOrder
<1>3. IInv => ValuesHavePlaces
  BY <1>1, <1>2, UsageIsCount, UsageReaches DEF IInv, ValuesHavePlaces
<1> QED BY <1>3, Always, PTL
=============================================================================
