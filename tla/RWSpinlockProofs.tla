-------------------------- MODULE RWSpinlockProofs --------------------------
(***************************************************************************)
(* RWSpinlock keeps its type, excludes writers from readers and from each  *)
(* other, and implements RWLock, for every finite set of threads and every *)
(* number of calls.                                                        *)
(*                                                                         *)
(* Mutual exclusion alone is not inductive: that a thread whose exchange   *)
(* wins may enter depends on what m_state says of the others               *)
(* (StateCountsHolders) and on what the thread checked before it got to    *)
(* the exchange (ExpectedWasChecked), which outlives any staleness of the  *)
(* load because the exchange compares again.                               *)
(***************************************************************************)
EXTENDS RWSpinlock, FiniteSetTheorems, TLAPS

\* What a thread at a compare-exchange has already found out: a reader saw no
\* writer, a writer saw nobody.
ExpectedWasChecked ==
  \A t \in Threads :
    /\ pc[t] \in {"read_cas", "tryread_cas"} => expected[t] >= 0
    /\ pc[t] \in {"write_cas", "trywrite_cas"} => expected[t] = 0

IInv ==
  /\ TypeOK
  /\ MutualExclusion
  /\ StateCountsHolders
  /\ ExpectedWasChecked

(***************************************************************************)
(* What a step does to the lock: nothing, or it lets one thread in or out. *)
(***************************************************************************)
LockUntouched ==
  UNCHANGED m_state /\ Readers' = Readers /\ Writers' = Writers

LetsReaderIn(t) ==
  /\ m_state >= 0 /\ m_state' = m_state + 1
  /\ t \notin Readers /\ Readers' = Readers \cup {t} /\ Writers' = Writers

LetsWriterIn(t) ==
  /\ m_state = 0 /\ m_state' = -1
  /\ t \notin Writers /\ Readers' = Readers /\ Writers' = Writers \cup {t}

LetsReaderOut(t) ==
  /\ m_state' = m_state - 1
  /\ t \in Readers /\ Readers' = Readers \ {t} /\ Writers' = Writers

LetsWriterOut(t) ==
  /\ m_state' = 0
  /\ t \in Writers /\ Readers' = Readers /\ Writers' = Writers \ {t}

LockStep(t) ==
  \/ LockUntouched
  \/ LetsReaderIn(t) \/ LetsWriterIn(t) \/ LetsReaderOut(t) \/ LetsWriterOut(t)

-----------------------------------------------------------------------------
\* A thread that moves to `to' changes only its own membership.
LEMMA GotoMoves ==
  ASSUME pc \in [Threads -> PCs], NEW t \in Threads, NEW to, Goto(t, to)
  PROVE  /\ Readers' = IF to = "reading" THEN Readers \cup {t} ELSE Readers \ {t}
         /\ Writers' = IF to = "writing" THEN Writers \cup {t} ELSE Writers \ {t}
BY DEF Goto, Readers, Writers

\* The sets of readers and writers are finite and within the threads.
LEMMA HoldersFinite ==
  /\ IsFiniteSet(Readers) /\ IsFiniteSet(Writers)
  /\ Cardinality(Readers) \in 0 .. Cardinality(Threads)
  /\ Cardinality(Threads) \in Nat
<1>1. Readers \in SUBSET Threads /\ Writers \in SUBSET Threads
  BY DEF Readers, Writers
<1>2. /\ Cardinality(Readers) \in Nat /\ Cardinality(Threads) \in Nat
      /\ Cardinality(Readers) <= Cardinality(Threads)
  BY <1>1, FS_Subset, FS_CardinalityType, RWSpinlockAssumption
<1> QED BY <1>1, <1>2, FS_Subset, RWSpinlockAssumption

\* Every step of a thread leaves the lock alone or moves one thread in or out.
LEMMA StepKinds ==
  ASSUME IInv, NEW t \in Threads, Step(t)
  PROVE  LockStep(t)
<1> USE DEF IInv, TypeOK
<1>1. CASE Call(t)
  BY <1>1, GotoMoves DEF Call, NoStore, Readers, Writers, LockStep, LockUntouched
<1>2. CASE \E v \in written : ReadLoad(t, v) \/ TryReadLoad(t, v) \/ WriteLoad(t, v)
  BY <1>2, GotoMoves DEF ReadLoad, TryReadLoad, WriteLoad, NoStore, Readers,
    Writers, LockStep, LockUntouched
<1>3. CASE ReadCasWins(t) \/ (TryReadCas(t) /\ pc'[t] = "reading")
  BY <1>3, GotoMoves DEF ReadCasWins, TryReadCas, CasWins, CasLoses, Goto, Store,
    Readers, Writers, LockStep, LetsReaderIn, ExpectedWasChecked
<1>4. CASE ReadCasLoses(t) \/ (TryReadCas(t) /\ pc'[t] # "reading")
  BY <1>4, GotoMoves DEF ReadCasLoses, TryReadCas, CasWins, CasLoses, Goto, NoStore,
    Readers, Writers, LockStep, LockUntouched
<1>5. CASE WriteCasWins(t) \/ (TryWriteCas(t) /\ pc'[t] = "writing")
  BY <1>5, GotoMoves DEF WriteCasWins, TryWriteCas, CasWins, CasLoses, Goto, Store,
    Readers, Writers, LockStep, LetsWriterIn, ExpectedWasChecked
<1>6. CASE WriteCasLoses(t) \/ (TryWriteCas(t) /\ pc'[t] # "writing")
  BY <1>6, GotoMoves DEF WriteCasLoses, TryWriteCas, CasWins, CasLoses, Goto, NoStore,
    Readers, Writers, LockStep, LockUntouched
<1>7. CASE ReadUnlock(t)
  BY <1>7, GotoMoves DEF ReadUnlock, Store, Readers, Writers, LockStep, LetsReaderOut
<1>8. CASE WriteUnlock(t)
  BY <1>8, GotoMoves DEF WriteUnlock, Store, Readers, Writers, LockStep, LetsWriterOut
<1> QED BY <1>1, <1>2, <1>3, <1>4, <1>5, <1>6, <1>7, <1>8 DEF Step

\* A lock step keeps readers and writers apart and m_state in agreement.
LEMMA LockStepKeepsLock ==
  ASSUME IInv, NEW t \in Threads, LockStep(t)
  PROVE  MutualExclusion' /\ StateCountsHolders'
<1> USE DEF IInv, MutualExclusion, StateCountsHolders
<1>1. CASE LockUntouched
  BY <1>1 DEF LockUntouched
<1>2. CASE LetsReaderIn(t)
  <2>1. Writers = {} /\ Writers' = {}
    BY <1>2 DEF LetsReaderIn
  <2>2. Cardinality(Readers') = Cardinality(Readers) + 1
    BY <1>2, FS_AddElement, HoldersFinite DEF LetsReaderIn
  <2> QED BY <1>2, <2>1, <2>2 DEF LetsReaderIn
<1>3. CASE LetsWriterIn(t)
  <2>1. Writers = {} /\ Readers = {}
    BY <1>3, FS_EmptySet, HoldersFinite DEF LetsWriterIn
  <2> QED BY <1>3, <2>1 DEF LetsWriterIn
<1>4. CASE LetsReaderOut(t)
  <2>1. Writers = {} /\ Writers' = {}
    BY <1>4 DEF LetsReaderOut
  <2>2. Cardinality(Readers') = Cardinality(Readers) - 1
    BY <1>4, FS_RemoveElement, HoldersFinite DEF LetsReaderOut
  <2> QED BY <1>4, <2>1, <2>2 DEF LetsReaderOut
<1>5. CASE LetsWriterOut(t)
  <2>1. Readers = {} /\ Writers = {t}
    BY <1>5 DEF LetsWriterOut
  <2> QED BY <1>5, <2>1, FS_EmptySet DEF LetsWriterOut
<1> QED BY <1>1, <1>2, <1>3, <1>4, <1>5 DEF LockStep

-----------------------------------------------------------------------------
LEMMA InitIInv == Init => IInv
<1> SUFFICES ASSUME Init PROVE IInv
  OBVIOUS
<1>1. Readers = {} /\ Writers = {}
  BY DEF Init, Readers, Writers
<1>2. TypeOK
  BY HoldersFinite, RWSpinlockAssumption DEF Init, TypeOK, PCs
<1> QED BY <1>1, <1>2, FS_EmptySet
  DEF Init, IInv, MutualExclusion, StateCountsHolders, ExpectedWasChecked

LEMMA NextIInv == IInv /\ [Next]_vars => IInv'
<1> SUFFICES ASSUME IInv, [Next]_vars PROVE IInv'
  OBVIOUS
<1>1. CASE UNCHANGED vars
  BY <1>1 DEF vars, IInv, TypeOK, MutualExclusion, StateCountsHolders,
    ExpectedWasChecked, Readers, Writers
<1>2. CASE Next
  <2>1. PICK t \in Threads : Step(t)
    BY <1>2 DEF Next
  <2>2. MutualExclusion' /\ StateCountsHolders'
    BY <2>1, StepKinds, LockStepKeepsLock
  <2>3. m_state' \in -1 .. Cardinality(Threads)
    <3>1. Cardinality(Readers') \in 0 .. Cardinality(Threads)
      <4>1. Readers' \in SUBSET Threads
        BY DEF Readers
      <4> QED BY <4>1, FS_Subset, FS_CardinalityType, RWSpinlockAssumption
    <3> QED BY <2>2, <3>1, HoldersFinite DEF StateCountsHolders
  <2> USE DEF IInv, TypeOK
  <2>4. written' \subseteq -1 .. Cardinality(Threads)
    BY <2>1, <2>3 DEF Step, Call, ReadLoad, TryReadLoad, WriteLoad, ReadCasWins,
      ReadCasLoses, TryReadCas, WriteCasWins, WriteCasLoses, TryWriteCas,
      ReadUnlock, WriteUnlock, CasWins, CasLoses, Store, NoStore
  <2>5. pc' \in [Threads -> PCs]
    BY <2>1 DEF Step, Call, ReadLoad, TryReadLoad, WriteLoad, ReadCasWins,
      ReadCasLoses, TryReadCas, WriteCasWins, WriteCasLoses, TryWriteCas,
      ReadUnlock, WriteUnlock, CasWins, CasLoses, Goto, PCs
  <2>6. expected' \in [Threads -> -1 .. Cardinality(Threads)]
    BY <2>1, HoldersFinite DEF Step, Call, ReadLoad, TryReadLoad, WriteLoad,
      ReadCasWins, ReadCasLoses, TryReadCas, WriteCasWins, WriteCasLoses,
      TryWriteCas, ReadUnlock, WriteUnlock, CasWins, CasLoses
  <2>7. acquires' \in [Threads -> 0 .. MaxAcquires]
    BY <2>1, RWSpinlockAssumption DEF Step, Call, ReadLoad, TryReadLoad, WriteLoad,
      ReadCasWins, ReadCasLoses, TryReadCas, WriteCasWins, WriteCasLoses,
      TryWriteCas, ReadUnlock, WriteUnlock, CasWins, CasLoses
  <2>8. ExpectedWasChecked'
    BY <2>1, HoldersFinite DEF Step, Call, ReadLoad, TryReadLoad, WriteLoad,
      ReadCasWins, ReadCasLoses, TryReadCas, WriteCasWins, WriteCasLoses,
      TryWriteCas, ReadUnlock, WriteUnlock, CasWins, CasLoses, Goto,
      ExpectedWasChecked
  <2> QED BY <2>2, <2>3, <2>4, <2>5, <2>6, <2>7, <2>8
<1> QED BY <1>1, <1>2

LEMMA SpecIInv == Spec => []IInv
BY InitIInv, NextIInv, PTL DEF Spec

-----------------------------------------------------------------------------
\* The lock's word, the threads' program counters and what they loaded keep
\* their types: m_state never passes the number of threads, nor falls below -1.
THEOREM TypeCorrect == Spec => []TypeOK
<1>1. IInv => TypeOK
  BY DEF IInv
<1> QED BY <1>1, SpecIInv, PTL

\* woort_spin.h:56: one writer at most, and no reader beside it.
THEOREM ExclusionHolds == Spec => []MutualExclusion
<1>1. IInv => MutualExclusion
  BY DEF IInv
<1> QED BY <1>1, SpecIInv, PTL

\* woort_spin.h:34-36: what m_state says of the holders is true.
THEOREM StateIsCount == Spec => []StateCountsHolders
<1>1. IInv => StateCountsHolders
  BY DEF IInv
<1> QED BY <1>1, SpecIInv, PTL

\* A thread that asks once, with try_write_lock, is refused only by a holder.
THEOREM RefusalMeansHeld == Spec => TryWriteFailsOnlyWhenHeld
<1> DEFINE Refused ==
      \A t \in Threads :
        pc[t] = "trywrite_cas" /\ pc'[t] = "idle" => Readers \cup Writers # {}
<1>1. IInv /\ [Next]_vars => [Refused]_vars
  <2> SUFFICES ASSUME IInv, Next, NEW t \in Threads,
                      pc[t] = "trywrite_cas", pc'[t] = "idle"
               PROVE  Readers \cup Writers # {}
    BY DEF Next
  <2>1. PICK u \in Threads : Step(u)
    BY DEF Next
  <2>2. u = t /\ m_state # expected[t]
    BY <2>1 DEF Step, Call, ReadLoad, TryReadLoad, WriteLoad, ReadCasWins,
      ReadCasLoses, TryReadCas, WriteCasWins, WriteCasLoses, TryWriteCas,
      ReadUnlock, WriteUnlock, CasWins, CasLoses, Goto, IInv, TypeOK
  <2>3. m_state # 0
    BY <2>2 DEF IInv, ExpectedWasChecked
  <2> QED BY <2>3, FS_EmptySet DEF IInv, StateCountsHolders
<1> QED BY <1>1, SpecIInv, PTL DEF Spec, TryWriteFailsOnlyWhenHeld

\* Every behaviour of the spinlock is a behaviour of the abstract lock.
THEOREM Refinement == Spec => ImplementsRWLock
<1>1. Init => Abstract!Init
  BY DEF Init, Abstract!Init, Readers, Writers
<1>2. IInv /\ [Next]_vars => [Abstract!Next]_(Abstract!lockVars)
  <2> SUFFICES ASSUME IInv, [Next]_vars
               PROVE  [Abstract!Next]_(Abstract!lockVars)
    OBVIOUS
  <2>1. CASE UNCHANGED vars
    BY <2>1 DEF vars, Abstract!lockVars, Readers, Writers
  <2>2. CASE Next
    <3>1. PICK t \in Threads : LockStep(t)
      BY <2>2, StepKinds DEF Next
    <3>2. CASE LockUntouched
      BY <3>2 DEF LockUntouched, Abstract!lockVars
    <3>3. CASE LetsReaderIn(t)
      BY <3>3 DEF LetsReaderIn, IInv, StateCountsHolders, Abstract!Next,
        Abstract!AcquireRead
    <3>4. CASE LetsWriterIn(t)
      BY <3>4, FS_EmptySet, HoldersFinite DEF LetsWriterIn, IInv, StateCountsHolders,
        Abstract!Next, Abstract!AcquireWrite
    <3>5. CASE LetsReaderOut(t)
      BY <3>5 DEF LetsReaderOut, Abstract!Next, Abstract!ReleaseRead
    <3>6. CASE LetsWriterOut(t)
      BY <3>6 DEF LetsWriterOut, Abstract!Next, Abstract!ReleaseWrite
    <3> QED BY <3>1, <3>2, <3>3, <3>4, <3>5, <3>6 DEF LockStep
  <2> QED BY <2>1, <2>2
<1> QED BY <1>1, <1>2, SpecIInv, PTL DEF Spec, ImplementsRWLock, Abstract!Spec
=============================================================================
