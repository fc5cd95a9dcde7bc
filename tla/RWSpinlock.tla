----------------------------- MODULE RWSpinlock -----------------------------
(***************************************************************************)
(* The read-write spinlock of woort_spin.c: one atomic integer, m_state,   *)
(* that counts the readers or is -1 while a writer is inside.  Each atomic *)
(* access is one action, and a thread's local variable `expected' lives    *)
(* between its load and its compare-exchange.                              *)
(*                                                                         *)
(* The loads are relaxed (woort_spin.c:89-91, 107-109, 137-139), so a load *)
(* may return any value m_state has ever held: the history variable        *)
(* `written' collects them.  A read-modify-write always sees the last      *)
(* value, and a weak compare-exchange may fail although the values agree.  *)
(***************************************************************************)
EXTENDS Integers, FiniteSets

CONSTANTS
  Threads,      \* the threads that share one lock
  MaxAcquires   \* bound: how many calls to lock or try-lock a thread makes

ASSUME RWSpinlockAssumption ==
  /\ IsFiniteSet(Threads)
  /\ MaxAcquires \in Nat

VARIABLES
  m_state,   \* woort_RWSpinlock.m_state
  written,   \* the values m_state has held since woort_rwspinlock_init
  pc,        \* where each thread is
  expected,  \* the local variable `expected' of each thread
  acquires   \* how many lock calls each thread has begun

vars == <<m_state, written, pc, expected, acquires>>

PCs == {"idle", "read_load", "read_cas", "tryread_load", "tryread_cas",
        "write_load", "write_cas", "trywrite_cas", "reading", "writing"}

Readers == {t \in Threads : pc[t] = "reading"}
Writers == {t \in Threads : pc[t] = "writing"}

\* The blocking calls: where a thread spins until it is let in.
Waiting(t) == pc[t] \in {"read_load", "read_cas", "write_load", "write_cas"}

Init ==
  /\ m_state = 0
  /\ written = {0}
  /\ pc = [t \in Threads |-> "idle"]
  /\ expected = [t \in Threads |-> 0]
  /\ acquires = [t \in Threads |-> 0]

Goto(t, to) == pc' = [pc EXCEPT ![t] = to]

Store(v) ==
  /\ m_state' = v
  /\ written' = written \cup {v}

NoStore == UNCHANGED <<m_state, written>>

-----------------------------------------------------------------------------
(* A client that holds nothing calls one of the four entry points.  (A      *)
(* thread releases what it holds before it locks again, as every caller in  *)
(* woort_codeenv.c does.)                                                   *)
Call(t) ==
  /\ pc[t] = "idle"
  /\ acquires[t] < MaxAcquires
  /\ acquires' = [acquires EXCEPT ![t] = @ + 1]
  /\ \E to \in {"read_load", "tryread_load", "write_load"} :
        /\ Goto(t, to)
        /\ UNCHANGED expected
     \/ /\ Goto(t, "trywrite_cas")
        /\ expected' = [expected EXCEPT ![t] = 0]
  /\ NoStore

\* The inner loop of read_lock: spin while the value seen is negative.
ReadLoad(t, v) ==
  /\ pc[t] = "read_load"
  /\ expected' = [expected EXCEPT ![t] = v]
  /\ Goto(t, IF v < 0 THEN "read_load" ELSE "read_cas")
  /\ NoStore
  /\ UNCHANGED acquires

\* try_read_lock gives up at once when it sees a writer.
TryReadLoad(t, v) ==
  /\ pc[t] = "tryread_load"
  /\ expected' = [expected EXCEPT ![t] = v]
  /\ Goto(t, IF v < 0 THEN "idle" ELSE "tryread_cas")
  /\ NoStore
  /\ UNCHANGED acquires

\* The inner loop of write_lock: spin while anybody is seen inside.
WriteLoad(t, v) ==
  /\ pc[t] = "write_load"
  /\ expected' = [expected EXCEPT ![t] = v]
  /\ Goto(t, IF v # 0 THEN "write_load" ELSE "write_cas")
  /\ NoStore
  /\ UNCHANGED acquires

-----------------------------------------------------------------------------
(* Compare-exchange.  CasWins stores and lets the thread in; CasLoses gives *)
(* the last value back in `expected'.                                       *)

\* Bug: the exchange forgets to compare (an increment that is not atomic).
CasWinsBlind(t, new, in) ==
  /\ Store(new)
  /\ Goto(t, in)
  /\ UNCHANGED <<expected, acquires>>

CasWins(t, new, in) ==
  /\ m_state = expected[t]
  /\ Store(new)
  /\ Goto(t, in)
  /\ UNCHANGED <<expected, acquires>>

CasLoses(t, out) ==
  /\ expected' = [expected EXCEPT ![t] = m_state]
  /\ Goto(t, out)
  /\ NoStore
  /\ UNCHANGED acquires

ReadCasWins(t) ==
  /\ pc[t] = "read_cas"
  /\ CasWins(t, expected[t] + 1, "reading")

\* Weak: it may lose even when m_state is what the thread expected.
ReadCasLoses(t) ==
  /\ pc[t] = "read_cas"
  /\ CasLoses(t, "read_load")

TryReadCas(t) ==
  /\ pc[t] = "tryread_cas"
  /\ \/ CasWins(t, expected[t] + 1, "reading")
     \/ m_state # expected[t] /\ CasLoses(t, "idle")

WriteCasWins(t) ==
  /\ pc[t] = "write_cas"
  /\ CasWins(t, -1, "writing")

WriteCasLoses(t) ==
  /\ pc[t] = "write_cas"
  /\ CasLoses(t, "write_load")

\* Bug: the weak exchange, which may fail on a free lock.
TryWriteCasWeak(t) ==
  /\ pc[t] = "trywrite_cas"
  /\ \/ CasWins(t, -1, "writing")
     \/ CasLoses(t, "idle")

TryWriteCas(t) ==
  /\ pc[t] = "trywrite_cas"
  /\ \/ CasWins(t, -1, "writing")
     \/ m_state # expected[t] /\ CasLoses(t, "idle")

-----------------------------------------------------------------------------
\* Bug: a reader stores 0, as a writer does, instead of counting itself out.
ReadUnlockStoresZero(t) ==
  /\ pc[t] = "reading"
  /\ Store(0)
  /\ Goto(t, "idle")
  /\ UNCHANGED <<expected, acquires>>

\* Bug: a reader leaves without decrementing.
ReadUnlockKeepsCount(t) ==
  /\ pc[t] = "reading"
  /\ Goto(t, "idle")
  /\ NoStore
  /\ UNCHANGED <<expected, acquires>>

ReadUnlock(t) ==
  /\ pc[t] = "reading"
  /\ Store(m_state - 1)
  /\ Goto(t, "idle")
  /\ UNCHANGED <<expected, acquires>>

\* Bug: a writer counts itself out, as a reader does: -1 becomes -2.
WriteUnlockSubtracts(t) ==
  /\ pc[t] = "writing"
  /\ Store(m_state - 1)
  /\ Goto(t, "idle")
  /\ UNCHANGED <<expected, acquires>>

WriteUnlock(t) ==
  /\ pc[t] = "writing"
  /\ Store(0)
  /\ Goto(t, "idle")
  /\ UNCHANGED <<expected, acquires>>

Step(t) ==
  \/ Call(t)
  \/ \E v \in written : ReadLoad(t, v) \/ TryReadLoad(t, v) \/ WriteLoad(t, v)
  \/ ReadCasWins(t)
  \/ ReadCasLoses(t)
  \/ TryReadCas(t)
  \/ WriteCasWins(t)
  \/ WriteCasLoses(t)
  \/ TryWriteCas(t)
  \/ ReadUnlock(t)
  \/ WriteUnlock(t)

Next == \E t \in Threads : Step(t)

Spec == Init /\ [][Next]_vars

(***************************************************************************)
(* Fairness.  A thread that is scheduled performs its next atomic access;  *)
(* what a thread holds it gives back (the critical sections of             *)
(* woort_codeenv.c are loops over a vector); a store becomes visible to    *)
(* loads in finite time (C11 7.17.3), so a load repeated for ever sees the *)
(* last value again and again; and a weak compare-exchange does not fail   *)
(* spuriously for ever.  Nothing is assumed of the order of the threads.   *)
(***************************************************************************)
Fairness ==
  \A t \in Threads :
    /\ WF_vars(Step(t) /\ pc[t] # "idle")
    /\ SF_vars(ReadLoad(t, m_state))
    /\ SF_vars(WriteLoad(t, m_state))
    /\ SF_vars(ReadCasWins(t))
    /\ SF_vars(WriteCasWins(t))

FairSpec == Spec /\ Fairness

-----------------------------------------------------------------------------
TypeOK ==
  /\ m_state \in -1 .. Cardinality(Threads)
  /\ written \subseteq -1 .. Cardinality(Threads)
  /\ pc \in [Threads -> PCs]
  /\ expected \in [Threads -> -1 .. Cardinality(Threads)]
  /\ acquires \in [Threads -> 0 .. MaxAcquires]

\* "Only one writer can hold the lock, and no readers can hold it"
\* (woort_spin.h:56): a writer is alone, whatever the threads loaded before.
MutualExclusion ==
  /\ Writers # {} => Readers = {}
  /\ \A t, u \in Writers : t = u

\* woort_spin.h:34-36: m_state is -1 exactly while a writer holds the lock and
\* otherwise the number of readers, after every mix of failed, spurious and
\* lost attempts: an attempt that fails leaves nothing behind.
StateCountsHolders ==
  m_state = IF Writers # {} THEN -1 ELSE Cardinality(Readers)

\* try_write_lock says no only when somebody is inside: with nobody reading or
\* writing it may not fail, whoever is spinning elsewhere.
TryWriteFailsOnlyWhenHeld ==
  [][\A t \in Threads :
       pc[t] = "trywrite_cas" /\ pc'[t] = "idle" => Readers \cup Writers # {}]_vars

\* A thread spinning in read_lock or write_lock is let in in the end, once the
\* others have used up their calls: no value left in m_state and no stale
\* value in `expected' can keep it out for ever.
WaiterGetsIn ==
  \A t \in Threads : Waiting(t) ~> pc[t] \in {"reading", "writing"}

\* The abstract lock, with the threads inside as its readers and writers.
Abstract == INSTANCE RWLock WITH readers <- Readers, writers <- Writers

\* Each atomic access is a step of the abstract lock or leaves it alone.
ImplementsRWLock == Abstract!Spec
=============================================================================
