------------------------------- MODULE RWLock -------------------------------
(***************************************************************************)
(* What woort_spin.h promises of a woort_RWSpinlock, without its atomics:  *)
(* any number of threads may read at once, and a writer is alone           *)
(* (woort_spin.h:44-45 and 55-56).  RWSpinlock.tla is shown to implement   *)
(* this module, and CodeEnv.tla takes the lock of its registry from it.    *)
(***************************************************************************)
CONSTANT Threads

VARIABLES
  readers,  \* the threads between read_lock and read_unlock
  writers   \* the threads between write_lock and write_unlock

lockVars == <<readers, writers>>

Init ==
  /\ readers = {}
  /\ writers = {}

\* woort_rwspinlock_read_lock, or a try_read_lock that returns true.
AcquireRead(t) ==
  /\ writers = {}
  /\ t \notin readers
  /\ readers' = readers \cup {t}
  /\ UNCHANGED writers

\* woort_rwspinlock_write_lock, or a try_write_lock that returns true.
AcquireWrite(t) ==
  /\ readers = {}
  /\ writers = {}
  /\ writers' = {t}
  /\ UNCHANGED readers

ReleaseRead(t) ==
  /\ t \in readers
  /\ readers' = readers \ {t}
  /\ UNCHANGED writers

ReleaseWrite(t) ==
  /\ t \in writers
  /\ writers' = writers \ {t}
  /\ UNCHANGED readers

Next ==
  \E t \in Threads :
    AcquireRead(t) \/ AcquireWrite(t) \/ ReleaseRead(t) \/ ReleaseWrite(t)

Spec == Init /\ [][Next]_lockVars
=============================================================================
