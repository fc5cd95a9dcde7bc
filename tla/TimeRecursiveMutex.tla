------------------------- MODULE TimeRecursiveMutex -------------------------
(***************************************************************************)
(* The timed recursive mutex of woort_threads.c as it is built on Windows: *)
(* an event that is signalled while the mutex is free, and the owner with  *)
(* its count under a critical section.                                     *)
(*                                                                         *)
(* The event resets itself: of those that wait for it one goes on.  A      *)
(* thread calls unlock only while it holds the mutex, as its clients must. *)
(***************************************************************************)
EXTENDS Integers

CONSTANTS
  Threads,
  NoThread,  \* the thread id 0
  MaxCalls,  \* bound: the calls of lock and trylock of a thread
  MaxDepth   \* bound: how often a thread holds the mutex at once

ASSUME MutexAssumption ==
  /\ NoThread \notin Threads
  /\ MaxCalls \in Nat
  /\ MaxDepth \in Nat

VARIABLES
  event,         \* is the event signalled?
  owner_thread,
  lock_count,
  cs,            \* who is in the critical section
  pc,
  op,            \* the call a thread is in, or was in last
  depth,         \* how often a thread holds the mutex, from what it was told
  calls

mutexVars == <<event, owner_thread, lock_count>>
vars == <<mutexVars, cs, pc, op, depth, calls>>

Init ==
  /\ event = TRUE
  /\ owner_thread = NoThread
  /\ lock_count = 0
  /\ cs = NoThread
  /\ pc = [t \in Threads |-> "idle"]
  /\ op = [t \in Threads |-> "unlock"]
  /\ depth = [t \in Threads |-> 0]
  /\ calls = [t \in Threads |-> 0]

-----------------------------------------------------------------------------
\* A thread enters one of woort_time_recursive_mutex_lock and _trylock.
CallLock(t, how) ==
  /\ pc[t] = "idle"
  /\ calls[t] < MaxCalls /\ depth[t] < MaxDepth
  /\ calls' = [calls EXCEPT ![t] = @ + 1]
  /\ op' = [op EXCEPT ![t] = how]
  /\ pc' = [pc EXCEPT ![t] = "check"]
  /\ UNCHANGED <<mutexVars, cs, depth>>

CallUnlock(t) ==
  /\ pc[t] = "idle" /\ depth[t] > 0
  /\ op' = [op EXCEPT ![t] = "unlock"]
  /\ pc' = [pc EXCEPT ![t] = "release"]
  /\ UNCHANGED <<mutexVars, cs, depth, calls>>

EnterCriticalSection(t) ==
  /\ pc[t] \in {"check", "own", "release"}
  /\ cs = NoThread
  /\ cs' = t
  /\ UNCHANGED <<mutexVars, pc, op, depth, calls>>

\* The critical section is left: on to the end of the call or to the event.
LeaveCriticalSection(t) ==
  /\ cs = t
  /\ pc[t] \in {"return", "leave"}
  /\ cs' = NoThread
  /\ pc' = [pc EXCEPT ![t] = IF pc[t] = "return" THEN "idle" ELSE "wait"]
  /\ UNCHANGED <<mutexVars, op, depth, calls>>

\* In the critical section thread t is done with place "at", and goes to "to".
Inside(t, at, to) ==
  /\ cs = t /\ pc[t] = at
  /\ pc' = [pc EXCEPT ![t] = to]
  /\ UNCHANGED <<cs, op, calls>>

\* The owner comes again.
Recur(t) ==
  /\ owner_thread = t
  /\ Inside(t, "check", "return")
  /\ lock_count' = lock_count + 1
  /\ depth' = [depth EXCEPT ![t] = @ + 1]
  /\ UNCHANGED <<event, owner_thread>>

NotOwner(t) ==
  /\ owner_thread # t
  /\ Inside(t, "check", "leave")
  /\ UNCHANGED <<mutexVars, depth>>

\* Bug: the event is created with manual reset.
WaitManualReset(t) ==
  /\ pc[t] = "wait" /\ event
  /\ pc' = [pc EXCEPT ![t] = "own"]
  /\ UNCHANGED <<mutexVars, cs, op, depth, calls>>

\* WaitForSingleObject returns WAIT_OBJECT_0.
Wait(t) ==
  /\ pc[t] = "wait" /\ event
  /\ event' = FALSE
  /\ pc' = [pc EXCEPT ![t] = "own"]
  /\ UNCHANGED <<owner_thread, lock_count, cs, op, depth, calls>>

\* The timeout, which may be 0, has passed.
Timeout(t) ==
  /\ pc[t] = "wait" /\ op[t] = "trylock"
  /\ ~event
  /\ pc' = [pc EXCEPT ![t] = "idle"]
  /\ UNCHANGED <<mutexVars, cs, op, depth, calls>>

Own(t) ==
  /\ Inside(t, "own", "return")
  /\ owner_thread' = t
  /\ lock_count' = 1
  /\ depth' = [depth EXCEPT ![t] = 1]
  /\ UNCHANGED event

\* Bug: the event is not set.
ReleaseSilent(t) ==
  /\ Inside(t, "release", "return")
  /\ lock_count' = lock_count - 1
  /\ depth' = [depth EXCEPT ![t] = @ - 1]
  /\ owner_thread' = IF lock_count = 1 THEN NoThread ELSE owner_thread
  /\ UNCHANGED event

\* Bug: the count is lowered only by the last unlock.
ReleaseKeepsCount(t) ==
  /\ Inside(t, "release", "return")
  /\ depth' = [depth EXCEPT ![t] = @ - 1]
  /\ IF lock_count = 1
       THEN lock_count' = 0 /\ owner_thread' = NoThread /\ event' = TRUE
       ELSE UNCHANGED mutexVars

\* The last unlock gives the mutex to a thread that waits.
Release(t) ==
  /\ Inside(t, "release", "return")
  /\ depth' = [depth EXCEPT ![t] = @ - 1]
  /\ IF lock_count > 1
       THEN lock_count' = lock_count - 1 /\ UNCHANGED <<event, owner_thread>>
       ELSE IF lock_count = 1
       THEN lock_count' = 0 /\ owner_thread' = NoThread /\ event' = TRUE
       ELSE UNCHANGED mutexVars

-----------------------------------------------------------------------------
Step(t) ==
  \/ EnterCriticalSection(t) \/ LeaveCriticalSection(t)
  \/ Recur(t) \/ NotOwner(t)
  \/ Wait(t) \/ Timeout(t) \/ Own(t)
  \/ Release(t)

Next ==
  \E t \in Threads :
    \/ CallLock(t, "lock") \/ CallLock(t, "trylock")
    \/ CallUnlock(t)
    \/ Step(t)

Spec == Init /\ [][Next]_vars

\* Threads go on with their calls, and give back what they hold.
FairSpec ==
  /\ Spec
  /\ \A t \in Threads : WF_vars(Step(t)) /\ WF_vars(CallUnlock(t))
-----------------------------------------------------------------------------
TypeOK ==
  /\ event \in BOOLEAN
  /\ owner_thread \in Threads \cup {NoThread}
  /\ lock_count \in 0 .. MaxDepth
  /\ cs \in Threads \cup {NoThread}
  /\ pc \in [Threads ->
       {"idle", "check", "return", "leave", "wait", "own", "release"}]
  /\ op \in [Threads -> {"lock", "trylock", "unlock"}]
  /\ depth \in [Threads -> 0 .. MaxDepth]
  /\ calls \in [Threads -> 0 .. MaxCalls]

\* Owner and count are what the threads were told: who locked n times more than
\* it unlocked is the owner with the count n, so that two threads never both
\* hold the mutex, though between the event and the critical section nobody is
\* its owner; and unlock does not lose one.
OwnerCounts ==
  \A t \in Threads :
    /\ depth[t] > 0 => owner_thread = t /\ lock_count = depth[t]
    /\ owner_thread = t => depth[t] > 0

\* Who holds the mutex never waits for the event, which only it could set: a
\* recursive call does not lock itself out, nor a trylock give up.
OwnerNeverWaits ==
  \A t \in Threads : pc[t] \in {"leave", "wait", "own"} => depth[t] = 0

\* No wakeup is lost, whoever has given up: the event is signalled as soon as
\* nobody holds the mutex or is about to.
EventWhenFree ==
  event <=> \A t \in Threads : depth[t] = 0 /\ pc[t] # "own"

\* A lock call that waits gets the mutex, once the calls of the others are used up:
\* nothing in the code keeps them from taking the event again and again before it.
WaiterGetsIn ==
  \A t \in Threads : pc[t] = "wait" /\ op[t] = "lock" ~> depth[t] > 0
=============================================================================
