---------------------- MODULE TimeRecursiveMutexProofs ----------------------
(***************************************************************************)
(* What holds of the timed recursive mutex for any number of threads,      *)
(* calls and levels.  The invariant counts as a holder also the thread     *)
(* that took the event and is not the owner yet: the event is signalled    *)
(* exactly while there is no holder, and so there is never a second.       *)
(***************************************************************************)
EXTENDS TimeRecursiveMutex, TLAPS

Holds(t) == depth[t] > 0 \/ pc[t] = "own"

OneHolder == \A t, u \in Threads : Holds(t) /\ Holds(u) => t = u

\* A call finds what its guard has asked for until it changes it.
InCall ==
  \A t \in Threads :
    /\ pc[t] \in {"check", "leave", "wait", "own"} => depth[t] < MaxDepth
    /\ pc[t] = "release" => depth[t] > 0

IInv ==
  /\ TypeOK
  /\ OneHolder
  /\ OwnerCounts
  /\ OwnerNeverWaits
  /\ EventWhenFree
  /\ InCall

LEMMA InitIInv == Init => IInv
  BY MutexAssumption
  DEF Init, IInv, TypeOK, OneHolder, Holds, OwnerCounts, OwnerNeverWaits,
      EventWhenFree, InCall

-----------------------------------------------------------------------------
\* The steps that only lead a thread to another place, which is not "own".
Walks(t) ==
  \/ \E how \in {"lock", "trylock"} : CallLock(t, how)
  \/ CallUnlock(t)
  \/ EnterCriticalSection(t) \/ LeaveCriticalSection(t)
  \/ NotOwner(t) \/ Timeout(t)

LEMMA WalksType ==
  ASSUME IInv, NEW t \in Threads, Walks(t)
  PROVE  TypeOK'
<1> USE MutexAssumption DEF IInv, TypeOK
<1>1. ASSUME NEW how \in {"lock", "trylock"}, CallLock(t, how)
      PROVE  TypeOK'
  BY <1>1 DEF CallLock, mutexVars
<1>2. CASE CallUnlock(t)
  BY <1>2 DEF CallUnlock, mutexVars
<1>3. CASE EnterCriticalSection(t)
  BY <1>3 DEF EnterCriticalSection, mutexVars
<1>4. CASE LeaveCriticalSection(t)
  BY <1>4 DEF LeaveCriticalSection, mutexVars
<1>5. CASE NotOwner(t)
  BY <1>5 DEF NotOwner, Inside, mutexVars
<1>6. CASE Timeout(t)
  BY <1>6 DEF Timeout, mutexVars
<1> QED  BY <1>1, <1>2, <1>3, <1>4, <1>5, <1>6 DEF Walks

\* What a walking step leaves alone, and where it leads.
LEMMA WalksKeep ==
  ASSUME IInv, NEW t \in Threads, Walks(t)
  PROVE  /\ UNCHANGED <<mutexVars, depth>>
         /\ \E to \in {"idle", "check", "release", "leave", "wait"} \cup {pc[t]} :
              /\ pc' = [pc EXCEPT ![t] = to]
              /\ to \in {"leave", "wait"} => depth[t] = 0
              /\ to \in {"check", "leave", "wait", "own"} => depth[t] < MaxDepth
              /\ to = "release" => depth[t] > 0
              /\ pc[t] = "own" => to = "own"
<1> DEFINE Leads(to) ==
      /\ to \in {"idle", "check", "release", "leave", "wait"} \cup {pc[t]}
      /\ pc' = [pc EXCEPT ![t] = to]
      /\ to \in {"leave", "wait"} => depth[t] = 0
      /\ to \in {"check", "leave", "wait", "own"} => depth[t] < MaxDepth
      /\ to = "release" => depth[t] > 0
      /\ pc[t] = "own" => to = "own"
<1>1. SUFFICES UNCHANGED <<mutexVars, depth>> /\ \E to : Leads(to)
  OBVIOUS
<1> HIDE DEF Leads
<1>2. ASSUME NEW how \in {"lock", "trylock"}, CallLock(t, how)
      PROVE  UNCHANGED <<mutexVars, depth>> /\ Leads("check")
  BY <1>2 DEF CallLock, Leads
<1>3. CASE CallUnlock(t)
  <2>1. UNCHANGED <<mutexVars, depth>> /\ Leads("release")
    BY <1>3 DEF CallUnlock, Leads
  <2> QED  BY <2>1
<1>4. CASE EnterCriticalSection(t)
  <2>1. UNCHANGED <<mutexVars, depth>> /\ pc' = [pc EXCEPT ![t] = pc[t]]
    BY <1>4 DEF EnterCriticalSection, IInv, TypeOK
  <2>2. Leads(pc[t])
    BY <2>1 DEF Leads, IInv, OwnerNeverWaits, InCall
  <2> QED  BY <2>1, <2>2
<1>5. CASE LeaveCriticalSection(t)
  <2>1. /\ UNCHANGED <<mutexVars, depth>>
        /\ \/ pc[t] = "return" /\ pc' = [pc EXCEPT ![t] = "idle"]
           \/ pc[t] = "leave" /\ pc' = [pc EXCEPT ![t] = "wait"]
    BY <1>5 DEF LeaveCriticalSection
  <2>2. Leads("idle") \/ Leads("wait")
    BY <2>1 DEF Leads, IInv, OwnerNeverWaits, InCall
  <2> QED  BY <2>1, <2>2
<1>6. CASE NotOwner(t)
  <2>1. UNCHANGED <<mutexVars, depth>> /\ depth[t] = 0
    BY <1>6 DEF NotOwner, IInv, OwnerCounts, TypeOK
  <2>2. Leads("leave")
    BY <1>6, <2>1 DEF NotOwner, Inside, Leads, IInv, InCall
  <2> QED  BY <2>1, <2>2
<1>7. CASE Timeout(t)
  <2>1. UNCHANGED <<mutexVars, depth>> /\ Leads("idle")
    BY <1>7 DEF Timeout, Leads
  <2> QED  BY <2>1
<1> QED  BY <1>2, <1>3, <1>4, <1>5, <1>6, <1>7 DEF Walks

LEMMA WalksStep ==
  ASSUME IInv, NEW t \in Threads, Walks(t)
  PROVE  IInv'
<1>1. TypeOK'
  BY WalksType
<1>2. UNCHANGED <<mutexVars, depth>>
  BY WalksKeep
<1>3. PICK to \in {"idle", "check", "release", "leave", "wait"} \cup {pc[t]} :
        /\ pc' = [pc EXCEPT ![t] = to]
        /\ to \in {"leave", "wait"} => depth[t] = 0
        /\ to \in {"check", "leave", "wait", "own"} => depth[t] < MaxDepth
        /\ to = "release" => depth[t] > 0
        /\ pc[t] = "own" => to = "own"
  BY WalksKeep
<1>4. \A u \in Threads : pc'[u] = IF u = t THEN to ELSE pc[u]
  BY <1>3 DEF IInv, TypeOK
<1>5. \A u \in Threads : pc'[u] = "own" <=> pc[u] = "own"
  BY <1>3, <1>4
<1>6. OneHolder' /\ EventWhenFree'
  BY <1>2, <1>5 DEF IInv, OneHolder, Holds, EventWhenFree, mutexVars
<1>7. OwnerCounts'
  BY <1>2 DEF IInv, OwnerCounts, mutexVars
<1>8. OwnerNeverWaits'
  BY <1>2, <1>3, <1>4 DEF IInv, OwnerNeverWaits
<1>9. InCall'
  BY <1>2, <1>3, <1>4 DEF IInv, InCall
<1> QED  BY <1>1, <1>6, <1>7, <1>8, <1>9 DEF IInv

-----------------------------------------------------------------------------
LEMMA RecurStep ==
  ASSUME IInv, NEW t \in Threads, Recur(t)
  PROVE  IInv'
<1>1. /\ owner_thread = t /\ pc[t] = "check"
      /\ depth[t] > 0 /\ depth[t] < MaxDepth /\ lock_count = depth[t]
  BY DEF Recur, Inside, IInv, OwnerCounts, InCall
<1>2. /\ pc' = [pc EXCEPT ![t] = "return"]
      /\ depth' = [depth EXCEPT ![t] = @ + 1]
      /\ lock_count' = lock_count + 1
      /\ UNCHANGED <<event, owner_thread, cs, op, calls>>
  BY DEF Recur, Inside
<1>3. \A u \in Threads : u # t => depth[u] = 0 /\ pc[u] # "own"
  BY <1>1 DEF IInv, OneHolder, Holds, TypeOK
<1>4. \A u \in Threads :
        /\ pc'[u] = IF u = t THEN "return" ELSE pc[u]
        /\ depth'[u] = IF u = t THEN depth[t] + 1 ELSE depth[u]
  BY <1>2 DEF IInv, TypeOK
<1>5. TypeOK'
  BY <1>1, <1>2, MutexAssumption DEF IInv, TypeOK
<1>6. OneHolder'
  BY <1>3, <1>4, <1>5 DEF OneHolder, Holds
<1>7. OwnerCounts'
  BY <1>1, <1>2, <1>3, <1>4, MutexAssumption DEF IInv, OwnerCounts, TypeOK
<1>8. OwnerNeverWaits' /\ InCall'
  BY <1>4 DEF IInv, OwnerNeverWaits, InCall
<1>9. EventWhenFree'
  BY <1>1, <1>2, <1>4, MutexAssumption DEF IInv, EventWhenFree, TypeOK
<1> QED  BY <1>5, <1>6, <1>7, <1>8, <1>9 DEF IInv

LEMMA WaitStep ==
  ASSUME IInv, NEW t \in Threads, Wait(t)
  PROVE  IInv'
<1>1. event /\ pc[t] = "wait" /\ depth[t] = 0
  BY DEF Wait, IInv, OwnerNeverWaits
<1>2. /\ pc' = [pc EXCEPT ![t] = "own"]
      /\ event' = FALSE
      /\ UNCHANGED <<owner_thread, lock_count, cs, op, depth, calls>>
  BY DEF Wait
<1>3. \A u \in Threads : depth[u] = 0 /\ pc[u] # "own"
  BY <1>1 DEF IInv, EventWhenFree
<1>4. \A u \in Threads : pc'[u] = IF u = t THEN "own" ELSE pc[u]
  BY <1>2 DEF IInv, TypeOK
<1>5. TypeOK'
  BY <1>2 DEF IInv, TypeOK
<1>6. OneHolder' /\ EventWhenFree'
  BY <1>2, <1>3, <1>4 DEF OneHolder, Holds, EventWhenFree
<1>7. OwnerCounts' /\ OwnerNeverWaits'
  BY <1>2, <1>3, <1>4 DEF IInv, OwnerCounts, OwnerNeverWaits
<1>8. InCall'
  BY <1>1, <1>2, <1>4 DEF IInv, InCall
<1> QED  BY <1>5, <1>6, <1>7, <1>8 DEF IInv

LEMMA OwnStep ==
  ASSUME IInv, NEW t \in Threads, Own(t)
  PROVE  IInv'
<1>1. pc[t] = "own" /\ depth[t] = 0 /\ 0 < MaxDepth
  BY MutexAssumption DEF Own, Inside, IInv, OwnerNeverWaits, InCall
<1>2. /\ pc' = [pc EXCEPT ![t] = "return"]
      /\ owner_thread' = t /\ lock_count' = 1
      /\ depth' = [depth EXCEPT ![t] = 1]
      /\ UNCHANGED <<event, cs, op, calls>>
  BY DEF Own, Inside
<1>3. \A u \in Threads : u # t => depth[u] = 0 /\ pc[u] # "own"
  BY <1>1 DEF IInv, OneHolder, Holds, TypeOK
<1>4. \A u \in Threads :
        /\ pc'[u] = IF u = t THEN "return" ELSE pc[u]
        /\ depth'[u] = IF u = t THEN 1 ELSE depth[u]
  BY <1>2 DEF IInv, TypeOK
<1>5. TypeOK'
  BY <1>1, <1>2, MutexAssumption DEF IInv, TypeOK
<1>6. OneHolder' /\ OwnerCounts'
  BY <1>2, <1>3, <1>4 DEF OneHolder, Holds, OwnerCounts
<1>7. OwnerNeverWaits' /\ InCall'
  BY <1>4 DEF IInv, OwnerNeverWaits, InCall
<1>8. EventWhenFree'
  BY <1>1, <1>2, <1>4 DEF IInv, EventWhenFree
<1> QED  BY <1>5, <1>6, <1>7, <1>8 DEF IInv

LEMMA ReleaseStep ==
  ASSUME IInv, NEW t \in Threads, Release(t)
  PROVE  IInv'
<1>1. /\ pc[t] = "release" /\ depth[t] > 0
      /\ owner_thread = t /\ lock_count = depth[t]
  BY DEF Release, Inside, IInv, InCall, OwnerCounts
<1>2. /\ pc' = [pc EXCEPT ![t] = "return"]
      /\ depth' = [depth EXCEPT ![t] = @ - 1]
      /\ lock_count' = lock_count - 1
      /\ owner_thread' = IF depth[t] = 1 THEN NoThread ELSE t
      /\ depth[t] = 1 => event' = TRUE
      /\ depth[t] # 1 => event' = event
      /\ UNCHANGED <<cs, op, calls>>
  <2>1. lock_count = 1 \/ lock_count > 1
    BY <1>1 DEF IInv, TypeOK
  <2>2. event \in BOOLEAN /\ lock_count \in Int
    BY DEF IInv, TypeOK
  <2>3. CASE lock_count > 1
    BY <1>1, <2>2, <2>3 DEF Release, Inside
  <2>4. CASE lock_count = 1
    BY <1>1, <2>2, <2>4 DEF Release, Inside
  <2> QED  BY <2>1, <2>3, <2>4
<1>3. \A u \in Threads : u # t => depth[u] = 0 /\ pc[u] # "own"
  BY <1>1 DEF IInv, OneHolder, Holds, TypeOK
<1>4. \A u \in Threads :
        /\ pc'[u] = IF u = t THEN "return" ELSE pc[u]
        /\ depth'[u] = IF u = t THEN depth[t] - 1 ELSE depth[u]
  BY <1>2 DEF IInv, TypeOK
<1>5. depth[t] \in 1 .. MaxDepth
  BY <1>1, MutexAssumption DEF IInv, TypeOK
<1>6. TypeOK'
  <2>1. event' \in BOOLEAN
    BY <1>2 DEF IInv, TypeOK
  <2>2. depth' \in [Threads -> 0 .. MaxDepth] /\ lock_count' \in 0 .. MaxDepth
    BY <1>1, <1>2, <1>5, MutexAssumption DEF IInv, TypeOK
  <2>3. owner_thread' \in Threads \cup {NoThread}
    BY <1>2
  <2> QED  BY <1>2, <2>1, <2>2, <2>3 DEF IInv, TypeOK
<1>7. OneHolder'
  BY <1>3, <1>4, <1>5 DEF OneHolder, Holds
<1>8. OwnerCounts'
  BY <1>1, <1>2, <1>3, <1>4, <1>5, MutexAssumption DEF OwnerCounts
<1>9. OwnerNeverWaits' /\ InCall'
  BY <1>4 DEF IInv, OwnerNeverWaits, InCall
<1>10. EventWhenFree'
  <2>1. ~event
    BY <1>1 DEF IInv, EventWhenFree, TypeOK
  <2>2. event' <=> depth'[t] = 0
    <3>1. CASE depth[t] = 1
      BY <1>2, <1>4, <3>1
    <3>2. CASE depth[t] # 1
      BY <1>2, <1>4, <1>5, <2>1, <3>2
    <3> QED  BY <3>1, <3>2
  <2> QED  BY <1>3, <1>4, <2>2 DEF EventWhenFree
<1> QED  BY <1>6, <1>7, <1>8, <1>9, <1>10 DEF IInv

LEMMA NextIInv == IInv /\ [Next]_vars => IInv'
<1> SUFFICES ASSUME IInv, [Next]_vars
             PROVE  IInv'
  OBVIOUS
<1>1. CASE UNCHANGED vars
  BY <1>1 DEF IInv, TypeOK, OneHolder, Holds, OwnerCounts, OwnerNeverWaits,
              EventWhenFree, InCall, vars, mutexVars
<1>2. ASSUME NEW t \in Threads,
             \/ CallLock(t, "lock") \/ CallLock(t, "trylock")
             \/ CallUnlock(t)
             \/ Step(t)
      PROVE  IInv'
  <2>1. Walks(t) \/ Recur(t) \/ Wait(t) \/ Own(t) \/ Release(t)
    BY <1>2 DEF Step, Walks
  <2> QED  BY <2>1, WalksStep, RecurStep, WaitStep, OwnStep, ReleaseStep
<1> QED  BY <1>1, <1>2 DEF Next

-----------------------------------------------------------------------------
\* The count never exceeds the levels that are held, and every value keeps its
\* type.
THEOREM TypeCorrect == Spec => []TypeOK
<1>1. IInv => TypeOK
  BY DEF IInv
<1> QED  BY <1>1, InitIInv, NextIInv, PTL DEF Spec

\* The owner and its count are what the threads were told: two never both hold
\* the mutex.
THEOREM OwnerIsHolder == Spec => []OwnerCounts
<1>1. IInv => OwnerCounts
  BY DEF IInv
<1> QED  BY <1>1, InitIInv, NextIInv, PTL DEF Spec

\* A thread that holds the mutex never waits for it.
THEOREM NoSelfDeadlock == Spec => []OwnerNeverWaits
<1>1. IInv => OwnerNeverWaits
  BY DEF IInv
<1> QED  BY <1>1, InitIInv, NextIInv, PTL DEF Spec

\* The event is signalled as soon as nobody holds the mutex.
THEOREM NoLostWakeup == Spec => []EventWhenFree
<1>1. IInv => EventWhenFree
  BY DEF IInv
<1> QED  BY <1>1, InitIInv, NextIInv, PTL DEF Spec
=============================================================================
