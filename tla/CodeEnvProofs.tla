--------------------------- MODULE CodeEnvProofs ----------------------------
(***************************************************************************)
(* Reference counting and the registry are right for any number of         *)
(* threads, environments and calls.                                        *)
(***************************************************************************)
EXTENDS CodeEnv, FiniteSetTheorems, SequenceTheorems, TLAPS

\* Who is where holds the lock, and a writer holds it alone.
LockHeld ==
  /\ readers = {t \in Threads : pc[t] \in {"find_scan", "find_unlock"}}
  /\ writers = {t \in Threads : pc[t] \in {"create_push", "create_unlock",
                                           "destroy_erase", "destroy_unlock"}}
  /\ writers # {} => readers = {}
  /\ \A t, u \in writers : t = u

\* An environment is its creator's alone until it is registered, and it is not
\* registered before the push and after the erasure.
BusyWith ==
  \A t \in Threads :
    /\ Creating(t) => env[t] \in CodeEnvs /\ Holders(env[t]) = {t}
    /\ pc[t] \in {"create_lock", "create_push", "create_undo",
                  "destroy_unlock", "destroy_free"} => env[t] \notin Registered

\* A search for an environment that its caller owns has not passed it by.
SearchSucceeds ==
  \A t \in Threads :
    env[t] \in pins[t] =>
      /\ pc[t] = "find_scan" =>
           \A k \in DOMAIN codeenvs : k < i[t] => codeenvs[k] # env[t]
      /\ pc[t] \in {"find_unlock", "find_return"} => found[t] = env[t]

IInv ==
  /\ TypeOK
  /\ LockHeld
  /\ CountsOwners
  /\ RegistryIsSound
  /\ DestroyedOnce
  /\ BusyWith
  /\ NothingLeaks
  /\ SearchSucceeds

USE DEF CreatePCs, DestroyPCs, FindPCs, registry

Busy(t) == Creating(t) \/ Destroying(t)

\* A step that takes nobody's environment away, and lets everybody who is busy
\* go on with his, loses nothing.
LEMMA NothingLost ==
  ASSUME NothingLeaks, heap' = heap,
         \A e \in heap : Holders(e) # {} /\ e \in Registered
                           => Holders(e)' # {} /\ e \in Registered',
         \A u \in Threads : Busy(u) => Busy(u)' /\ env'[u] = env[u]
  PROVE  NothingLeaks'
BY DEF NothingLeaks, Busy

-----------------------------------------------------------------------------
(***************************************************************************)
(* Steps that change neither what is allocated, counted or owned, nor the  *)
(* registry: the thread takes or gives back the lock, or searches.         *)
(***************************************************************************)
Unregistered == {"create_lock", "create_push", "create_undo",
                 "destroy_unlock", "destroy_free"}

LEMMA Unnoticed ==
  ASSUME IInv, NEW t \in Threads, NEW to,
         UNCHANGED <<heap, refcount, registry, pins, env>>,
         pc' = [pc EXCEPT ![t] = to],
         to \in CreatePCs => Creating(t), Creating(t) => to \in CreatePCs,
         to \in DestroyPCs => Destroying(t), Destroying(t) => to \in DestroyPCs,
         to \in Unregistered => pc[t] \in Unregistered
  PROVE  /\ CountsOwners' /\ RegistryIsSound' /\ DestroyedOnce' /\ BusyWith'
         /\ NothingLeaks'
<1>1. t \in DOMAIN pc /\ DOMAIN pc = Threads /\ pc'[t] = to
      /\ \A u \in Threads \ {t} : pc'[u] = pc[u]
  BY DEF IInv, TypeOK
<1>2. \A u \in Threads : /\ Creating(u)' = Creating(u) /\ Destroying(u)' = Destroying(u)
                         /\ pc'[u] \in Unregistered => pc[u] \in Unregistered
  BY <1>1 DEF Creating, Destroying
<1>3. /\ \A e : Holders(e)' = Holders(e)
      /\ Registered' = Registered
  BY DEF Holders, Registered
<1>4. CountsOwners'
  BY <1>3 DEF IInv, CountsOwners
<1>5. RegistryIsSound'
  BY <1>3 DEF IInv, RegistryIsSound, Overrun
<1>6. DestroyedOnce'
  BY <1>2, <1>3 DEF IInv, DestroyedOnce
<1>7. BusyWith'
  BY <1>2, <1>3 DEF IInv, BusyWith, Unregistered
<1>8. NothingLeaks'
  BY <1>2, <1>3, NothingLost DEF IInv, Busy
<1> QED BY <1>4, <1>5, <1>6, <1>7, <1>8

LEMMA CreateLockStep ==
  ASSUME IInv, NEW t \in Threads, CreateLock(t)
  PROVE  IInv'
<1> USE DEF CreateLock, Goto, IInv, Lock!AcquireWrite
<1>1. TypeOK' BY DEF TypeOK
<1>2. LockHeld' BY DEF TypeOK, LockHeld
<1>3. SearchSucceeds' BY DEF TypeOK, SearchSucceeds
<1>4. CountsOwners' /\ RegistryIsSound' /\ DestroyedOnce' /\ BusyWith' /\ NothingLeaks'
  BY Unnoticed DEF Creating, Destroying, Unregistered
<1> QED BY <1>1, <1>2, <1>3, <1>4

LEMMA DestroyLockStep ==
  ASSUME IInv, NEW t \in Threads, DestroyLock(t)
  PROVE  IInv'
<1> USE DEF DestroyLock, Goto, IInv, Lock!AcquireWrite
<1>1. TypeOK' BY DEF TypeOK
<1>2. LockHeld' BY DEF TypeOK, LockHeld
<1>3. SearchSucceeds' BY DEF TypeOK, SearchSucceeds
<1>4. CountsOwners' /\ RegistryIsSound' /\ DestroyedOnce' /\ BusyWith' /\ NothingLeaks'
  BY Unnoticed DEF Creating, Destroying, Unregistered
<1> QED BY <1>1, <1>2, <1>3, <1>4

LEMMA DestroyUnlockStep ==
  ASSUME IInv, NEW t \in Threads, DestroyUnlock(t)
  PROVE  IInv'
<1> USE DEF DestroyUnlock, Goto, IInv, Lock!ReleaseWrite
<1>1. TypeOK' BY DEF TypeOK
<1>2. LockHeld' BY DEF TypeOK, LockHeld
<1>3. SearchSucceeds' BY DEF TypeOK, SearchSucceeds
<1>4. CountsOwners' /\ RegistryIsSound' /\ DestroyedOnce' /\ BusyWith' /\ NothingLeaks'
  BY Unnoticed DEF Creating, Destroying, Unregistered
<1> QED BY <1>1, <1>2, <1>3, <1>4

LEMMA FindLockStep ==
  ASSUME IInv, NEW t \in Threads, FindLock(t)
  PROVE  IInv'
<1> USE DEF FindLock, Goto, IInv, Lock!AcquireRead
<1>1. TypeOK' BY DEF TypeOK
<1>2. LockHeld' BY DEF TypeOK, LockHeld
<1>3. SearchSucceeds' BY DEF TypeOK, SearchSucceeds
<1>4. CountsOwners' /\ RegistryIsSound' /\ DestroyedOnce' /\ BusyWith' /\ NothingLeaks'
  BY Unnoticed DEF Creating, Destroying, Unregistered
<1> QED BY <1>1, <1>2, <1>3, <1>4

LEMMA FindUnlockStep ==
  ASSUME IInv, NEW t \in Threads, FindUnlock(t)
  PROVE  IInv'
<1> USE DEF FindUnlock, Goto, IInv, Lock!ReleaseRead
<1>1. TypeOK' BY DEF TypeOK
<1>2. LockHeld' BY DEF TypeOK, LockHeld
<1>3. SearchSucceeds' BY DEF TypeOK, SearchSucceeds
<1>4. CountsOwners' /\ RegistryIsSound' /\ DestroyedOnce' /\ BusyWith' /\ NothingLeaks'
  BY Unnoticed DEF Creating, Destroying, Unregistered
<1> QED BY <1>1, <1>2, <1>3, <1>4

LEMMA FindReturnStep ==
  ASSUME IInv, NEW t \in Threads, FindReturn(t)
  PROVE  IInv'
<1> USE DEF FindReturn, Goto, IInv, LockKept
<1>1. TypeOK' BY DEF TypeOK
<1>2. LockHeld' BY DEF TypeOK, LockHeld
<1>3. SearchSucceeds' BY DEF TypeOK, SearchSucceeds
<1>4. CountsOwners' /\ RegistryIsSound' /\ DestroyedOnce' /\ BusyWith' /\ NothingLeaks'
  BY Unnoticed DEF Creating, Destroying, Unregistered
<1> QED BY <1>1, <1>2, <1>3, <1>4

\* Why an owner finds its code: what somebody owns, and nobody is creating or
\* destroying, is registered.
LEMMA OwnedIsRegistered ==
  ASSUME IInv, NEW t \in Threads, NEW e \in pins[t], ~Creating(t)
  PROVE  e \in Registered
<1>1. e \in heap /\ t \in Holders(e)
  BY DEF IInv, CountsOwners, Holders
<1>2. ASSUME NEW u \in Threads, env[u] = e, Creating(u) \/ Destroying(u)
      PROVE  FALSE
  <2>1. CASE Creating(u)
    BY <1>1, <1>2, <2>1 DEF IInv, BusyWith
  <2>2. CASE Destroying(u)
    BY <1>1, <1>2, <2>2 DEF IInv, DestroyedOnce
  <2> QED BY <1>2, <2>1, <2>2
<1> QED BY <1>1, <1>2 DEF IInv, NothingLeaks

LEMMA FindScanStep ==
  ASSUME IInv, NEW t \in Threads, FindScan(t)
  PROVE  IInv'
<1> USE DEF FindScan, Goto, IInv
<1>1. /\ codeenvs \in Seq(CodeEnvs) /\ i[t] \in Nat \ {0} /\ i[t] + 1 \in Nat \ {0}
      /\ i[t] <= Len(codeenvs) => codeenvs[i[t]] \in CodeEnvs
  BY DEF TypeOK
<1>2. TypeOK'
  <2>1. UNCHANGED <<heap, refcount, registry, readers, writers, env, pins, calls>>
        /\ pc' \in [Threads -> {"idle"} \cup CreatePCs \cup DestroyPCs \cup FindPCs]
    BY DEF TypeOK
  <2>2. i' = i \/ i' = [i EXCEPT ![t] = i[t] + 1]
    OBVIOUS
  <2>3. i' \in [Threads -> Nat \ {0}]
    <3>1. i \in [Threads -> Nat \ {0}]
      BY DEF TypeOK
    <3> HIDE DEF FindScan, IInv
    <3> QED BY <1>1, <2>2, <3>1
  <2>4. found' \in [Threads -> CodeEnvs \cup {NoEnv}]
    BY <1>1 DEF TypeOK
  <2> QED BY <2>1, <2>3, <2>4 DEF TypeOK
<1>3. LockHeld' BY DEF TypeOK, LockHeld
<1>4. CountsOwners' /\ RegistryIsSound' /\ DestroyedOnce' /\ BusyWith' /\ NothingLeaks'
  BY Unnoticed DEF Creating, Destroying, Unregistered
<1>5. SearchSucceeds'
  <2>1. env[t] \in pins[t] => \E k \in DOMAIN codeenvs : codeenvs[k] = env[t]
    BY OwnedIsRegistered DEF Creating, Registered
  <2>2. ASSUME env[t] \in pins[t], i[t] > Len(codeenvs)
        PROVE  FALSE
    BY <1>1, <2>1, <2>2 DEF TypeOK, SearchSucceeds
  <2> QED BY <1>1, <2>2 DEF TypeOK, SearchSucceeds
<1> QED BY <1>2, <1>3, <1>4, <1>5

LEMMA FindCallStep ==
  ASSUME IInv, NEW t \in Threads, NEW e \in CodeEnvs, FindCall(t, e)
  PROVE  IInv'
<1> USE DEF FindCall, Begin, Goto, IInv, LockKept
<1>1. TypeOK' BY CodeEnvAssumption DEF TypeOK
<1>2. LockHeld' BY DEF TypeOK, LockHeld
<1>3. SearchSucceeds' BY DEF TypeOK, SearchSucceeds
<1>4. CountsOwners' BY DEF TypeOK, CountsOwners, Holders
<1>5. RegistryIsSound' BY DEF TypeOK, RegistryIsSound, Registered, Overrun
<1>6. DestroyedOnce' BY DEF TypeOK, DestroyedOnce, Holders, Destroying
<1>7. BusyWith' BY DEF TypeOK, BusyWith, Holders, Creating, Registered
<1>8. NothingLeaks'
  <2>1. \A u \in Threads : Busy(u) => Busy(u)' /\ env'[u] = env[u]
    BY DEF TypeOK, Busy, Creating, Destroying
  <2>2. Registered' = Registered /\ \A x : Holders(x)' = Holders(x)
    BY DEF Registered, Holders
  <2> QED BY <2>1, <2>2, NothingLost
<1> QED BY <1>1, <1>2, <1>3, <1>4, <1>5, <1>6, <1>7, <1>8

-----------------------------------------------------------------------------
(***************************************************************************)
(* Counting.                                                               *)
(***************************************************************************)
LEMMA HoldersFinite ==
  ASSUME NEW e
  PROVE  IsFiniteSet(Holders(e)) /\ Cardinality(Holders(e)) \in Nat
<1>1. Holders(e) \subseteq Threads
  BY DEF Holders
<1> QED BY <1>1, CodeEnvAssumption, FS_Subset, FS_CardinalityType

LEMMA CreateAllocStep ==
  ASSUME IInv, NEW t \in Threads, NEW e \in CodeEnvs, CreateAlloc(t, e)
  PROVE  IInv'
<1> USE DEF CreateAlloc, Begin, Goto, IInv, LockKept
<1>1. /\ Holders(e) = {} /\ Holders(e)' = {t} /\ e \notin Registered
      /\ \A x \in heap : Holders(x)' = Holders(x)
      /\ Registered' = Registered
  BY DEF TypeOK, Holders, CountsOwners, RegistryIsSound, Registered
<1>2. TypeOK' BY CodeEnvAssumption DEF TypeOK
<1>3. LockHeld' BY DEF TypeOK, LockHeld
<1>4. CountsOwners'
  <2>1. Cardinality({t}) = 1
    BY FS_Singleton
  <2>2. \A u \in Threads : pins'[u] \subseteq heap'
    BY DEF TypeOK, CountsOwners
  <2>3. \A x \in heap' : refcount'[x] = Cardinality(Holders(x)')
    BY <1>1, <2>1 DEF TypeOK, CountsOwners
  <2> QED BY <2>2, <2>3 DEF CountsOwners
<1>5. RegistryIsSound' BY DEF TypeOK, RegistryIsSound, Registered, Overrun
<1>6. DestroyedOnce'
  BY <1>1 DEF TypeOK, DestroyedOnce, Destroying
<1>7. BusyWith'
  <2>1. \A u \in Threads \ {t} : Creating(u) => env[u] \in heap
    BY DEF BusyWith, Holders, CountsOwners
  <2> QED BY <1>1, <2>1 DEF TypeOK, BusyWith, Creating
<1>8. NothingLeaks'
  <2>1. ASSUME NEW x \in heap
        PROVE  \/ Holders(x)' # {} /\ x \in Registered'
               \/ \E u \in Threads : env'[u] = x /\ (Creating(u)' \/ Destroying(u)')
    <3>1. CASE Holders(x) # {} /\ x \in Registered
      BY <1>1, <3>1
    <3>2. CASE \E u \in Threads : env[u] = x /\ (Creating(u) \/ Destroying(u))
      BY <3>2 DEF TypeOK, Creating, Destroying
    <3> QED BY <3>1, <3>2 DEF NothingLeaks
  <2>2. env'[t] = e /\ Creating(t)'
    BY DEF TypeOK, Creating
  <2> QED BY <2>1, <2>2 DEF NothingLeaks
<1>9. SearchSucceeds' BY DEF TypeOK, SearchSucceeds
<1> QED BY <1>2, <1>3, <1>4, <1>5, <1>6, <1>7, <1>8, <1>9

LEMMA ShareStep ==
  ASSUME IInv, NEW t \in Threads, NEW u \in Threads, NEW e \in CodeEnvs, Share(t, u, e)
  PROVE  IInv'
<1> USE DEF Share, Begin, IInv, LockKept
<1>1. /\ Holders(e)' = Holders(e) \cup {u} /\ u \notin Holders(e) /\ t \in Holders(e)
      /\ \A x \in CodeEnvs \ {e} : Holders(x)' = Holders(x)
      /\ Registered' = Registered
  BY DEF TypeOK, Holders, Registered
<1>2. TypeOK' BY CodeEnvAssumption DEF TypeOK
<1>3. LockHeld' BY DEF TypeOK, LockHeld
<1>4. CountsOwners'
  <2>1. Cardinality(Holders(e) \cup {u}) = Cardinality(Holders(e)) + 1
    BY <1>1, HoldersFinite, FS_AddElement
  <2>2. \A v \in Threads : pins'[v] \subseteq heap'
    BY DEF TypeOK, CountsOwners
  <2>3. \A x \in heap' : refcount'[x] = Cardinality(Holders(x)')
    BY <1>1, <2>1 DEF TypeOK, CountsOwners
  <2> QED BY <2>2, <2>3 DEF CountsOwners
<1>5. RegistryIsSound' BY DEF TypeOK, RegistryIsSound, Registered, Overrun
<1>6. DestroyedOnce'
  BY <1>1 DEF TypeOK, DestroyedOnce, Destroying
<1>7. BusyWith'
  <2>1. \A v \in Threads : Creating(v) => env[v] \in CodeEnvs \ {e}
    BY <1>1 DEF BusyWith, Creating
  <2> QED BY <1>1, <2>1 DEF BusyWith, Creating
<1>8. NothingLeaks'
  <2>1. \A v \in Threads : Busy(v) => Busy(v)' /\ env'[v] = env[v]
    BY DEF Busy, Creating, Destroying
  <2>2. heap \subseteq CodeEnvs
    BY DEF TypeOK
  <2> QED BY <1>1, <2>1, <2>2, NothingLost
<1>9. SearchSucceeds' BY DEF TypeOK, SearchSucceeds
<1> QED BY <1>2, <1>3, <1>4, <1>5, <1>6, <1>7, <1>8, <1>9

\* Whether an owner lets go or a creator undoes: the last one goes on to destroy.
LEMMA DropStep ==
  ASSUME IInv, NEW t \in Threads, NEW e \in pins[t], NEW from \in {"idle", "create_undo"},
         from = "create_undo" => env[t] = e,
         Drop(t, e, from), calls' \in [Threads -> 0 .. MaxCalls]
  PROVE  IInv'
<1> USE DEF Drop, Goto, IInv, LockKept
<1>1. /\ e \in heap /\ e \in CodeEnvs /\ t \in Holders(e)
      /\ Holders(e)' = Holders(e) \ {t}
      /\ \A x \in CodeEnvs \ {e} : Holders(x)' = Holders(x)
      /\ Registered' = Registered
  BY DEF TypeOK, Holders, Registered, CountsOwners
<1>2. /\ refcount[e] = Cardinality(Holders(e)) /\ refcount[e] \in Nat \ {0}
      /\ Cardinality(Holders(e) \ {t}) = refcount[e] - 1
      /\ (refcount[e] = 1) <=> (Holders(e)' = {})
  <2>1. refcount[e] = Cardinality(Holders(e)) /\ IsFiniteSet(Holders(e))
    BY <1>1, HoldersFinite DEF CountsOwners
  <2>2. Cardinality(Holders(e) \ {t}) = Cardinality(Holders(e)) - 1
    BY <1>1, <2>1, FS_RemoveElement
  <2>3. Cardinality(Holders(e) \ {t}) \in Nat /\ IsFiniteSet(Holders(e) \ {t})
    BY <2>1, FS_RemoveElement, FS_CardinalityType
  <2>4. Cardinality(Holders(e) \ {t}) = 0 <=> Holders(e) \ {t} = {}
    BY <2>3, FS_EmptySet
  <2>5. Cardinality(Holders(e)) \in Nat
    BY HoldersFinite
  <2>6. Holders(e) # {}
    BY <1>1
  <2>7. Cardinality(Holders(e)) # 0
    BY <2>1, <2>6, FS_EmptySet
  <2> DEFINE m == Cardinality(Holders(e))
             r == Cardinality(Holders(e) \ {t})
  <2>8. m \in Nat \ {0} /\ r = m - 1
    BY <2>2, <2>5, <2>7
  <2> HIDE DEF m, r, Drop, IInv
  <2>9. m = 1 <=> r = 0
    BY <2>8
  <2> QED BY <1>1, <2>1, <2>4, <2>8, <2>9 DEF m, r
\* No other thread is busy with an environment that t owns.
<1>3. \A u \in Threads : Busy(u) /\ env[u] = e => u = t /\ from = "create_undo"
  BY <1>1 DEF Busy, Creating, Destroying, BusyWith, DestroyedOnce
<1>4. ~Destroying(t) /\ ~Destroying(t)' <=> ~(refcount[e] = 1)
  BY DEF TypeOK, Destroying
<1>5. TypeOK'
  <2>1. refcount[e] - 1 \in Nat
    BY <1>2
  <2> QED BY <1>1, <2>1 DEF TypeOK
<1>6. LockHeld' BY DEF TypeOK, LockHeld
<1>7. CountsOwners'
  <2>1. \A u \in Threads : pins'[u] \subseteq heap'
    BY DEF TypeOK, CountsOwners
  <2>2. \A x \in heap' : refcount'[x] = Cardinality(Holders(x)')
    BY <1>1, <1>2 DEF TypeOK, CountsOwners
  <2> QED BY <2>1, <2>2 DEF CountsOwners
<1>8. RegistryIsSound' BY DEF TypeOK, RegistryIsSound, Registered, Overrun
<1>9. DestroyedOnce'
  <2>1. ASSUME NEW u \in Threads, Destroying(u)', u # t
        PROVE  Destroying(u) /\ env'[u] = env[u] /\ env[u] # e /\ Holders(env[u])' = {}
               /\ env[u] \in heap
    BY <1>1, <1>3, <2>1 DEF TypeOK, Destroying, Busy, DestroyedOnce
  <2>2. Destroying(t)' => env'[t] = e /\ Holders(e)' = {}
    BY <1>2 DEF TypeOK, Destroying
  <2> QED BY <1>1, <2>1, <2>2 DEF DestroyedOnce
<1>10. BusyWith'
  <2> SUFFICES ASSUME NEW u \in Threads
               PROVE  /\ Creating(u)' => env'[u] \in CodeEnvs /\ Holders(env[u])' = {u}
                      /\ pc'[u] \in Unregistered => env'[u] \notin Registered'
    BY DEF BusyWith, Unregistered
  <2>1. CASE u = t
    BY <2>1 DEF TypeOK, Creating, Unregistered
  <2>2. CASE u # t
    <3>1. pc'[u] = pc[u] /\ env'[u] = env[u] /\ Creating(u)' = Creating(u)
      BY <2>2 DEF TypeOK, Creating
    <3>2. ASSUME Creating(u)
          PROVE  env[u] \in CodeEnvs /\ Holders(env[u]) = {u} /\ env[u] # e
      BY <1>3, <2>2, <3>2 DEF BusyWith, Busy
    <3>3. pc[u] \in Unregistered => env[u] \notin Registered
      BY DEF BusyWith, Unregistered
    <3>4. Holders(env[u])' = {v \in Threads : env[u] \in pins'[v]}
      BY <3>1 DEF Holders
    <3>5. env[u] # e => {v \in Threads : env[u] \in pins'[v]} = Holders(env[u])
      BY DEF TypeOK, Holders
    <3>6. Registered' = Registered
      BY DEF Registered
    <3> QED BY <3>1, <3>2, <3>3, <3>4, <3>5, <3>6
  <2> QED BY <2>1, <2>2
<1>11. NothingLeaks'
  <2>1. ASSUME NEW x \in heap, x # e
        PROVE  \/ Holders(x)' # {} /\ x \in Registered'
               \/ \E u \in Threads : env'[u] = x /\ (Creating(u)' \/ Destroying(u)')
    <3>1. CASE Holders(x) # {} /\ x \in Registered
      BY <1>1, <2>1, <3>1 DEF TypeOK
    <3>2. ASSUME NEW u \in Threads, env[u] = x, Creating(u) \/ Destroying(u)
          PROVE  env'[u] = x /\ (Creating(u)' \/ Destroying(u)')
      <4>1. u # t
        BY <2>1, <3>2 DEF Creating, Destroying
      <4> QED BY <3>2, <4>1 DEF TypeOK, Creating, Destroying
    <3> QED BY <3>1, <3>2 DEF NothingLeaks
  <2>2. CASE refcount[e] = 1
    <3>1. env'[t] = e /\ Destroying(t)'
      BY <2>2 DEF TypeOK, Destroying
    <3> QED BY <2>1, <3>1 DEF NothingLeaks
  <2>3. CASE refcount[e] # 1
    <3>1. Holders(e)' # {}
      BY <1>2, <2>3
    <3>2. from = "idle"
      BY <1>1, <1>2, <2>3 DEF Creating, BusyWith
    <3>3. e \in Registered
      BY <3>2, OwnedIsRegistered DEF Creating
    <3> QED BY <1>1, <2>1, <3>1, <3>3 DEF NothingLeaks
  <2> QED BY <2>2, <2>3
<1>12. SearchSucceeds' BY DEF TypeOK, SearchSucceeds
<1> QED BY <1>5, <1>6, <1>7, <1>8, <1>9, <1>10, <1>11, <1>12

LEMMA UnshareStep ==
  ASSUME IInv, NEW t \in Threads, NEW e \in CodeEnvs, Unshare(t, e)
  PROVE  IInv'
<1>1. e \in pins[t] /\ Drop(t, e, "idle") /\ calls' \in [Threads -> 0 .. MaxCalls]
  BY CodeEnvAssumption DEF Unshare, Begin, IInv, TypeOK
<1> QED BY <1>1, DropStep

LEMMA CreateUndoStep ==
  ASSUME IInv, NEW t \in Threads, CreateUndo(t)
  PROVE  IInv'
<1>1. env[t] \in pins[t]
  BY DEF CreateUndo, Creating, IInv, BusyWith, Holders
<1>2. Drop(t, env[t], "create_undo") /\ calls' \in [Threads -> 0 .. MaxCalls]
  BY DEF CreateUndo, IInv, TypeOK
<1> QED BY <1>1, <1>2, DropStep

-----------------------------------------------------------------------------
(***************************************************************************)
(* The registry.                                                           *)
(***************************************************************************)
LEMMA CreatePushStep ==
  ASSUME IInv, NEW t \in Threads, CreatePush(t)
  PROVE  IInv'
<1> USE DEF CreatePush, Goto, IInv, LockKept
<1>1. /\ env[t] \in CodeEnvs /\ Holders(env[t]) = {t} /\ env[t] \in heap
      /\ env[t] \notin Registered /\ codeenvs \in Seq(CodeEnvs) /\ t \in writers
  BY DEF TypeOK, BusyWith, Creating, Holders, CountsOwners, LockHeld
<1>2. codeenvs' = codeenvs \/ codeenvs' = Append(codeenvs, env[t])
  OBVIOUS
<1>a. /\ Doubled \in Nat \ {0} /\ m_capacity < Doubled
      /\ Len(codeenvs) \in Nat /\ block \in Nat /\ m_capacity \in Nat
      /\ Len(Append(codeenvs, env[t])) = Len(codeenvs) + 1
  BY <1>1, CodeEnvAssumption DEF TypeOK, Doubled
<1>b. /\ m_capacity' \in Nat /\ block' \in Nat
      /\ block' <= m_capacity' /\ Len(codeenvs') <= m_capacity'
      /\ Overrun' => block' < m_capacity' /\ Len(codeenvs') = block' + 1
  <2>1. block <= m_capacity /\ Len(codeenvs) <= m_capacity /\ Len(codeenvs) <= block
    BY <1>a DEF RegistryIsSound, Overrun
  <2>2. CASE /\ Len(codeenvs) < m_capacity /\ codeenvs' = Append(codeenvs, env[t])
             /\ UNCHANGED <<m_capacity, block>>
    BY <1>a, <2>1, <2>2 DEF Overrun
  <2>3. CASE m_capacity' = Doubled /\ block' = Doubled /\ codeenvs' = Append(codeenvs, env[t])
    BY <1>a, <2>1, <2>3 DEF Overrun
  <2>4. CASE m_capacity' = Doubled /\ UNCHANGED <<block, codeenvs>>
    BY <1>a, <2>1, <2>4 DEF Overrun
  <2> QED BY <2>2, <2>3, <2>4
<1>3. Registered' = Registered \/ Registered' = Registered \cup {env[t]}
  <2>1. CASE codeenvs' = codeenvs
    BY <2>1 DEF Registered
  <2>2. CASE codeenvs' = Append(codeenvs, env[t])
    BY <1>1, <2>2 DEF Registered
  <2> QED BY <1>2, <2>1, <2>2
<1>4. \A x : Holders(x)' = Holders(x)
  BY DEF Holders
<1>5. TypeOK'
  <2>1. codeenvs' \in Seq(CodeEnvs)
    BY <1>1, <1>2
  <2>2. pc' \in [Threads -> {"idle"} \cup CreatePCs \cup DestroyPCs \cup FindPCs]
    BY DEF TypeOK
  <2> QED BY <1>b, <2>1, <2>2 DEF TypeOK
<1>6. LockHeld' BY DEF TypeOK, LockHeld
<1>7. CountsOwners' BY <1>4 DEF CountsOwners
<1>8. RegistryIsSound'
  <2>1. Registered' \subseteq heap'
    BY <1>1, <1>3 DEF RegistryIsSound
  <2>2. \A j, k \in DOMAIN codeenvs' : codeenvs'[j] = codeenvs'[k] => j = k
    BY <1>1, <1>2 DEF RegistryIsSound, Registered
  <2> QED BY <1>b, <2>1, <2>2 DEF RegistryIsSound
<1>9. DestroyedOnce' BY <1>4 DEF TypeOK, DestroyedOnce, Destroying
<1>10. BusyWith'
  <2> SUFFICES ASSUME NEW u \in Threads
               PROVE  /\ Creating(u)' => env'[u] \in CodeEnvs /\ Holders(env[u])' = {u}
                      /\ pc'[u] \in Unregistered => env'[u] \notin Registered'
    BY DEF BusyWith, Unregistered
  <2>1. CASE u = t
    BY <1>1, <1>4, <2>1 DEF TypeOK, Creating, Unregistered
  <2>2. CASE u # t
    <3>1. pc'[u] = pc[u] /\ env'[u] = env[u] /\ Creating(u)' = Creating(u)
      BY <2>2 DEF TypeOK, Creating
    <3>2. Creating(u) => env[u] \in CodeEnvs /\ Holders(env[u]) = {u}
      BY DEF BusyWith
    <3>3. pc[u] \in Unregistered => env[u] \notin Registered
      BY DEF BusyWith, Unregistered
    <3>4. pc[u] \in Unregistered => env[u] # env[t]
      BY <1>1, <2>2, <3>2 DEF Unregistered, Creating, Destroying, DestroyedOnce
    <3>5. Holders(env[u])' = Holders(env[u])
      BY <3>1 DEF Holders
    <3> QED BY <1>3, <3>1, <3>2, <3>3, <3>4, <3>5
  <2> QED BY <2>1, <2>2
<1>11. NothingLeaks'
  <2>1. \A u \in Threads : Busy(u) => Busy(u)' /\ env'[u] = env[u]
    BY DEF TypeOK, Busy, Creating, Destroying
  <2> QED BY <1>3, <1>4, <2>1, NothingLost
\* Nobody searches while t writes.
<1>12. SearchSucceeds'
  <2>1. \A u \in Threads : pc[u] # "find_scan"
    BY <1>1 DEF LockHeld
  <2> QED BY <2>1 DEF TypeOK, SearchSucceeds
<1> QED BY <1>5, <1>6, <1>7, <1>8, <1>9, <1>10, <1>11, <1>12

LEMMA CreateUnlockStep ==
  ASSUME IInv, NEW t \in Threads, CreateUnlock(t)
  PROVE  IInv'
<1> USE DEF CreateUnlock, Goto, IInv, Lock!ReleaseWrite
<1>1. Registered' = Registered /\ \A x : Holders(x)' = Holders(x)
  BY DEF Registered, Holders
<1>2. Holders(env[t]) = {t} /\ env[t] \in CodeEnvs
  BY DEF BusyWith, Creating
<1>3. TypeOK' BY DEF TypeOK
<1>4. LockHeld' BY DEF TypeOK, LockHeld
<1>5. CountsOwners' BY <1>1 DEF CountsOwners
<1>6. RegistryIsSound' BY DEF TypeOK, RegistryIsSound, Registered, Overrun
<1>7. DestroyedOnce' BY <1>1 DEF TypeOK, DestroyedOnce, Destroying
<1>8. BusyWith' BY <1>1, <1>2 DEF TypeOK, BusyWith, Creating
<1>9. NothingLeaks'
  <2> SUFFICES ASSUME NEW x \in heap
               PROVE  \/ Holders(x) # {} /\ x \in Registered
                      \/ \E u \in Threads : env'[u] = x /\ (Creating(u)' \/ Destroying(u)')
    BY <1>1 DEF NothingLeaks
  <2>1. CASE Holders(x) # {} /\ x \in Registered
    BY <2>1
  <2>2. ASSUME NEW u \in Threads, env[u] = x, Creating(u) \/ Destroying(u), u # t
        PROVE  env'[u] = x /\ (Creating(u)' \/ Destroying(u)')
    BY <2>2 DEF TypeOK, Creating, Destroying
  <2>3. CASE env[t] = x
    <3>1. x \notin Registered => env'[t] = x /\ Creating(t)'
      BY <2>3 DEF TypeOK, Creating
    <3> QED BY <1>2, <2>3, <3>1
  <2> QED BY <2>1, <2>2, <2>3 DEF NothingLeaks
<1>10. SearchSucceeds' BY DEF TypeOK, SearchSucceeds
<1> QED BY <1>3, <1>4, <1>5, <1>6, <1>7, <1>8, <1>9, <1>10

NoRepetition(s) == \A k, l \in DOMAIN s : s[k] = s[l] => k = l

\* Erasing an entry of a sequence without repetitions removes its element and
\* nothing else.
LEMMA ErasedOnce ==
  ASSUME NEW S, NEW s \in Seq(S), NEW j \in DOMAIN s, NoRepetition(s)
  PROVE  /\ RemoveAt(s, j) \in Seq(S) /\ Len(RemoveAt(s, j)) = Len(s) - 1
         /\ {RemoveAt(s, j)[k] : k \in DOMAIN RemoveAt(s, j)}
              = {s[k] : k \in DOMAIN s} \ {s[j]}
         /\ NoRepetition(RemoveAt(s, j))
<1> DEFINE r == RemoveAt(s, j)
           a == SubSeq(s, 1, j - 1)
           b == SubSeq(s, j + 1, Len(s))
           n == Len(s)
<1>1. n \in Nat /\ DOMAIN s = 1 .. n /\ j \in 1 .. n /\ \A k \in 1 .. n : s[k] \in S
  OBVIOUS
<1>a. a \in Seq(S) /\ Len(a) = j - 1 /\ \A k \in 1 .. j - 1 : a[k] = s[k]
  <2>1. \A k \in 1 .. j - 1 : s[k] \in S
    BY <1>1
  <2>2. /\ a \in Seq(S) /\ Len(a) = IF 1 <= j - 1 THEN j - 1 - 1 + 1 ELSE 0
        /\ \A k \in 1 .. j - 1 - 1 + 1 : a[k] = s[1 + k - 1]
    BY <1>1, <2>1, SubSeqProperties
  <2> HIDE DEF a
  <2> QED BY <1>1, <2>2
<1>b. /\ b \in Seq(S) /\ Len(b) = n - j
      /\ \A k \in 1 .. n - j : b[k] = s[j + k]
  <2>1. \A k \in j + 1 .. n : s[k] \in S
    BY <1>1
  <2>2. /\ b \in Seq(S) /\ Len(b) = IF j + 1 <= n THEN n - (j + 1) + 1 ELSE 0
        /\ \A k \in 1 .. n - (j + 1) + 1 : b[k] = s[(j + 1) + k - 1]
    BY <1>1, <2>1, SubSeqProperties
  <2>3. n \in Nat /\ j \in 1 .. n
    BY <1>1
  <2> HIDE DEF b, n
  <2>4. /\ n - (j + 1) + 1 = n - j /\ (j + 1 <= n \/ n - j = 0)
        /\ \A k \in 1 .. n - j : (j + 1) + k - 1 = j + k
    BY <2>3
  <2>5. Len(b) = n - j
    BY <2>2, <2>4
  <2>6. \A k \in 1 .. n - j : b[k] = s[j + k]
    BY <2>2, <2>4
  <2> QED BY <2>2, <2>5, <2>6
<1>c. r = a \o b
  BY DEF RemoveAt
<1> HIDE DEF r, a, b, n
<1>2. r \in Seq(S) /\ Len(r) = n - 1 /\ DOMAIN r = 1 .. n - 1
  <2>1. r \in Seq(S) /\ Len(r) = Len(a) + Len(b)
    BY <1>a, <1>b, <1>c, ConcatProperties
  <2>2. n \in Nat /\ j \in 1 .. n /\ Len(a) = j - 1 /\ Len(b) = n - j
    BY <1>1, <1>a, <1>b
  <2>3. Len(r) = n - 1
    BY <2>1, <2>2
  <2>4. DOMAIN r = 1 .. Len(r)
    BY <2>1
  <2> QED BY <2>1, <2>3, <2>4
<1>3. \A k \in 1 .. n - 1 : r[k] = IF k < j THEN s[k] ELSE s[k + 1]
  <2> SUFFICES ASSUME NEW k \in 1 .. n - 1
               PROVE  r[k] = IF k < j THEN s[k] ELSE s[k + 1]
    OBVIOUS
  <2>1. r[k] = IF k <= j - 1 THEN a[k] ELSE b[k - (j - 1)]
    BY <1>1, <1>a, <1>b, <1>c, ConcatProperties
  <2>2. CASE k < j
    BY <1>1, <1>a, <2>1, <2>2
  <2>3. CASE k >= j
    <3>1. k - (j - 1) \in 1 .. n - j /\ j + (k - (j - 1)) = k + 1 /\ ~(k <= j - 1)
      BY <1>1, <2>3
    <3>2. b[k - (j - 1)] = s[k + 1]
      BY <1>b, <3>1
    <3> QED BY <2>1, <2>3, <3>1, <3>2
  <2> QED BY <1>1, <2>2, <2>3
<1>4. ASSUME NEW k \in DOMAIN s, k # j
      PROVE  \E l \in DOMAIN r : r[l] = s[k]
  <2>1. CASE k < j
    BY <1>1, <1>2, <1>3, <2>1
  <2>2. CASE k > j
    <3>1. k - 1 \in DOMAIN r /\ r[k - 1] = s[k]
      BY <1>1, <1>2, <1>3, <2>2
    <3> QED BY <3>1
  <2> QED BY <1>1, <1>4, <2>1, <2>2
<1>5. ASSUME NEW l \in DOMAIN r
      PROVE  \E k \in DOMAIN s : k # j /\ r[l] = s[k]
  <2>1. CASE l < j
    BY <1>1, <1>2, <1>3, <2>1
  <2>2. CASE l >= j
    <3>1. l + 1 \in DOMAIN s /\ r[l] = s[l + 1] /\ l + 1 # j
      BY <1>1, <1>2, <1>3, <2>2
    <3> QED BY <3>1
  <2> QED BY <1>1, <1>2, <2>1, <2>2
<1>6. {r[k] : k \in DOMAIN r} = {s[k] : k \in DOMAIN s} \ {s[j]}
  <2>1. ASSUME NEW l \in DOMAIN r
        PROVE  r[l] \in {s[k] : k \in DOMAIN s} \ {s[j]}
    <3>1. PICK k \in DOMAIN s : k # j /\ r[l] = s[k]
      BY <1>5
    <3>2. s[k] # s[j]
      BY <3>1 DEF NoRepetition
    <3> QED BY <3>1, <3>2
  <2>2. ASSUME NEW k \in DOMAIN s, s[k] # s[j]
        PROVE  s[k] \in {r[l] : l \in DOMAIN r}
    <3>1. PICK l \in DOMAIN r : r[l] = s[k]
      BY <1>4, <2>2
    <3> QED BY <3>1
  <2> QED BY <2>1, <2>2
<1>7. ASSUME NEW k \in DOMAIN r, NEW l \in DOMAIN r, r[k] = r[l]
      PROVE  k = l
  <2> DEFINE from(m) == IF m < j THEN m ELSE m + 1
  <2>1. \A m \in DOMAIN r : from(m) \in DOMAIN s /\ r[m] = s[from(m)]
    BY <1>1, <1>2, <1>3
  <2>2. from(k) = from(l)
    BY <1>7, <2>1 DEF NoRepetition
  <2> QED BY <1>1, <1>2, <2>2
<1> QED BY <1>2, <1>6, <1>7 DEF r, n, NoRepetition

LEMMA DestroyEraseStep ==
  ASSUME IInv, NEW t \in Threads, DestroyErase(t)
  PROVE  IInv'
<1> USE DEF DestroyErase, Goto, IInv, LockKept
<1>1. /\ env[t] \in heap /\ Holders(env[t]) = {} /\ Destroying(t)
      /\ codeenvs \in Seq(CodeEnvs) /\ t \in writers
  BY DEF TypeOK, Destroying, DestroyedOnce, LockHeld
<1>2. /\ codeenvs' \in Seq(CodeEnvs)
      /\ Registered' = Registered \ {env[t]}
      /\ \A j, k \in DOMAIN codeenvs' : codeenvs'[j] = codeenvs'[k] => j = k
      /\ Len(codeenvs') = Len(codeenvs) \/ Len(codeenvs') = Len(codeenvs) - 1
  <2>1. CASE env[t] \notin Registered /\ UNCHANGED codeenvs
    BY <1>1, <2>1 DEF Registered, RegistryIsSound
  <2>2. CASE env[t] \in Registered \/ codeenvs' # codeenvs
    <3>1. PICK j \in DOMAIN codeenvs :
            codeenvs[j] = env[t] /\ codeenvs' = RemoveAt(codeenvs, j)
      BY <2>2
    <3>2. NoRepetition(codeenvs)
      BY DEF RegistryIsSound, NoRepetition
    <3> DEFINE r == RemoveAt(codeenvs, j)
    <3>3. /\ r \in Seq(CodeEnvs) /\ Len(r) = Len(codeenvs) - 1
          /\ {r[k] : k \in DOMAIN r} = {codeenvs[k] : k \in DOMAIN codeenvs} \ {codeenvs[j]}
          /\ NoRepetition(r)
      <4>1. codeenvs \in Seq(CodeEnvs)
        BY <1>1
      <4> HIDE DEF DestroyErase, IInv
      <4> QED BY <4>1, <3>2, ErasedOnce
    <3>4. codeenvs' = r
      BY <3>1
    <3> HIDE DEF r
    <3> QED BY <3>1, <3>3, <3>4 DEF Registered, NoRepetition
  <2> QED BY <2>1, <2>2
<1>3. \A x : Holders(x)' = Holders(x)
  BY DEF Holders
<1>4. TypeOK'
  <2>1. pc' \in [Threads -> {"idle"} \cup CreatePCs \cup DestroyPCs \cup FindPCs]
    BY DEF TypeOK
  <2> QED BY <1>2, <2>1 DEF TypeOK
<1>5. LockHeld' BY DEF TypeOK, LockHeld
<1>6. CountsOwners' BY <1>3 DEF CountsOwners
<1>7. RegistryIsSound'
  <2>1. /\ block <= m_capacity /\ Len(codeenvs) <= m_capacity /\ Len(codeenvs) <= block
        /\ block \in Nat /\ m_capacity \in Nat /\ Len(codeenvs) \in Nat
    BY <1>1 DEF RegistryIsSound, Overrun, TypeOK
  <2>2. Registered' \subseteq heap'
    BY <1>2 DEF RegistryIsSound
  <2>3. UNCHANGED <<m_capacity, block>>
    OBVIOUS
  <2>4. Len(codeenvs') <= m_capacity' /\ Len(codeenvs') <= block'
    <3>1. Len(codeenvs') = Len(codeenvs) \/ Len(codeenvs') = Len(codeenvs) - 1
      BY <1>2
    <3> HIDE DEF DestroyErase, IInv
    <3> QED BY <2>1, <2>3, <3>1
  <2> QED BY <1>2, <2>1, <2>2, <2>3, <2>4 DEF RegistryIsSound, Overrun
<1>8. DestroyedOnce' BY <1>3 DEF TypeOK, DestroyedOnce, Destroying
<1>9. BusyWith'
  <2> SUFFICES ASSUME NEW u \in Threads
               PROVE  /\ Creating(u)' => env'[u] \in CodeEnvs /\ Holders(env[u])' = {u}
                      /\ pc'[u] \in Unregistered => env'[u] \notin Registered'
    BY DEF BusyWith, Unregistered
  <2>1. CASE u = t
    BY <1>2, <2>1 DEF TypeOK, Creating
  <2>2. CASE u # t
    <3>1. pc'[u] = pc[u] /\ env'[u] = env[u] /\ Creating(u)' = Creating(u)
      BY <2>2 DEF TypeOK, Creating
    <3>2. Creating(u) => env[u] \in CodeEnvs /\ Holders(env[u]) = {u}
      BY DEF BusyWith
    <3>3. pc[u] \in Unregistered => env[u] \notin Registered
      BY DEF BusyWith, Unregistered
    <3>4. Holders(env[u])' = Holders(env[u])
      BY <3>1 DEF Holders
    <3> QED BY <1>2, <3>1, <3>2, <3>3, <3>4
  <2> QED BY <2>1, <2>2
<1>10. NothingLeaks'
  <2>1. \A u \in Threads : Busy(u) => Busy(u)' /\ env'[u] = env[u]
    BY DEF TypeOK, Busy, Creating, Destroying
  <2>2. \A e \in heap : Holders(e) # {} => e # env[t]
    BY <1>1
  <2> QED BY <1>2, <1>3, <2>1, <2>2, NothingLost
\* Nobody searches while t writes.
<1>11. SearchSucceeds'
  <2>1. \A u \in Threads : pc[u] # "find_scan"
    BY <1>1 DEF LockHeld
  <2> QED BY <2>1 DEF TypeOK, SearchSucceeds
<1> QED BY <1>4, <1>5, <1>6, <1>7, <1>8, <1>9, <1>10, <1>11

LEMMA DestroyFreeStep ==
  ASSUME IInv, NEW t \in Threads, DestroyFree(t)
  PROVE  IInv'
<1> USE DEF DestroyFree, Goto, IInv, LockKept
<1>1. /\ env[t] \in heap /\ Holders(env[t]) = {} /\ Destroying(t)
      /\ env[t] \notin Registered
      /\ \A u \in Threads : Busy(u) /\ env[u] = env[t] => u = t
  BY DEF TypeOK, Busy, Creating, Destroying, DestroyedOnce, BusyWith
<1>2. Registered' = Registered /\ \A x : Holders(x)' = Holders(x)
  BY DEF Registered, Holders
<1>3. TypeOK' BY DEF TypeOK
<1>4. LockHeld' BY DEF TypeOK, LockHeld
<1>5. CountsOwners'
  <2>1. \A u \in Threads : env[t] \notin pins[u]
    BY <1>1 DEF Holders
  <2>2. heap' = heap \ {env[t]} /\ UNCHANGED <<refcount, pins>>
    OBVIOUS
  <2>3. CountsOwners
    OBVIOUS
  <2> HIDE DEF DestroyFree, IInv
  <2>4. \A u \in Threads : pins'[u] \subseteq heap'
    BY <2>1, <2>2, <2>3 DEF CountsOwners
  <2>5. \A x \in heap' : refcount'[x] = Cardinality(Holders(x)')
    BY <1>2, <2>2, <2>3 DEF CountsOwners
  <2> QED BY <2>4, <2>5 DEF CountsOwners
<1>6. RegistryIsSound' BY <1>1, <1>2 DEF RegistryIsSound, Overrun
<1>7. DestroyedOnce'
  BY <1>1, <1>2 DEF TypeOK, DestroyedOnce, Destroying, Busy
<1>8. BusyWith' BY <1>2 DEF TypeOK, BusyWith, Creating
<1>9. NothingLeaks'
  <2> SUFFICES ASSUME NEW x \in heap, x # env[t]
               PROVE  \/ Holders(x) # {} /\ x \in Registered
                      \/ \E u \in Threads : env'[u] = x /\ (Creating(u)' \/ Destroying(u)')
    BY <1>2 DEF NothingLeaks
  <2>1. ASSUME NEW u \in Threads, env[u] = x, Creating(u) \/ Destroying(u)
        PROVE  env'[u] = x /\ (Creating(u)' \/ Destroying(u)')
    BY <2>1 DEF TypeOK, Creating, Destroying
  <2> QED BY <2>1 DEF NothingLeaks
<1>10. SearchSucceeds' BY DEF TypeOK, SearchSucceeds
<1> QED BY <1>3, <1>4, <1>5, <1>6, <1>7, <1>8, <1>9, <1>10

-----------------------------------------------------------------------------
LEMMA Initially == Init => IInv
<1> SUFFICES ASSUME Init PROVE IInv
  OBVIOUS
<1> USE DEF Init, Lock!Init
<1>1. TypeOK BY CodeEnvAssumption DEF TypeOK
<1>2. LockHeld BY DEF LockHeld
<1>3. CountsOwners /\ NothingLeaks BY DEF CountsOwners, NothingLeaks
<1>4. RegistryIsSound BY DEF RegistryIsSound, Registered, Overrun
<1>5. DestroyedOnce /\ BusyWith BY DEF DestroyedOnce, BusyWith, Creating, Destroying
<1>6. SearchSucceeds BY DEF SearchSucceeds
<1> QED BY <1>1, <1>2, <1>3, <1>4, <1>5, <1>6 DEF IInv

LEMMA Inductive == IInv /\ [Next]_vars => IInv'
<1> SUFFICES ASSUME IInv, [Next]_vars PROVE IInv'
  OBVIOUS
<1>1. ASSUME NEW t \in Threads, NEW e \in CodeEnvs, CreateAlloc(t, e) PROVE IInv'
  BY <1>1, CreateAllocStep
<1>2. ASSUME NEW t \in Threads, NEW e \in CodeEnvs, Unshare(t, e) PROVE IInv'
  BY <1>2, UnshareStep
<1>3. ASSUME NEW t \in Threads, NEW e \in CodeEnvs, FindCall(t, e) PROVE IInv'
  BY <1>3, FindCallStep
<1>4. ASSUME NEW t \in Threads, NEW e \in CodeEnvs, NEW u \in Threads, Share(t, u, e)
      PROVE  IInv'
  BY <1>4, ShareStep
<1>5. ASSUME NEW t \in Threads, Proceed(t) PROVE IInv'
  <2>1. CASE CreateLock(t) BY <2>1, CreateLockStep
  <2>2. CASE CreatePush(t) BY <2>2, CreatePushStep
  <2>3. CASE CreateUnlock(t) BY <2>3, CreateUnlockStep
  <2>4. CASE CreateUndo(t) BY <2>4, CreateUndoStep
  <2>5. CASE DestroyLock(t) BY <2>5, DestroyLockStep
  <2>6. CASE DestroyErase(t) BY <2>6, DestroyEraseStep
  <2>7. CASE DestroyUnlock(t) BY <2>7, DestroyUnlockStep
  <2>8. CASE DestroyFree(t) BY <2>8, DestroyFreeStep
  <2>9. CASE FindLock(t) BY <2>9, FindLockStep
  <2>10. CASE FindScan(t) BY <2>10, FindScanStep
  <2>11. CASE FindUnlock(t) BY <2>11, FindUnlockStep
  <2>12. CASE FindReturn(t) BY <2>12, FindReturnStep
  <2> QED BY <1>5, <2>1, <2>2, <2>3, <2>4, <2>5, <2>6, <2>7, <2>8, <2>9, <2>10,
             <2>11, <2>12 DEF Proceed
<1>6. CASE UNCHANGED vars
  <2> USE <1>6 DEF vars, IInv
  <2>1. TypeOK' /\ LockHeld' /\ SearchSucceeds'
    BY DEF TypeOK, LockHeld, SearchSucceeds
  <2>2. CountsOwners' /\ RegistryIsSound'
    BY DEF CountsOwners, RegistryIsSound, Registered, Overrun, Holders
  <2>3. DestroyedOnce' /\ BusyWith' /\ NothingLeaks'
    BY DEF DestroyedOnce, BusyWith, NothingLeaks, Registered, Holders, Creating, Destroying
  <2> QED BY <2>1, <2>2, <2>3
<1> QED BY <1>1, <1>2, <1>3, <1>4, <1>5, <1>6 DEF Next

LEMMA Always == Spec => []IInv
BY Initially, Inductive, PTL DEF Spec

\* Every variable keeps its type.
THEOREM TypeCorrect == Spec => []TypeOK
<1>1. IInv => TypeOK BY DEF IInv
<1> QED BY <1>1, Always, PTL

\* m_refcount is the number of references the threads own, and what they own is
\* allocated, for any number of threads sharing and unsharing.
THEOREM CountIsRight == Spec => []CountsOwners
<1>1. IInv => CountsOwners BY DEF IInv
<1> QED BY <1>1, Always, PTL

\* The scan of woort_CodeEnv_find meets allocated environments only, each once, and
\* no entry is outside the block before a reallocation of the vector has failed.
THEOREM ScanIsSafe == Spec => []RegistryIsSound
<1>1. IInv => RegistryIsSound BY DEF IInv
<1> QED BY <1>1, Always, PTL

\* _woort_CodeEnv_destroy runs once for an environment, after its last owner.
THEOREM NoDoubleFree == Spec => []DestroyedOnce
<1>1. IInv => DestroyedOnce BY DEF IInv
<1> QED BY <1>1, Always, PTL

\* woort_CodeEnv_find finds the code of whoever owns a reference to it.
THEOREM OwnersFind == Spec => []OwnerFindsItsCode
<1>1. IInv => OwnerFindsItsCode BY DEF IInv, SearchSucceeds, OwnerFindsItsCode
<1> QED BY <1>1, Always, PTL

\* An allocated environment has an owner and is registered, or a thread is on
\* its way to register, to undo or to destroy it.
THEOREM NoLeak == Spec => []NothingLeaks
<1>1. IInv => NothingLeaks BY DEF IInv
<1> QED BY <1>1, Always, PTL

-----------------------------------------------------------------------------
(* How the registry uses its lock, which RWSpinlock.tla implements.         *)

\* The places of a program where a thread reads or writes m_codeenvs.
Reads(t)  == pc[t] = "find_scan"
Writes(t) == pc[t] \in {"create_push", "destroy_erase"}

\* Who is about to unlock has locked, and in the same way: a release of RWLock is
\* never refused, and none gives back what another thread holds.
UnlocksWhatItHolds ==
  \A t \in Threads :
    /\ pc[t] = "find_unlock" => t \in readers
    /\ pc[t] \in {"create_unlock", "destroy_unlock"} => writers = {t}

\* The calls of woort_codeenv.c on m_codeenvs_lock are those of clients of a
\* read-write lock: whatever implements RWLock may stand for it.
THEOREM UsesRWLock == Spec => Lock!Spec
<1>1. Init => Lock!Init
  BY DEF Init
<1>2. [Next]_vars => [Lock!Next]_<<readers, writers>>
  <2> SUFFICES ASSUME Next, ~UNCHANGED <<readers, writers>>
               PROVE  Lock!Next
    BY DEF vars
  <2>1. \E t \in Threads :
          \/ CreateLock(t) \/ CreateUnlock(t) \/ DestroyLock(t) \/ DestroyUnlock(t)
          \/ FindLock(t) \/ FindUnlock(t)
    BY DEF Next, Proceed, CreateAlloc, CreatePush, CreateUndo, Unshare, Drop, Share,
           DestroyErase, DestroyFree, FindCall, FindScan, FindReturn, LockKept
  <2> QED BY <2>1 DEF CreateLock, CreateUnlock, DestroyLock, DestroyUnlock, FindLock,
                      FindUnlock, Lock!Next
<1> QED BY <1>1, <1>2, PTL DEF Spec, Lock!Spec, Lock!lockVars

\* No unlock of the registry's lock is one too many or of the wrong kind.
THEOREM UnlocksAreOwn == Spec => []UnlocksWhatItHolds
<1>1. IInv => UnlocksWhatItHolds
  BY DEF IInv, LockHeld, UnlocksWhatItHolds
<1> QED BY <1>1, Always, PTL

\* While one thread pushes into m_codeenvs or erases from it, no other thread
\* scans it or changes it: accesses of the vector are never a race.
RegistryWithoutRace ==
  \A t, u \in Threads : Writes(t) /\ (Reads(u) \/ Writes(u)) => t = u

\* The thread that changes m_codeenvs is alone with it, for any number of threads.
THEOREM NoRace == Spec => []RegistryWithoutRace
<1>1. IInv => RegistryWithoutRace
  BY DEF IInv, LockHeld, RegistryWithoutRace, Reads, Writes
<1> QED BY <1>1, Always, PTL
=============================================================================
