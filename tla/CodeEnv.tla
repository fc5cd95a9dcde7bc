------------------------------ MODULE CodeEnv -------------------------------
(***************************************************************************)
(* woort_codeenv.c: reference-counted code environments, and the global    *)
(* registry through which the virtual machine finds the environment that   *)
(* owns a code address.                                                    *)
(*                                                                         *)
(* A CodeEnv stands for its heap block, its code block and its data block, *)
(* which are allocated and freed together; an address of its code is       *)
(* represented by the environment itself, since the code blocks of two     *)
(* allocated environments never overlap.  A freed environment may be       *)
(* allocated again: the allocator reuses addresses.                        *)
(*                                                                         *)
(* The registry is a woort_Vector (Vector.tla), of which the capacity it   *)
(* believes in and the real size of its block are kept: they differ after  *)
(* a push that could not grow it.  The write of an entry outside the block *)
(* is the last step that is followed.                                      *)
(*                                                                         *)
(* Clients are threads that keep the contract of a reference count: they   *)
(* share and unshare only what they own a reference to, and a thread given *)
(* a reference gets it from a thread that owns one.                        *)
(***************************************************************************)
EXTENDS Integers, FiniteSets, Sequences, SequencesExt

CONSTANTS
  Threads,    \* the client threads
  CodeEnvs,   \* the addresses an environment can be allocated at
  NoEnv,      \* the null pointer
  InitialCapacity, \* of a vector: 8
  MaxCalls    \* bound: how many calls into this component a thread makes

ASSUME CodeEnvAssumption ==
  /\ IsFiniteSet(Threads)
  /\ NoEnv \notin CodeEnvs
  /\ InitialCapacity \in Nat \ {0}
  /\ MaxCalls \in Nat

VARIABLES
  heap,      \* the environments that are allocated
  refcount,  \* woort_CodeEnv.m_refcount (meaningful while allocated)
  codeenvs,  \* m_codeenvs, the vector of registered environments
  m_capacity, \* its m_capacity
  block,     \* how many elements the block has that realloc gave last
  readers,   \* m_codeenvs_lock, see RWLock
  writers,
  pc,        \* where each thread is
  env,       \* the environment, or the address, the thread works on
  i,         \* the index of the loop of woort_CodeEnv_find
  found,     \* what woort_CodeEnv_find gave back
  pins,      \* the references each thread owns
  calls      \* how many calls each thread has begun

vars == <<heap, refcount, codeenvs, m_capacity, block, readers, writers, pc, env, i,
          found, pins, calls>>

registry == <<codeenvs, m_capacity, block>>

Lock == INSTANCE RWLock

Registered == {codeenvs[j] : j \in DOMAIN codeenvs}

\* The last entry is outside the block.
Overrun == Len(codeenvs) > block

Holders(e) == {t \in Threads : e \in pins[t]}

CreatePCs  == {"create_lock", "create_push", "create_unlock", "create_undo"}
DestroyPCs == {"destroy_lock", "destroy_erase", "destroy_unlock", "destroy_free"}
FindPCs    == {"find_lock", "find_scan", "find_unlock", "find_return"}

Creating(t)   == pc[t] \in CreatePCs
Destroying(t) == pc[t] \in DestroyPCs

Init ==
  /\ heap = {}
  /\ refcount = [e \in CodeEnvs |-> 0]
  /\ codeenvs = <<>>
  /\ m_capacity = 0
  /\ block = 0
  /\ Lock!Init
  /\ pc = [t \in Threads |-> "idle"]
  /\ env = [t \in Threads |-> NoEnv]
  /\ i = [t \in Threads |-> 1]
  /\ found = [t \in Threads |-> NoEnv]
  /\ pins = [t \in Threads |-> {}]
  /\ calls = [t \in Threads |-> 0]

Begin(t) ==
  /\ ~Overrun
  /\ pc[t] = "idle"
  /\ calls[t] < MaxCalls
  /\ calls' = [calls EXCEPT ![t] = @ + 1]

Goto(t, from, to) ==
  /\ ~Overrun
  /\ pc[t] = from
  /\ pc' = [pc EXCEPT ![t] = to]

LockKept == UNCHANGED <<readers, writers>>

-----------------------------------------------------------------------------
(* woort_CodeEnv_create.  (A failed allocation returns before anything of   *)
(* this component has changed.)                                             *)
CreateAlloc(t, e) ==
  /\ Begin(t)
  /\ e \notin heap
  /\ heap' = heap \cup {e}
  /\ refcount' = [refcount EXCEPT ![e] = 1]
  /\ pins' = [pins EXCEPT ![t] = @ \cup {e}]
  /\ env' = [env EXCEPT ![t] = e]
  /\ Goto(t, "idle", "create_lock")
  /\ LockKept
  /\ UNCHANGED <<registry, i, found>>

CreateLock(t) ==
  /\ Goto(t, "create_lock", "create_push")
  /\ Lock!AcquireWrite(t)
  /\ UNCHANGED <<heap, refcount, registry, env, i, found, pins, calls>>

\* Twice the capacity, or the first one.
Doubled == IF m_capacity = 0 THEN InitialCapacity ELSE 2 * m_capacity

\* push_back.  An entry for which m_capacity has room is written, where the block
\* may have none; otherwise m_capacity is doubled and then realloc gives a block of
\* that size, or fails: nothing is registered and m_capacity stays doubled.
CreatePush(t) ==
  /\ Goto(t, "create_push", "create_unlock")
  /\ \/ /\ Len(codeenvs) < m_capacity
        /\ codeenvs' = Append(codeenvs, env[t])
        /\ UNCHANGED <<m_capacity, block>>
     \/ /\ Len(codeenvs) >= m_capacity
        /\ m_capacity' = Doubled
        /\ \/ block' = Doubled /\ codeenvs' = Append(codeenvs, env[t])
           \/ UNCHANGED <<block, codeenvs>>
  /\ LockKept
  /\ UNCHANGED <<heap, refcount, env, i, found, pins, calls>>

CreateUnlock(t) ==
  /\ Goto(t, "create_unlock", IF env[t] \in Registered THEN "idle" ELSE "create_undo")
  /\ Lock!ReleaseWrite(t)
  /\ UNCHANGED <<heap, refcount, registry, env, i, found, pins, calls>>

-----------------------------------------------------------------------------
\* Bug: the new reference is not counted.
ShareUncounted(t, u, e) ==
  /\ Begin(t)
  /\ e \in pins[t] /\ u # t /\ pc[u] = "idle" /\ e \notin pins[u]
  /\ pins' = [pins EXCEPT ![u] = @ \cup {e}]
  /\ LockKept
  /\ UNCHANGED <<heap, refcount, registry, pc, env, i, found>>

\* woort_CodeEnv_share: an owner counts the reference it is about to give to u.
Share(t, u, e) ==
  /\ Begin(t)
  /\ e \in pins[t] /\ u # t /\ pc[u] = "idle" /\ e \notin pins[u]
  /\ refcount' = [refcount EXCEPT ![e] = @ + 1]
  /\ pins' = [pins EXCEPT ![u] = @ \cup {e}]
  /\ LockKept
  /\ UNCHANGED <<heap, registry, pc, env, i, found>>

\* Bug: every unshare destroys.
DropDestroys(t, e, from) ==
  /\ Goto(t, from, "destroy_lock")
  /\ refcount' = [refcount EXCEPT ![e] = @ - 1]
  /\ pins' = [pins EXCEPT ![t] = @ \ {e}]
  /\ env' = [env EXCEPT ![t] = e]
  /\ LockKept
  /\ UNCHANGED <<heap, registry, i, found>>

\* The decrement of woort_CodeEnv_unshare; the thread that took the count from
\* one to zero goes on to _woort_CodeEnv_destroy.
Drop(t, e, from) ==
  /\ Goto(t, from, IF refcount[e] = 1 THEN "destroy_lock" ELSE "idle")
  /\ refcount' = [refcount EXCEPT ![e] = @ - 1]
  /\ pins' = [pins EXCEPT ![t] = @ \ {e}]
  /\ env' = [env EXCEPT ![t] = e]
  /\ LockKept
  /\ UNCHANGED <<heap, registry, i, found>>

Unshare(t, e) ==
  /\ Begin(t)
  /\ e \in pins[t]
  /\ Drop(t, e, "idle")

\* The unshare in woort_CodeEnv_create when the registration failed.
CreateUndo(t) ==
  /\ pc[t] = "create_undo"
  /\ Drop(t, env[t], "create_undo")
  /\ UNCHANGED calls

-----------------------------------------------------------------------------
(* _woort_CodeEnv_destroy                                                   *)
DestroyLock(t) ==
  /\ Goto(t, "destroy_lock", "destroy_erase")
  /\ Lock!AcquireWrite(t)
  /\ UNCHANGED <<heap, refcount, registry, env, i, found, pins, calls>>

\* Bug: the last entry is dropped, whichever environment is destroyed.
DestroyEraseLast(t) ==
  /\ Goto(t, "destroy_erase", "destroy_unlock")
  /\ codeenvs' = IF codeenvs = <<>> THEN codeenvs ELSE Front(codeenvs)
  /\ LockKept
  /\ UNCHANGED <<m_capacity, block, heap, refcount, env, i, found, pins, calls>>

\* The search for the environment, and erase_at when it is there.
DestroyErase(t) ==
  /\ Goto(t, "destroy_erase", "destroy_unlock")
  /\ \/ /\ env[t] \notin Registered
        /\ UNCHANGED codeenvs
     \/ \E j \in DOMAIN codeenvs :
          /\ codeenvs[j] = env[t]
          /\ \A k \in 1 .. j - 1 : codeenvs[k] # env[t]
          /\ codeenvs' = RemoveAt(codeenvs, j)
  /\ LockKept
  /\ UNCHANGED <<m_capacity, block, heap, refcount, env, i, found, pins, calls>>

DestroyUnlock(t) ==
  /\ Goto(t, "destroy_unlock", "destroy_free")
  /\ Lock!ReleaseWrite(t)
  /\ UNCHANGED <<heap, refcount, registry, env, i, found, pins, calls>>

\* Bug: the code and the data are freed, the environment itself is not.
DestroyFreeForgets(t) ==
  /\ Goto(t, "destroy_free", "idle")
  /\ LockKept
  /\ UNCHANGED <<heap, refcount, registry, env, i, found, pins, calls>>

DestroyFree(t) ==
  /\ Goto(t, "destroy_free", "idle")
  /\ heap' = heap \ {env[t]}
  /\ LockKept
  /\ UNCHANGED <<refcount, registry, env, i, found, pins, calls>>

-----------------------------------------------------------------------------
(* woort_CodeEnv_find, for an address in the code block of e.               *)
FindCall(t, e) ==
  /\ Begin(t)
  /\ Goto(t, "idle", "find_lock")
  /\ env' = [env EXCEPT ![t] = e]
  /\ found' = [found EXCEPT ![t] = NoEnv]
  /\ LockKept
  /\ UNCHANGED <<heap, refcount, registry, i, pins>>

FindLock(t) ==
  /\ Goto(t, "find_lock", "find_scan")
  /\ Lock!AcquireRead(t)
  /\ i' = [i EXCEPT ![t] = 1]
  /\ UNCHANGED <<heap, refcount, registry, env, found, pins, calls>>

\* Bug: the loop stops one entry early.
FindScanShort(t) ==
  /\ UNCHANGED <<heap, refcount, registry, readers, writers, env, pins, calls>>
  /\ \/ /\ i[t] < Len(codeenvs) /\ codeenvs[i[t]] = env[t]
        /\ found' = [found EXCEPT ![t] = codeenvs[i[t]]]
        /\ Goto(t, "find_scan", "find_unlock")
        /\ UNCHANGED i
     \/ /\ i[t] < Len(codeenvs) /\ codeenvs[i[t]] # env[t]
        /\ i' = [i EXCEPT ![t] = @ + 1]
        /\ Goto(t, "find_scan", "find_scan")
        /\ UNCHANGED found
     \/ /\ i[t] >= Len(codeenvs)
        /\ Goto(t, "find_scan", "find_unlock")
        /\ UNCHANGED <<i, found>>

\* One turn of the loop: the entry covers the address, or it does not, or the
\* vector is exhausted.  (The size was read under the same lock.)
FindScan(t) ==
  /\ UNCHANGED <<heap, refcount, registry, readers, writers, env, pins, calls>>
  /\ \/ /\ i[t] <= Len(codeenvs) /\ codeenvs[i[t]] = env[t]
        /\ found' = [found EXCEPT ![t] = codeenvs[i[t]]]
        /\ Goto(t, "find_scan", "find_unlock")
        /\ UNCHANGED i
     \/ /\ i[t] <= Len(codeenvs) /\ codeenvs[i[t]] # env[t]
        /\ i' = [i EXCEPT ![t] = @ + 1]
        /\ Goto(t, "find_scan", "find_scan")
        /\ UNCHANGED found
     \/ /\ i[t] > Len(codeenvs)
        /\ Goto(t, "find_scan", "find_unlock")
        /\ UNCHANGED <<i, found>>

\* Bug: a way out of the loop that keeps the read lock.
FindUnlockForgets(t) ==
  /\ Goto(t, "find_unlock", "find_return")
  /\ LockKept
  /\ UNCHANGED <<heap, refcount, registry, env, i, found, pins, calls>>

FindUnlock(t) ==
  /\ Goto(t, "find_unlock", "find_return")
  /\ Lock!ReleaseRead(t)
  /\ UNCHANGED <<heap, refcount, registry, env, i, found, pins, calls>>

\* The caller has the raw pointer; nothing was counted.
FindReturn(t) ==
  /\ Goto(t, "find_return", "idle")
  /\ LockKept
  /\ UNCHANGED <<heap, refcount, registry, env, i, found, pins, calls>>

-----------------------------------------------------------------------------
\* What a thread does on its own once it is inside a call.
Proceed(t) ==
  \/ CreateLock(t) \/ CreatePush(t) \/ CreateUnlock(t) \/ CreateUndo(t)
  \/ DestroyLock(t) \/ DestroyErase(t) \/ DestroyUnlock(t) \/ DestroyFree(t)
  \/ FindLock(t) \/ FindScan(t) \/ FindUnlock(t) \/ FindReturn(t)

Next ==
  \E t \in Threads :
    \/ \E e \in CodeEnvs :
         \/ CreateAlloc(t, e)
         \/ Unshare(t, e)
         \/ FindCall(t, e)
         \/ \E u \in Threads : Share(t, u, e)
    \/ Proceed(t)

Spec == Init /\ [][Next]_vars

\* A thread inside a call goes on with it.  The lock is a spinlock: a thread
\* gets it when it stays free, and no fairness among waiters is assumed.
FairSpec == Spec /\ \A t \in Threads : WF_vars(Proceed(t))

-----------------------------------------------------------------------------
TypeOK ==
  /\ heap \subseteq CodeEnvs
  /\ refcount \in [CodeEnvs -> Nat]
  /\ codeenvs \in Seq(CodeEnvs)
  /\ m_capacity \in Nat
  /\ block \in Nat
  /\ readers \subseteq Threads
  /\ writers \subseteq Threads
  /\ pc \in [Threads -> {"idle"} \cup CreatePCs \cup DestroyPCs \cup FindPCs]
  /\ env \in [Threads -> CodeEnvs \cup {NoEnv}]
  /\ i \in [Threads -> Nat \ {0}]
  /\ found \in [Threads -> CodeEnvs \cup {NoEnv}]
  /\ pins \in [Threads -> SUBSET CodeEnvs]
  /\ calls \in [Threads -> 0 .. MaxCalls]

\* Whoever owns a reference has an allocated environment, and the count is the
\* number of owners, whatever other threads share, drop or destroy meanwhile.
CountsOwners ==
  /\ \A t \in Threads : pins[t] \subseteq heap
  /\ \A e \in heap : refcount[e] = Cardinality(Holders(e))

\* The scan of woort_CodeEnv_find reads m_code_begin and m_code_end of every
\* registered environment: none of them may be freed, not even one that is
\* being destroyed, none is there twice, and all are inside the block of the
\* vector, unless a push failed before: it leaves an m_capacity that is not the
\* block's size, and the entry written then is the one entry outside.
RegistryIsSound ==
  /\ Registered \subseteq heap
  /\ \A j, k \in DOMAIN codeenvs : codeenvs[j] = codeenvs[k] => j = k
  /\ block <= m_capacity /\ Len(codeenvs) <= m_capacity
  /\ Overrun => block < m_capacity /\ Len(codeenvs) = block + 1

\* Two threads never destroy the same environment, and an environment being
\* destroyed has no owner left: it is freed once, after the last unshare.
DestroyedOnce ==
  \A t \in Threads :
    Destroying(t) =>
      /\ env[t] \in heap /\ Holders(env[t]) = {}
      /\ \A u \in Threads : Destroying(u) /\ env[u] = env[t] => u = t

\* woort_VMRuntime_invoke gives up the process when the address it is to run is
\* not found (woort_vm.c:59-63).  A caller that owns a reference is safe: its
\* search succeeds, whatever is registered and erased around it.
OwnerFindsItsCode ==
  \A t \in Threads :
    pc[t] = "find_return" /\ env[t] \in pins[t] => found[t] = env[t]

\* Between calls nothing is left behind: an allocated environment has an owner
\* and is registered, or some thread is still busy with it.
NothingLeaks ==
  \A e \in heap :
    \/ Holders(e) # {} /\ e \in Registered
    \/ \E t \in Threads : env[t] = e /\ (Creating(t) \/ Destroying(t))

\* Once the last owner has let go, the environment is gone from the registry
\* and from the heap in the end, however the lock is contended (nothing is said of
\* a process that wrote outside the registry's block).
LastUnshareFrees ==
  \A t \in Threads, e \in CodeEnvs :
    pc[t] = "destroy_lock" /\ env[t] = e ~> e \notin heap \/ Holders(e) # {} \/ Overrun
=============================================================================
