# A verification of woort

woort is a small runtime in C: reference-counted code environments, a register-and-stack
virtual machine that executes them, and a compiler from a linear IR (LIR) to the bytecode in
such an environment. This directory models its control in TLA+, model-checks it with TLC on small
instances and proves with TLAPS what matters most for every instance. Paths below are relative to the
repository.

## Inventory

| component | state | operations | what makes it correct |
|---|---|---|---|
| read-write spinlock (`src/woort_spin.c`) | one atomic integer, -1 or the number of readers | lock, try_lock and unlock for reading and for writing | a writer is alone; no lost or stale value survives an attempt that failed; whoever waits gets in |
| code environments (`src/woort_codeenv.c`) | a reference count per environment; a global vector of all of them under the lock | create, share, unshare (and destroy), find | the count is the number of owners; freed once, after it left the registry; an owner finds its code |
| virtual machine (`src/woort_vm.c`) | the stack, its version, `m_sp`, `m_sb`, `m_ip`, `m_env`; in every dispatch loop copies of these | invoke, extern_stack, one case per instruction | copies and machine agree where one is read; frames nest; a moved stack is never used |
| hash map (`src/woort_hashmap.c`) | buckets, each the head of a chain of entries; a list of free entries; the number of entries | insert, get_or_emplace, find, contains, remove, clear, deinit | what was inserted is found, and nothing else, whatever grew or was removed in between; an entry is in one list |
| vector (`src/woort_vector.c`) | the block, the number of elements, the capacity | reserve, resize, push_back and emplace_back, erase_at, clear, move_out, deinit | it is the sequence its calls made, across growth and calls that fail; no element lies outside the block |
| linked list (`src/woort_linklist.c`) | head, tail, the two links of each node | push and emplace at both ends, erase, pop at both ends, index, clear, deinit | it is the sequence its calls made; it is linked backwards as it is forwards; no node is lost |
| bit set (`src/woort_bitset.c`) | words of 64 bits, the number of bits in use | set, reset, test, find_first_unset, deinit | the words hold the set that was set and not reset; the search finds its least gap, and none beyond the last bit |
| LIR functions (`src/woort_lir_function.c`) | the code of one function: registers, arguments, labels, jumps | emit, bind, registers for values and for arguments, register allocation | two live registers never share a slot; an argument stays where the caller put it; a label has one address |
| LIR instructions (`src/woort_lir.c`) | none | the form, the length and the encoding of an instruction | the length counted is the length emitted |
| LIR compiler (`src/woort_lir_compiler.c`) | constants, functions, the code so far | add, commit_function, commit | jumps reach; the code refers to constants and statics as laid out |
| timed recursive mutex (`src/woort_threads.c`, Windows) | an event, the owner and its count under a critical section | lock, trylock with a timeout, unlock | one thread holds it; the count is right; no wakeup is lost |
| other threads, atomics, log, diagnosis, util | wrappers of the platform | | |

How they interact: a client commits a LIR compiler and gets a code environment, which
`woort_CodeEnv_create` registers under the lock. A host thread invokes a machine at an address;
`woort_VMRuntime_invoke` asks the registry for the environment of the address and runs a dispatch
loop. The loop calls script functions in place, native functions through a C call (which may invoke the
machine again, so that loops nest), and compiled functions that can hand control back (RESYNC).
A return into code of another environment asks the registry again.

What is hard: the lock is taken by loads that may be stale and a weak exchange that may fail; the
registry is searched while environments die; the stack is moved by an inner loop while outer loops
hold pointers into it; registers exist twice and are synchronised by hand; an instruction that finds the stack
full is executed again; allocations fail half-way.

## Modules

| module | models | notes |
|---|---|---|
| `RWLock` | what `woort_spin.h` promises of a read-write lock | the abstract lock: `readers` and `writers` |
| `RWSpinlock` | `woort_rwspinlock_*` | one action per atomic access; `written` is the set of values a relaxed load may still return |
| `CodeEnv` | `woort_CodeEnv_*` and the registry | one action per step between lock operations; takes its lock from `RWLock` by INSTANCE |
| `VMRuntime` | `woort_VMRuntime_*` and the dispatch loop | one action per instruction; `acts` is the C stack of dispatch loops |
| `RegisterAllocation` | `woort_LIRFunction_register_allocation` over the bit set | one action per step of the scan; the program is arbitrary |
| `LIRCompiler` | labels and the emit functions of a LIR function, storage, commit | a commit goes function by function; the words of code keep what the properties need, and which instruction they come from |
| `Sequence` | what `woort_vector.h` and `woort_linklist.h` promise | the abstract sequence: its elements and the last call that was made |
| `Vector` | `woort_vector_*` | one action per call, and one for a reallocation that fails; `m_data` is the block that realloc gave |
| `LinkList` | `woort_linklist_*` | one action per call; a pointer is the address of a node, and addresses are used again |
| `HashMap` | `woort_hashmap_*` | one action per call; a pointer to an entry is its number; `content` is the map the client means |
| `BitSet` | `woort_bitset_*` | one action per call; a word is the set of its bits that are 1 |
| `Containers` | | the four containers side by side, by INSTANCE; they share nothing, so each behaviour uses one of them |
| `MCContainers` | | `Containers` for TLC: the symmetry of the keys, and one choice for what a container that is not used may choose |
| `TimeRecursiveMutex` | `woort_time_recursive_mutex_*` on Windows | entering and leaving the critical section, what is done inside, and the event are actions |
| `RWSpinlockProofs`, `CodeEnvProofs`, `VMRuntimeProofs`, `RegisterAllocationProofs`, `LIRCompilerProofs`, `HashMapProofs`, `ContainersProofs`, `TimeRecursiveMutexProofs` | theorems | each extends the module it is about; `ContainersProofs` has the list, the vector and the bit set, and takes the hash map from `HashMapProofs` by INSTANCE |

State and code. `RWSpinlock.m_state` is the field; `pc` and `expected` are a thread's place and local variable.
`CodeEnv.refcount`, `codeenvs` are `m_refcount` and `m_codeenvs`; `heap` is what malloc has
given and free not taken back, addresses are reused; `pins` records who owns references, which the C code
leaves to its callers. 
`m_capacity` and `block` are what the vector of the registry believes and what realloc gave: a push that cannot grow it keeps the raised
`m_capacity`, as `woort_vector_reserve` does, and the next registration is written outside the block. There the model ends (`Overrun`).
In `VMRuntime` a pointer into the stack is its index, `m_size` is
`m_stack_end - m_stack`, a code address is a pair of environment and offset, and the record `acts[k]` holds
`rt_ip`, `rt_sp`, `rt_sb`, `rt_env`, the end of the stack the loop knows (`size`), the
version it had read, and whether it executes (`run`) or waits in a native (`native`) or a compiled function (`jit`).
`assured` and `base` are history: what ASSURESSZ secured and where the loop's own invoke began.
Which instruction stands at an address is left open: every instruction may follow every other, provided
the program pops only what it pushed and writes only what is its own (`Slots`): the cells it pushed, above its sp; those at and below
sp that ASSURESSZ has secured, where the compiler of this repository keeps its locals, since ASSURESSZ moves no pointer; and its arguments, above
its frame and within the one that called it. That is an assumption about programs: the machine itself writes at any offset.
A compiled function is modelled by the contract in `woort.h`: it returns NORMAL, ABORTED or YIELD, it hands its frame over with RESYNC, or it calls a native
function first, which may invoke the machine and so move the stack; then it returns RESYNC, or NORMAL when the stack was not moved. What it
writes into its own frame, or has pushed when it returns RESYNC, is left out.

In `RegisterAllocation` the arrays `first` and `last` are the two ends of `m_alive_range`, `offset` is
`m_assigned_bp_offset`, `bitset` the set of bits that are set; the order among registers that start together is any, as with `qsort`.
Before the scan the function is built: a register is its number in `m_register_list`, `woort_LIRFunction_get_argument_register`
finds or makes the one of an index, and leaves `m_argument_registers` longer also when there is no memory for the register.
A resize of `m_argument_registers` that fails is left out (it raises the capacity, and the next one would go outside the block), and each function is allocated once (see below for a second time).
In `LIRCompiler` `lirs`, `labels` and `pending` are the lists of the functions, `code` and `constants` what the compiler
holds; `origin` is history. A failure of an allocation is a disjunct wherever the code tests for one:
in the middle of a function's words, in `woort_CodeEnv_create` before and after the vectors were moved. A vector that could not
grow keeps the capacity it raised, and what is added to it later is outside its block: `raised` says so of the code, and `pc` is "wild" once such a write
has happened, to the code, the constants or the labels that wait (of these two whether they have failed to grow is left open). Of a register only whether its place is near or far, and whether it is an argument's, matters there:
an argument is far from the index 128 on.

In `TimeRecursiveMutex` `event`, `owner_thread` and `lock_count` are the fields, `cs` is who is in the critical section; the event,
the critical section and `GetCurrentThreadId` are modelled by what Windows documents of them. `depth` is history: how often a thread was
told it has the mutex. A timeout may pass whenever the event is not signalled.

`Vector`, `LinkList`, `HashMap` and `BitSet` have one action per call, since nobody shares a container. The callers of an emplace
write the storage they get before they make another call, so that an emplace is a push. `status` becomes "freed" with deinit: no call follows.
In `Vector` the length of `m_data` is the real size of the block, which `m_capacity` exceeds after a reallocation that failed: a push or a resize that believes it has room
then succeeds, raises `m_size` and uses cells outside (`status` "wild", the last step that is followed). In `LinkList` `NodeAt[k]` is the node after k steps from the head. `call` of both is history for the
refinement of `Sequence`: what was called, and with what.

In `HashMap` the chains are read off the links, as the code does; `m_buckets` is a function on
`0 .. m_bucket_count - 1`, empty before the first growth. The hash function is chosen in the initial state, since it is
the client's. `intact` is history: it becomes FALSE when a removal takes an entry without `m_prev` for the first of its bucket and it
is not (`hashmap_first`); that every key is found (in `FindsContent`) and `EveryEntryOnce` speak of the time before, that no
key is found with a wrong value and `ChainsAreSound` of all. After `woort_hashmap_clear` took entries whose buckets still lead to them `status` is "cleared":
what find answers then, what the lists are and what deinit does are modelled, and the three invariants say it. Insertions, removals and another clear of such a
map have a meaning in the code too, but are not followed: they rewrite entries that chains lead through. `status` is "wild" after what C does not define: a search in a map that has no
buckets, the second free of the entries by the deinit of a cleared map, and the use of the storage that get_or_emplace does not give for a key that exists.

## Runs

| run | bounds | shows |
|---|---|---|
| `rwspinlock` | 2 threads, 3 lock calls each, fairness | exclusion, the count, no refusal of a free lock; a waiter gets in; the refinement of `RWLock` |
| `codeenv` | 2 threads, 2 addresses, 3 calls each, a first capacity of 1, fairness | counting, freeing once, no leak, an owner finds its code; the last unshare frees; only a registration after one that failed writes outside the registry |
| `vm` | stack of 8 cells that grows to 16, 2 nested loops, 2 invokes, operand 1, two words of code and RESULT behind them, fairness | no dangling pointer, distances kept; frames lead back to their invoke; what a waiting loop has pushed is kept; assertions of the pushes hold, an overflow is resolved |
| `regalloc` | 4 registers, 2 indices of arguments, 4 instructions of 2 operands, `INT8_MAX` 3, `INT16_MAX` 6, fairness | the places of value registers (no interference, reserved ones free, counted by the usage and within it but for the gap), the offsets of arguments unchanged, exact expiry; the scan ends |
| `lir_compiler` | 2 functions, 3 instructions over far registers, 1 label each, 1 constant, 1 static, 2 commits | jumps land, if they pass no PUSH; data are found; nothing lost or doubled |
| `containers` | hash map: 3 keys, 2 values, hashes 0 and 2, first 2 buckets, 3 entries allocated; vector: 2 values, pushes of up to 3, sizes 1 and 3, capacities 2 and 4; list: 4 nodes; bit set: 0, 3 or 7 bits in words of 3 | the map finds what was inserted and never what was removed, in sound chains, and loses no entry, until it is cleared, and what is true of it then; vector and list implement `Sequence`, inside their block and linked both ways; the words of the bit set are the set |
| `time_mutex` | 3 threads, 3 calls of lock or trylock each, 2 levels, fairness | exclusion, the owner's count, no lost wakeup; a waiter gets in |
| `vm_*` (violations), `regalloc_full`, `linklist_pop_back`, `hashmap_first` | as small as the counterexample needs | the places where the code does not do what a comment says (`findings` in PROJECT.json) |

The bounds are enough because the hazards are local: two threads give every pair of calls that meet at one atomic access (and
the theorems speak of any number of them); two clients give one that owns or finds and one that destroys; two environments give one that is destroyed while the other is found; two nested loops
give one that waits while the other moves the stack, and the stack doubles within the run. In the code the stack
begins with 32 cells and has 2^27 at most; the numbers in the runs are smaller so that both
the doubling and its refusal happen. A frame of three slots with an `INT8_MAX` of 3 and four registers that get slots puts registers on both sides of the
reserved places and refuses some programs; three instructions give a jump over one, forwards and backwards, in
a function that comes after another. Hashes 0 and 2 collide in two buckets and part in four, so that
a growth splits a chain; three keys in one chain give an entry with two neighbours. When a removal cut entries off, their keys are inserted again into entries that
were given back. The containers share nothing, so a behaviour of `containers` uses one of them: interleaving calls of several would only
multiply the states. Four nodes give an erasure between two neighbours while an address is free to be used again; capacities 2 and 4
give a doubling, its failure, and a push that would need more memory than there is. `PopsLonger` is FALSE there, since popping the last of several elements loses the others, which
`linklist_pop_back` shows. Seven bits in words of three leave the last word in use in part, three fill one, and 0 have none. The registers of `lir_compiler` are all far, so that a PUSH counts as two words and is emitted as one, and some jumps miss (see
below); the theorem speaks of all places. A first capacity of 1 in `codeenv` makes the second environment grow the registry, or fail to, with a third registration left within the calls. CHECK_DEADLOCK is FALSE where every thread has used up its calls or
the process has panicked: then the system stops.

Fairness. `RWSpinlock`: a scheduled thread takes its next step, what is held is released, a stored value is
seen by a load in the end (C11 7.17.3), and a weak exchange does not fail for ever; no order among the threads. `CodeEnv`:
weak fairness of a thread inside a call. `VMRuntime`: an instruction that was thrown back by an overflow is executed again; nothing else, native functions need not return. `RegisterAllocation`: the thread goes on
with the scan. `TimeRecursiveMutex`: a thread goes on with its call, and unlocks what it holds; which of those that wait gets the event is open.
The locks are not fair, and weak fairness is enough for a waiter only because the calls of each thread are bounded: it gets in once the others have used up theirs.

## Proofs

`RWSpinlockProofs` proves, for every number of threads and calls: types, mutual exclusion, that the state word is
the count, that try_write_lock refuses only a held lock, and that the spinlock implements `RWLock`. The
inductive invariant is the count together with the exclusion: neither is inductive alone, since exclusion follows from
the sign of the word, and the word's step from the number of those inside. From: `Threads` is finite.

`VMRuntimeProofs` proves, for every size of the stack, depth of nesting and program: types, `NoDanglingStack`,
`DistancesKept` and `AssuredPushFits`. Its inductive invariant adds that all loops but the
innermost wait in a native or a compiled function (so a loop becomes the innermost again only through the version check), and that
a loop remembers the size that belongs to its version, never one larger than the stack now has. Every
action is shown to be one of four kinds of step of the loops (`LoopStep`), and the invariant is shown of those.
`FramesLeadToInvoke` and `PushedCellsKept` need a second invariant, `FInv`: the frames of a loop stand at distances from the end of
the stack, the first that of its invoke, each but it with a record that leads to the one before (`Frames`); the frames of a loop that waits lie
behind those of the loops it invoked (`FramesNest`); and the machine's sp is below the frames of every loop that waits (`NativesAreSynced`), which is what the
SYNC before a native call is for. Again each action is one of a few kinds of step (`FrameStep`): the innermost loop stays in its frame, pushes
one or pops one; a loop is entered, is left, or resumes after a native call; the stack is extended; or the process ends. The recursive definition of the walk is shown to have one solution, by its least point of
disagreement. From: that the stack begins with at most 65534 cells (32 in the code) for the first, and that `MaxSize` is at most 32768 for the second, because of
`RESULT` (below). `PushedCellsKept` is about what lies above the sp of a loop that waits; arguments are written above the frame of the loop that
runs, and the proof has to show that these do not reach a loop further out. Of what a caller keeps at and below its sp it says nothing, see below.

`CodeEnvProofs` proves, for any number of threads, addresses and calls, all the safety properties of the run. `CountsOwners` and
`DestroyedOnce` are not inductive alone: the registry may be scanned safely only because of who holds the lock at which place of
its program (`LockHeld`), a new environment has no owner but its creator and is not registered outside its push and
erasure (`BusyWith`), and a search finds because it has not passed its environment by (`SearchSucceeds`). All entries are in the registry's block, or all but
the one that a registration writes after another has failed; the theorems speak of the time up to that write. Three more theorems say how the
registry uses its lock, without a run of their own: its calls are those of a client of `RWLock` (`UsesRWLock`), so that with the refinement that `RWSpinlockProofs` proves
the spinlock may stand in for the lock here; every unlock is of what the thread holds (`UnlocksAreOwn`); and the vector is never changed while
another thread is in it (`NoRace`). From: `Threads` is finite, `NoEnv` is no environment, and a first capacity is at least 1.

`RegisterAllocationProofs` proves, for any number of registers and arguments, program and width of the offsets: types, `ValuesHavePlaces` (no two value registers
alive together share a place, none lies at a reserved offset, the usage is the number of places and reaches them but for the gap, the registers of arguments keep their offsets) and
`ActiveIsAlive`. The invariant says that the bits of all active registers are set and that
their offsets are the places of those bits; that registers are taken in the order of their
first use, so that one that has expired at some step stays expired; that
`PlaceOf` is injective and misses the reserved offsets, a lemma of its own; and, for the usage, that the slots below it are those ever taken. The slots that are not given back
(`regalloc_full`) do not matter to it: it only needs that a bit that is reset belonged to an expired register.

`LIRCompilerProofs` proves, for any number of functions, instructions, labels, storage and commits: types, `JumpsLand`, `LoadsWhatIsMeant` and
`EveryLirOnce`. The invariant follows the commit: each word belongs to an instruction that exists (`Structured`); during the first try an operand is the name its
client gave, or what the commit made of it (`OperandsKnown`), and so are the words that load and store (`WordsKnown`);
the words emitted are in order and complete up to the current function (`OrderedSoFar`, `CompleteSoFar`); and every function the commit
has passed stands in the code as a whole, at one place (`StandsWhole`), from which the landing of its jumps follows by arithmetic. `FirstTry` names
the time in which nothing is left of an earlier commit. From: `LIRCompilerAssumption`. A jump over a
PUSH of a far register misses in the code, hence `JumpsLand` speaks of jumps that pass none; those it speaks of land wherever in the function the others are.

`HashMapProofs` proves, for any hash function, keys, values, number of entries and growths: types, `FindsContent`, `ChainsAreSound` and
`EveryEntryOnce`. The state holds nothing but links, and none of these is inductive in them. The invariant (`IInv`) therefore says that the
links come from a picture of the map: a `place` for each entry (a bucket, the free list, or `Lost` once a removal has cut
it off) and a `rank`, which grows as entries are put in front. An entry's `next` is the one of the next lower rank at its place (`Linked`), its
`prev` is missing or the one of the next higher rank (`LinkedBack`); an entry in a bucket is there by the hash of its key, under a key of
its own and with the value its client means (`Keyed`); and as long as nothing was cut off no entry is lost, every key that is
meant has one, and `m_size` counts them (`Complete`). Each call is shown to give the next picture: an insertion
gives its entry the highest rank in its bucket, a removal moves the entry to the front of the free list and, when it was
taken for the first and is not, those before it to `Lost`. For growth, where chains are walked in order and built anew in reverse, the rank of
an entry becomes the position at which it is taken. That the recursive definitions (`ListFrom`, the flattening of all chains) read the picture off the links is
shown by a walk that goes down through the ranks, and by least counterexamples in place of induction (`WalkDown`, `ListIs`, `FlattenIs`).
A map that was cleared has a picture of its own (`ClearedAs`): the free list in one order, and chains that lead through parts of it.
From: `HashMapAssumption`; the remainder of a hash is all that is used of it.

`ContainersProofs` proves of `ContainersSpec`, where any one of the containers is used, all the safety properties and both refinements of the
run `containers`. A step of the composition is a step of each container or leaves it alone (`EachIsPart`), so that what
is proved of each carries over; `SameMap` shows the hash map of `Containers` to be the one of `HashMapProofs`.

- The list: for any set of nodes and values, types, `ListIsLinked` and that it implements `Sequence`. The invariant is that some order
  links the nodes (`LinkedAs`); each call is shown to give the next order. That the recursive walk `NodeAt` reads this
  order off the links is shown by taking the least step at which the two differ. The lemmas
  `LinkedBack`, `LinkedFront` and `LinkedOut` say what pushing and erasing make of a linked order. From: `LinkListAssumption`, and that only a last element is
  popped at the back.
- The vector: for any values, sizes and doublings, types, `VectorStaysInBlock` and that it implements `Sequence`. The
  invariant: the block has the size `m_capacity` unless a reallocation failed, and the elements are in it in every case. From: `VectorAssumption`.
- The bit set: for any width of a word and number of bits, that the words hold the set and that the search finds its least gap
  (`BitSetIsSet`). The invariant (`BitInv`) says that bit b of word w tells of w * WordBits + b and that nothing beyond the last bit is
  set; `TakenApart` and `PutTogether` say that an index is its word and its bit and nothing else, `EarlierWord` that a smaller index is in an earlier word, or earlier in
  the same, from which it follows that the first gap decides. From: `BitSetAssumption`.

`TimeRecursiveMutexProofs` proves all the safety properties of `time_mutex` for any number of threads, calls and levels. The invariant counts as a
holder also the thread that took the event and is not the owner yet (`OneHolder`), and keeps for a call what its start has asked for (`InCall`).
From: `NoThread` is no thread.

Every invariant and every refinement that a passing run checks is also proved. Only model-checked are the liveness properties (`RWSpinlock`, `CodeEnv`,
`VMRuntime`, `RegisterAllocation`, `TimeRecursiveMutex`): they rest on fairness, and so on ENABLED.

## Behaviour to know of that no run states

- A PUSH of a register that is far from the frame pointer, or of an argument of index 128 or more, is counted as two words (`woort_lir.c:117-120`, `189`) and emitted as one
  (`woort_lir.c:362`): the jumps over it go too far. `JumpsLand` therefore speaks of the jumps that pass no such PUSH.
- A vector that could not grow keeps the `m_capacity` it raised (`woort_vector.c:36-47`). The next registration of an environment, the words of a commit
  that is tried again, or the next constant are then written outside the block (`Overrun`, `raised`, "wild").
- A map that was cleared still finds its keys, and its deinit frees every entry of its chains twice (`woort_hashmap.c:51-77`, `305-320`).
- `woort_hashmap_get_or_emplace` does not set the storage address for a key that exists (`woort_hashmap.c:194-196`), which `woort_hashmap.h:52` says it gives (`EmplaceExisting`).
- A commit that is tried again allocates the registers of its functions again. They have their offsets already: a register at offset
  0 trips the assertion that it has none (`woort_lir_function.c:219`), one at a negative offset is taken for an argument.
- A commit that failed may be tried again, but the static offsets are moved again and the code of the first try stays:
  `EveryLirOnce` and `LoadsWhatIsMeant` speak of the first commit only. The retry itself is in the model.
- `m_fact_bytecode_offset` is one short of the place in the code where the function has a frame: the word that asks for
  it is emitted in front, after the layout. Jumps are relative and do not notice.
- That word is "PUSH RESERVE STACK_USAGE" in the code; mode 0 of PUSH is ASSURESSZ, which asks for the space and moves no pointer. The locals of a compiled function
  therefore lie at and below sp, where its own pushes and the frame of whatever it calls land. (The compiler emits no calls yet.)
- LOAD and STORE take the short form also for an index beyond 18 bits or a far register.
- `RET` to native code leaves the loop without storing its registers, so that every invoke costs three cells of the stack.
- After a native call that returned normally the loop goes on in the frame that was pushed for the call.
- `RET` goes on one word behind the return address.
- `RESULT` ignores the sign of its operand: -1 is read as 65535, a slot that is not there in a stack of fewer cells. The code lets the stack grow to 2^27 cells;
  in one of more than 65535 the slot may be in the frame of another function, or of another loop. That is why
  `PushedCellsKept` is proved for stacks below that size only.
- Arguments have the offsets -1, -2, ... ("TBD" in the code, `woort_lir_function.c:171`). These are also those of the slots 1, 2, ..., and for the indices 125 to 127 the reserved
  ones, -126 to -128; `woort_opcode.h:19-20` has arguments from bp + 3 on instead. No property excludes it, and `ValuesHavePlaces` speaks of value registers.
- The frame that is asked for is the number of slots. The places behind the reserved offsets lie three further out, so that the last three are not in it
  (`woort_lir_function.c:410-416`; `UsageReachesPlaces`).

## Not modelled

Values and their types, the contents of the data of environments, the printing of messages, the packing of
operands into words (except where a sign or an index is lost), and the platform wrappers of threads and atomics: of the three
implementations of threads each but the Windows timed recursive mutex hands every call to one of the platform, or (the timed mutex of
Windows, which is an event too, and the polling of macOS) is a simpler form of the one modelled. The plain
spinlock is an exchange in a loop, and nothing uses it. The
instructions without a case in the dispatch loop (CALL, JMP, JCOND, ...) are BadCommand; so a jump is taken to count from its own word, as the
emitter computes it. Widening of conditional jumps: no function emits one, and emitting one calls abort(). The foreach of the hash map only reads.
`LIRCompiler`, `CodeEnv` and the containers are not composed. A push is one action of its user, which has the outcomes of `Vector` where they matter there: in `CodeEnv` the registry
with its block, in `LIRCompiler` whether the code vector has failed to grow; of the lists of functions and instructions a failed call is left out, since it leaves them as they are (linked lists), and of
the constants and labels that wait the write outside the block is possible at any time. The creation of an environment is one action of `LIRCompiler`, which has none of the concurrency of `CodeEnv`.

## Plan

What is left, in the order of what it would add:

1. The refinement of the creation of an environment in `LIRCompiler` into `CodeEnv`.
2. The allocation of a function again after a commit that failed, in `RegisterAllocation`.
3. Insertions and removals of a hash map that was cleared while it had entries.
4. The timed mutex of Windows and the polling one of macOS.
