----------------------------- MODULE VMRuntime ------------------------------
(***************************************************************************)
(* woort_vm.c: one virtual machine, its stack, and the dispatch loops that *)
(* run on it.                                                              *)
(*                                                                         *)
(* A dispatch loop keeps its own copies of the machine's registers (rt_ip, *)
(* rt_sp, rt_sb, rt_stack, rt_env) and writes them back only at a SYNC.    *)
(* Native functions are called from the loop and may invoke the machine    *)
(* again, so several loops are nested on the C stack: the sequence `acts'. *)
(* The stack may be moved by the innermost loop while the others hold      *)
(* pointers into the old block.                                            *)
(*                                                                         *)
(* Pointers into the stack are indices from m_stack, and m_stack_end is    *)
(* m_size; an address of code is a pair of its environment and an offset.  *)
(* Which instruction stands at an address is left open, except that an     *)
(* instruction that threw stack_overflow is executed again.  Programs pop  *)
(* what they pushed, and write only what is theirs: the cells they pushed, *)
(* those below sp that ASSURESSZ has secured (there this repository's own  *)
(* compiler keeps its locals: ASSURESSZ moves no pointer), and arguments.  *)
(***************************************************************************)
EXTENDS Integers, Sequences, SequencesExt

CONSTANTS
  CodeEnvs,    \* the registered code environments
  NoEnv,       \* the null pointer
  BeginSize,   \* WOORT_VM_DEFAULT_STACK_BEGIN_SIZE, in values
  MaxSize,     \* WOORT_VM_MAX_STACK_SIZE, in values
  Operands,    \* the counts an instruction may carry
  MaxCode,     \* bound: from this offset on, nothing but RESULT is executed
  MaxDepth,    \* bound: how deep dispatch loops nest
  MaxInvokes   \* bound: how often the machine is invoked

ASSUME VMRuntimeAssumption ==
  /\ NoEnv \notin CodeEnvs
  /\ BeginSize \in Nat \ {0}
  /\ MaxSize \in Nat
  /\ Operands \subseteq Nat
  /\ MaxCode \in Nat
  /\ MaxDepth \in Nat
  /\ MaxInvokes \in Nat

VARIABLES
  m_stack,   \* the cells, at 0 .. m_size - 1
  m_size,    \* m_stack_end - m_stack
  version,   \* m_stack_realloc_version; it also names the block
  m_sp, m_sb, m_ip, m_env,
  acts,      \* the dispatch loops, the innermost one last
  invokes,   \* how often the machine was invoked
  status     \* "ok", or how the process ended: "panic"; "assert"; or "wild",
             \* when the code reads or writes something that is not there

stackVars == <<m_stack, m_size, version>>
machineVars == <<m_sp, m_sb, m_ip, m_env>>
vars == <<stackVars, machineVars, acts, invokes, status>>

-----------------------------------------------------------------------------
NoIp == <<NoEnv, 0>>
After(ip, words) == <<ip[1], ip[2] + words>>

\* What a cell holds: a woort_RetBP, a return address, or anything else, be it
\* a value of the program or what was in the memory malloc or realloc returned.
RetBp(way, offset) == [is |-> "ret_bp", way |-> way, offset |-> offset, ip |-> NoIp]
RetAddr(ip) == [is |-> "ret_addr", way |-> "none", offset |-> 0, ip |-> ip]
Data == [is |-> "data", way |-> "none", offset |-> 0, ip |-> NoIp]

NoRedo == <<"none", 0>>

Top == acts[Len(acts)]
SetTop(act) == acts' = ReplaceAt(acts, Len(acts), act)

Init ==
  /\ m_size = BeginSize
  /\ m_stack = [k \in 0 .. BeginSize - 1 |-> Data]
  /\ version = 0
  /\ m_sb = BeginSize - 1 /\ m_sp = BeginSize - 1
  /\ m_ip = NoIp /\ m_env = NoEnv
  /\ acts = <<>>
  /\ invokes = 0
  /\ status = "ok"

\* The innermost loop executes code, or a native or a compiled function that it
\* has called does.
Running  == status = "ok" /\ acts # <<>> /\ Top.mode = "run"
InNative == status = "ok" /\ acts # <<>> /\ Top.mode \in {"native", "jit"}

\* The loop is about to execute instruction `op' with operand n.
Fetch(op, n) ==
  /\ Running
  /\ Top.ip[2] < MaxCode \/ op = "RESULT"
  /\ Top.redo \in {NoRedo, <<op, n>>}

\* The loop goes on behind the instruction, with the registers in `act'.
Continue(act, words) ==
  SetTop([act EXCEPT !.ip = After(@, words), !.redo = NoRedo])

Halt(how) ==
  /\ status' = how
  /\ UNCHANGED <<stackVars, acts, invokes>>

\* SYNC: the registers of the loop go to the machine.
Sync(ip, sp, sb) ==
  /\ m_ip' = ip /\ m_sp' = sp /\ m_sb' = sb
  /\ UNCHANGED m_env

NoSync == UNCHANGED machineVars

\* A call record lies below the frame whose bp is p; the bp of the frame it leads
\* to, in loop `act'.
IsRecord(p) ==
  /\ {p + 1, p + 2} \subseteq DOMAIN m_stack
  /\ m_stack[p + 1].is = "ret_bp" /\ m_stack[p + 2].is = "ret_addr"

CallerBp(act, p) == act.size - m_stack[p + 1].offset

\* What the function a loop executes may write: what it pushed, what it secured,
\* and its arguments.  These the caller pushed, it is not known how many; what
\* invoke calls has none.
Secured(act) == {k \in DOMAIN m_stack : k <= act.sp /\ act.size - k < act.assured}

Arguments(act) ==
  {k \in DOMAIN m_stack :
     /\ k >= act.sb + 3 /\ k <= act.size - act.base
     /\ IsRecord(act.sb) => k <= CallerBp(act, act.sb)}

Slots(act) ==
  {k \in DOMAIN m_stack : act.sp < k /\ k <= act.sb} \cup Secured(act) \cup Arguments(act)

-----------------------------------------------------------------------------
(* woort_VMRuntime_invoke, by the host or by a native function the machine  *)
(* is running.  (The function belongs to a registered environment: else     *)
(* invoke returns ABORTED and changes nothing.)  The stack is not checked.  *)
Invoke(e) ==
  LET sp == m_sp - 3
  IN
  /\ status = "ok"
  /\ acts = <<>> \/ InNative
  /\ Len(acts) < MaxDepth
  /\ invokes < MaxInvokes
  /\ invokes' = invokes + 1
  /\ m_env' = e
  /\ m_sp' = sp /\ m_sb' = sp /\ m_ip' = <<e, 0>>
  /\ UNCHANGED <<m_size, version>>
  /\ IF sp + 1 < 0
     THEN status' = "wild" /\ UNCHANGED <<m_stack, acts>>
     ELSE /\ m_stack' = [m_stack EXCEPT ![sp + 1] = RetBp("FROM_NATIVE", m_size - m_sb),
                                        ![sp + 2] = RetAddr(m_ip)]
          /\ acts' = Append(acts,
               [ip |-> <<e, 0>>, env |-> e, sp |-> sp, sb |-> sp,
                version |-> version, size |-> m_size,
                mode |-> "run", redo |-> NoRedo,
                assured |-> 0,             \* history: room ASSURESSZ has secured
                base |-> m_size - sp])     \* history: the frame invoke pushed
          /\ UNCHANGED status

-----------------------------------------------------------------------------
(* Instructions that move values.                                           *)

\* LOAD, LOADEX and MOV* write a slot of the frame; STORE and STOREEX write the
\* data of the environment, which is not modelled.
Move ==
  /\ Fetch("MOV", 0)
  /\ \/ \E k \in Slots(Top) : m_stack' = [m_stack EXCEPT ![k] = Data]
     \/ UNCHANGED m_stack
  /\ \E words \in 1 .. 2 : Continue(Top, words)
  /\ NoSync
  /\ UNCHANGED <<m_size, version, invokes, status>>

\* How many cells below sp an instruction checks for before it uses them.
Demand(op, n) == IF op \in {"PUSHRCHK", "ASSURESSZ"} THEN n
                 ELSE IF op = "PUSHCHK" THEN 0 ELSE 2

CheckedOps ==
  {"PUSHRCHK", "ASSURESSZ"} \X Operands
    \cup {"PUSHCHK", "CALLNWO", "CALLNFP", "CALLNJIT"} \X {0}

Fits(op, n) == Top.sp - Demand(op, n) >= 0

PushReserve(n) ==
  /\ Fetch("PUSHRCHK", n)
  /\ Fits("PUSHRCHK", n)
  /\ Continue([Top EXCEPT !.sp = @ - n], 1)
  /\ NoSync
  /\ UNCHANGED <<stackVars, invokes, status>>

\* *(rt_sp--) = ...; with the check, and without it.
StoreAndDrop ==
  /\ m_stack' = [m_stack EXCEPT ![Top.sp] = Data]
  /\ \E words \in 1 .. 2 : Continue([Top EXCEPT !.sp = @ - 1], words)
  /\ NoSync
  /\ UNCHANGED <<m_size, version, invokes, status>>

PushChecked ==
  /\ Fetch("PUSHCHK", 0)
  /\ Fits("PUSHCHK", 0)
  /\ StoreAndDrop

\* Bug: the check allows two cells too few.
AssureShort(n) ==
  /\ Fetch("ASSURESSZ", n)
  /\ Top.sp - n + 2 >= 0
  /\ Continue([Top EXCEPT !.assured = Top.size - Top.sp + n], 1)
  /\ NoSync
  /\ UNCHANGED <<stackVars, invokes, status>>

Assure(n) ==
  /\ Fetch("ASSURESSZ", n)
  /\ Fits("ASSURESSZ", n)
  /\ Continue([Top EXCEPT !.assured = Top.size - Top.sp + n], 1)
  /\ NoSync
  /\ UNCHANGED <<stackVars, invokes, status>>

\* The compiler emits plain pushes only within what ASSURESSZ has secured.
Push ==
  /\ Fetch("PUSH", 0)
  /\ Top.size - Top.sp < Top.assured
  /\ \/ Top.sp >= 0 /\ StoreAndDrop
     \/ Top.sp < 0 /\ Halt("assert") /\ NoSync

PopReserve(n) ==
  /\ Fetch("POPR", n)
  /\ Top.sp + n <= Top.sb
  /\ Continue([Top EXCEPT !.sp = @ + n], 1)
  /\ NoSync
  /\ UNCHANGED <<stackVars, invokes, status>>

\* POPS to a slot of the frame; POPC and POPCEXT to the environment's data.
Pop ==
  /\ Fetch("POP", 0)
  /\ Top.sp < Top.sb
  /\ \/ \E k \in Slots(Top) : m_stack' = [m_stack EXCEPT ![k] = Data]
     \/ UNCHANGED m_stack
  /\ \E words \in 1 .. 2 : Continue([Top EXCEPT !.sp = @ + 1], words)
  /\ NoSync
  /\ UNCHANGED <<m_size, version, invokes, status>>

-----------------------------------------------------------------------------
(* stack_overflow: SYNC, extern_stack, RESYNC, and the instruction again.   *)

\* memcpy is given the old number of values as its number of bytes, and a value
\* has 8 bytes; the upper half of what realloc returned is uninitialised but
\* for what was copied there.
CellsMoved == m_size \div 8

\* Bug: realloc is asked for the old size.
NewStackOldSize == m_stack

NewStack ==
  [k \in 0 .. 2 * m_size - 1 |->
     IF k < m_size THEN m_stack[k]
     ELSE IF k - m_size < CellsMoved THEN m_stack[k - m_size] ELSE Data]

\* Bug: pointers are rebased from the begin of the block.
RebaseFromBegin(p) == p

Rebase(p) == 2 * m_size - (m_size - p)

\* _woort_VMRuntime_extern_stack on the state a SYNC has just written.
ExternStack ==
  /\ m_size < MaxSize
  /\ m_stack' = NewStack
  /\ m_size' = 2 * m_size
  /\ version' = version + 1

\* Bug: the instruction is executed again, and the stack was not extended.
StackOverflowRetries(op, n) ==
  /\ Fetch(op, n)
  /\ ~Fits(op, n)
  /\ Sync(Top.ip, Top.sp, Top.sb)
  /\ SetTop([Top EXCEPT !.redo = <<op, n>>])
  /\ UNCHANGED <<stackVars, invokes, status>>

StackOverflow(op, n) ==
  /\ Fetch(op, n)
  /\ ~Fits(op, n)
  /\ \/ \* too big already, or realloc fails
        /\ Sync(Top.ip, Top.sp, Top.sb)
        /\ Halt("panic")
     \/ /\ ExternStack
        /\ Sync(Top.ip, Rebase(Top.sp), Rebase(Top.sb))
        /\ SetTop([Top EXCEPT !.sp = m_sp', !.sb = m_sb', !.env = m_env,
                              !.version = version', !.size = m_size',
                              !.redo = <<op, n>>])
        /\ UNCHANGED <<invokes, status>>

-----------------------------------------------------------------------------
(* Calls.                                                                   *)
PushFrame(way) ==
  m_stack' = [m_stack EXCEPT ![Top.sp - 1] = RetBp(way, Top.size - Top.sb),
                             ![Top.sp] = RetAddr(After(Top.ip, 1))]

InFrame == [Top EXCEPT !.sp = @ - 2, !.sb = Top.sp - 2, !.redo = NoRedo]

\* A script function that the data of the loop's environment names.
CallNear ==
  /\ Fetch("CALLNWO", 0)
  /\ Fits("CALLNWO", 0)
  /\ PushFrame("NEAR")
  /\ SetTop([InFrame EXCEPT !.ip = <<Top.env, 0>>])
  /\ NoSync
  /\ UNCHANGED <<m_size, version, invokes, status>>

\* Bug: no SYNC before the native function runs.
CallNativeUnsynced ==
  /\ Fetch("CALLNFP", 0)
  /\ Fits("CALLNFP", 0)
  /\ PushFrame("NEAR")
  /\ SetTop([InFrame EXCEPT !.mode = "native"])
  /\ NoSync
  /\ UNCHANGED <<m_size, version, invokes, status>>

\* A native function: SYNC, and the loop waits for it to return.
CallNative ==
  /\ Fetch("CALLNFP", 0)
  /\ Fits("CALLNFP", 0)
  /\ PushFrame("NEAR")
  /\ SetTop([InFrame EXCEPT !.mode = "native"])
  /\ Sync(Top.ip, Top.sp - 2, Top.sp - 2)
  /\ UNCHANGED <<m_size, version, invokes, status>>

\* Bug: the pointers into the stack are used as they were.
NativeReturnsStale ==
  /\ InNative /\ Top.mode = "native"
  /\ Continue([Top EXCEPT !.mode = "run"], 1)
  /\ NoSync
  /\ UNCHANGED <<stackVars, invokes, status>>

\* The place of cell p of loop `act' in the stack as it is now.
Found(act, p) == m_size - (act.size - p)

\* It returns NORMAL: when the stack was moved meanwhile, the loop finds its
\* place again by its distance from the end.
NativeReturns ==
  /\ InNative /\ Top.mode = "native"
  /\ LET old == Top
         act == IF old.version = version THEN old
                ELSE [old EXCEPT !.sp = Found(old, old.sp), !.sb = Found(old, old.sb),
                                 !.version = version, !.size = m_size]
     IN  Continue([act EXCEPT !.mode = "run"], 1)
  /\ NoSync
  /\ UNCHANGED <<stackVars, invokes, status>>

\* It returns ABORTED, YIELD or RESYNC (a compiled one: ABORTED or YIELD): the
\* loop returns the same.
NativeFails ==
  /\ InNative
  /\ acts' = Front(acts)
  /\ NoSync
  /\ UNCHANGED <<stackVars, invokes, status>>

\* A compiled function, which is external: what it does is the contract of
\* woort.h:65-88.  It returns NORMAL and leaves its frame; or it has stored in
\* the machine where the interpreter shall go on, in its frame, and returns
\* RESYNC; or it fails; or it calls a native function, after a SYNC.
CallJit ==
  /\ Fetch("CALLNJIT", 0)
  /\ Fits("CALLNJIT", 0)
  /\ PushFrame("FAR")
  /\ UNCHANGED <<m_size, version, invokes, status>>

JitReturns ==
  /\ CallJit
  /\ Continue(InFrame, 1)
  /\ NoSync

JitResyncs(ip) ==
  /\ CallJit
  /\ m_ip' = ip /\ m_env' = ip[1]
  /\ m_sp' = Top.sp - 2 /\ m_sb' = Top.sp - 2
  /\ Continue([InFrame EXCEPT !.ip = m_ip', !.env = m_env'], 1)

JitFails ==
  /\ CallJit
  /\ acts' = Front(acts)
  /\ NoSync

JitCallsNative ==
  /\ CallJit
  /\ SetTop([InFrame EXCEPT !.mode = "jit"])
  /\ Sync(Top.ip, Top.sp - 2, Top.sp - 2)

\* After that it returns NORMAL only if the stack was not moved meanwhile: for
\* a compiled function the loop does not look at the version.
JitReturnsLater ==
  /\ InNative /\ Top.mode = "jit"
  /\ Top.version = version
  /\ Continue([Top EXCEPT !.mode = "run"], 1)
  /\ NoSync
  /\ UNCHANGED <<stackVars, invokes, status>>

JitResyncsLater(ip) ==
  /\ InNative /\ Top.mode = "jit"
  /\ m_ip' = ip /\ m_env' = ip[1]
  /\ m_sp' = Found(Top, Top.sp) /\ m_sb' = Found(Top, Top.sb)
  /\ Continue([Top EXCEPT !.ip = m_ip', !.env = m_env', !.sp = m_sp', !.sb = m_sb',
                          !.version = version, !.size = m_size, !.mode = "run"], 1)
  /\ UNCHANGED <<stackVars, invokes, status>>

-----------------------------------------------------------------------------
(* RET, RETVS and RETVC.                                                    *)
HasFrame == IsRecord(Top.sb)

Way == m_stack[Top.sb + 1].way

\* Bug: the caller's bp is taken for a distance from the begin of the stack.
ReturnedFromBegin ==
  [Top EXCEPT !.sp = Top.sb, !.sb = m_stack[Top.sb + 1].offset,
              !.ip = m_stack[Top.sb + 2].ip]

\* The registers once the frame is popped.
Returned ==
  [Top EXCEPT !.sp = Top.sb, !.sb = CallerBp(Top, Top.sb), !.ip = m_stack[Top.sb + 2].ip]

\* The value goes where the return address was.
LeaveValue == m_stack' \in {m_stack, [m_stack EXCEPT ![Top.sb + 2] = Data]}

\* To the function that called, in the same loop.
ReturnNear ==
  /\ Fetch("RET", 0) /\ HasFrame /\ Way = "NEAR"
  /\ LeaveValue
  /\ Continue(Returned, 1)
  /\ NoSync
  /\ UNCHANGED <<m_size, version, invokes, status>>

\* To the native code that invoked the machine: the loop ends.
ReturnToNative ==
  /\ Fetch("RET", 0) /\ HasFrame /\ Way = "FROM_NATIVE"
  /\ LeaveValue
  /\ acts' = Front(acts)
  /\ NoSync
  /\ UNCHANGED <<m_size, version, invokes, status>>

\* To another environment: SYNC, env_updated looks the environment up, RESYNC;
\* or it is not registered any more, and the process panics.
ReturnFar ==
  /\ Fetch("RET", 0) /\ HasFrame /\ Way = "FAR"
  /\ LeaveValue
  /\ LET act == Returned
         ip == After(act.ip, 1)
     IN  /\ m_ip' = ip /\ m_sp' = act.sp /\ m_sb' = act.sb
         /\ \/ /\ m_env' = ip[1]
               /\ SetTop([act EXCEPT !.ip = ip, !.env = ip[1], !.redo = NoRedo])
               /\ UNCHANGED status
            \/ status' = "panic" /\ UNCHANGED <<m_env, acts>>
  /\ UNCHANGED <<m_size, version, invokes>>

\* What is read is not a call record: the default case panics when it looks
\* at no known call way, and otherwise anything may follow.
ReturnWild ==
  /\ Fetch("RET", 0) /\ ~HasFrame
  /\ \E how \in {"wild", "panic"} : Halt(how)
  /\ NoSync

\* RESULT: cell k, one of the function's slots, shall take the value the callee
\* left, and the record and the n arguments of the call are popped.  The operand
\* is a signed offset of 16 bits, read back without its sign.
Result(n, k) ==
  LET slot == Top.sb + ((k - Top.sb) % 2^16)
  IN
  /\ Fetch("RESULT", n)
  /\ Top.sp + 2 + n <= Top.sb
  /\ NoSync
  /\ \/ /\ slot \in DOMAIN m_stack
        /\ m_stack' = [m_stack EXCEPT ![slot] = Data]
        /\ Continue([Top EXCEPT !.sp = @ + 2 + n], 1)
        /\ UNCHANGED <<m_size, version, invokes, status>>
     \/ slot \notin DOMAIN m_stack /\ Halt("wild")

\* Any other instruction.
BadCommand ==
  /\ Fetch("BAD", 0)
  /\ Sync(Top.ip, Top.sp, Top.sb)
  /\ Halt("panic")

-----------------------------------------------------------------------------
\* A turn of the innermost loop.
Execute ==
  \/ Move \/ PushChecked \/ Push \/ Pop
  \/ \E n \in Operands :
       \/ PushReserve(n) \/ Assure(n) \/ PopReserve(n)
       \/ Running /\ \E k \in Slots(Top) : Result(n, k)
  \/ \E c \in CheckedOps : StackOverflow(c[1], c[2])
  \/ CallNear \/ CallNative \/ JitReturns \/ JitFails \/ JitCallsNative
  \/ \E ip \in CodeEnvs \X (0 .. MaxCode - 1) : JitResyncs(ip)
  \/ ReturnNear \/ ReturnToNative \/ ReturnFar \/ ReturnWild
  \/ BadCommand

Next ==
  \/ \E e \in CodeEnvs : Invoke(e)
  \/ Execute
  \/ NativeReturns \/ NativeFails \/ JitReturnsLater
  \/ \E ip \in CodeEnvs \X (0 .. MaxCode - 1) : JitResyncsLater(ip)

Spec == Init /\ [][Next]_vars

\* The loop goes on with an instruction it has thrown back.
Redo == Running /\ Top.redo # NoRedo /\ Execute

FairSpec == Spec /\ WF_vars(Redo)
-----------------------------------------------------------------------------
Ips == (CodeEnvs \cup {NoEnv}) \X Nat

Cells == [is : {"ret_bp", "ret_addr", "data"},
          way : {"NEAR", "FAR", "FROM_NATIVE", "none"}, offset : Int, ip : Ips]

Acts == [ip : Ips, env : CodeEnvs \cup {NoEnv}, sp : Int, sb : Int,
         version : Nat, size : Nat,
         mode : {"run", "native", "jit"}, redo : CheckedOps \cup {NoRedo},
         assured : Int, base : Int]

TypeOK ==
  /\ m_size \in Nat
  /\ m_stack \in [0 .. m_size - 1 -> Cells]
  /\ version \in Nat
  /\ m_sp \in Int /\ m_sb \in Int
  /\ m_ip \in Ips
  /\ m_env \in CodeEnvs \cup {NoEnv}
  /\ acts \in Seq(Acts)
  /\ invokes \in 0 .. MaxInvokes
  /\ status \in {"ok", "panic", "assert", "wild"}

\* A loop that executes never uses a pointer into a block that realloc gave
\* back, however often a function it called, or a loop nested in it, has moved
\* the stack meanwhile (woort_vm.c:166-176).
NoDanglingStack ==
  Running => Top.version = version /\ Top.size = m_size

\* Where a loop finds its stack moved, by itself or by others, sp and sb keep
\* their distance from the end: that is what the saved bp offsets count in.
DistancesKept ==
  [][\A a \in DOMAIN acts \cap DOMAIN acts' :
       acts'[a].version # acts[a].version =>
         /\ acts'[a].size - acts'[a].sp = acts[a].size - acts[a].sp
         /\ acts'[a].size - acts'[a].sb = acts[a].size - acts[a].sb]_vars

\* The assertion of PUSHS, PUSHC and PUSHCEXT (woort_vm.c:336, 344, 352): after
\* ASSURESSZ no push finds the stack full, also when the stack was moved, and
\* other functions were called, between the two.
AssuredPushFits == status # "assert"

\* An instruction that threw stack_overflow is not thrown back and forth for
\* ever: it is executed in the end, or the process panics (woort_vm.c:621-629).
OverflowResolves ==
  Running /\ Top.redo # NoRedo
    ~> status # "ok" \/ acts = <<>> \/ Top.redo = NoRedo

\* From the frame a loop executes in, the saved bps lead upwards, frame by
\* frame, to the frame that the loop's own invoke pushed, and only that one
\* says FROM_NATIVE: a return ends the loop it belongs to, at its own depth.
\* (As long as the stack was not extended: that loses cells, see below.)
FramesLeadToInvoke ==
  status = "ok" /\ version = 0 =>
    \A a \in DOMAIN acts :
      LET act == acts[a]
          bp[n \in 0 .. act.size] ==
            IF n = 0 THEN act.sb
            ELSE IF IsRecord(bp[n - 1]) /\ m_stack[bp[n - 1] + 1].way # "FROM_NATIVE"
                 THEN CallerBp(act, bp[n - 1])
                 ELSE bp[n - 1]
      IN  \E n \in 0 .. act.size :
            /\ bp[n] = act.size - act.base
            /\ IsRecord(bp[n]) /\ m_stack[bp[n] + 1].way = "FROM_NATIVE"
            /\ \A k \in 0 .. n - 1 : bp[k] < bp[k + 1]

\* While a native or a compiled function runs, nothing that the machine executes
\* on its behalf writes a cell above the sp of a loop that waits: neither a
\* record nor a value that was pushed there, though what runs writes arguments
\* above its own frame (as long as the stack is not moved).  It says nothing of
\* what a caller keeps at and below its sp: there a callee's frame is pushed,
\* whatever ASSURESSZ has secured.
PushedCellsKept ==
  [][\A a \in DOMAIN acts \cap DOMAIN acts' :
       acts[a].mode # "run" /\ acts[a].version = version' =>
         \A k \in acts[a].sp + 1 .. m_size - 1 : m_stack'[k] = m_stack[k]]_vars

-----------------------------------------------------------------------------
(* What the repository says of the machine and the code does not do.        *)

\* woort_vm.c:105, "Move stack data from head to tail": every cell in use is
\* found again at its distance from the end.
ExternMovesStack ==
  [][m_size' # m_size =>
       \A k \in m_sp' + 1 .. m_size' - 1 :
         m_stack'[k] = m_stack[k - (m_size' - m_size)]]_vars

\* woort_vm.c:446-449: a loop need not care that the machine's environment
\* changed during a native call, its own environment is still the right one.
EnvOwnsCode == Running => Top.env = Top.ip[1]
=============================================================================
