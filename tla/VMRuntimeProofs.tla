-------------------------- MODULE VMRuntimeProofs ---------------------------
(***************************************************************************)
(* The dispatch loops never use a stack that was moved under them, find    *)
(* their place in it by its distance from the end, and never push beyond   *)
(* what ASSURESSZ secured; a return finds the loop it belongs to, and what *)
(* a native function invokes writes none of the cells its caller pushed:   *)
(* for every depth of nesting and every program.                           *)
(*                                                                         *)
(* Why it is true: all loops but the innermost wait for a native function, *)
(* so a loop that becomes the innermost again does so through              *)
(* NativeReturns, which compares versions; and the stack only grows, so    *)
(* what a loop has secured stays secured.                                  *)
(***************************************************************************)
EXTENDS VMRuntime, WellFoundedInduction, TLAPS

\* Only the innermost loop executes; the others wait.
OthersWait == \A a \in 1 .. Len(acts) - 1 : acts[a].mode # "run"

\* A loop remembers the stack of the version it knows, and has secured no more
\* of it than there is.
RoomIsThere ==
  \A a \in 1 .. Len(acts) :
    /\ acts[a].version <= version
    /\ acts[a].version = version => acts[a].size = m_size
    /\ acts[a].size <= m_size /\ acts[a].assured <= acts[a].size

IInv ==
  /\ TypeOK
  /\ NoDanglingStack
  /\ OthersWait
  /\ RoomIsThere
  /\ AssuredPushFits

MachineOK ==
  /\ m_size \in Nat
  /\ m_stack \in [0 .. m_size - 1 -> Cells]
  /\ version \in Nat
  /\ m_sp \in Int /\ m_sb \in Int
  /\ m_ip \in Ips
  /\ m_env \in CodeEnvs \cup {NoEnv}
  /\ invokes \in 0 .. MaxInvokes
  /\ status \in {"ok", "panic", "wild"}

(***************************************************************************)
(* What a step does to the loops.                                          *)
(***************************************************************************)
\* The registers of a loop agree with the machine's stack after the step.
UpToDate(act) ==
  /\ act \in Acts
  /\ act.version = version' /\ act.size = m_size'
  /\ act.assured <= act.size

SameDistances(old, new) ==
  new.size - new.sp = old.size - old.sp /\ new.size - new.sb = old.size - old.sb

\* The stack only grows, into a block with a version of its own.
Grows ==
  /\ m_size' >= m_size /\ version' >= version
  /\ version' = version => m_size' = m_size

TopMoves ==
  /\ acts # <<>> /\ Grows
  /\ \E act \in Acts :
       /\ SetTop(act) /\ UpToDate(act)
       /\ act.version # Top.version => SameDistances(Top, act)

TopLeaves ==
  acts # <<>> /\ acts' = Front(acts) /\ m_size' = m_size /\ version' = version

LoopEnters ==
  /\ acts = <<>> \/ InNative
  /\ m_size' = m_size /\ version' = version
  /\ \E act \in Acts : acts' = Append(acts, act) /\ UpToDate(act)

Stops ==
  acts' = acts /\ m_size' = m_size /\ version' = version /\ status' # "ok"

LoopStep == TopMoves \/ TopLeaves \/ LoopEnters \/ Stops

-----------------------------------------------------------------------------
LEMMA TopIsAct ==
  ASSUME acts \in Seq(Acts), acts # <<>>
  PROVE  Len(acts) \in Nat \ {0} /\ Top \in Acts
BY DEF Top

\* Running: the registers of the innermost loop are up to date.
LEMMA RunningTop ==
  ASSUME IInv, Running
  PROVE  /\ acts # <<>> /\ acts \in Seq(Acts) /\ Top \in Acts /\ status = "ok"
         /\ Top.version = version /\ Top.size = m_size /\ Top.assured <= Top.size
<1>1. acts # <<>> /\ acts \in Seq(Acts) /\ status = "ok"
  BY DEF IInv, TypeOK, Running
<1>2. Top \in Acts /\ Len(acts) \in 1 .. Len(acts)
  BY <1>1, TopIsAct
<1>3. Top.version = version /\ Top.size = m_size
  BY DEF IInv, NoDanglingStack
<1>4. acts[Len(acts)].assured <= acts[Len(acts)].size
  BY <1>2 DEF IInv, RoomIsThere
<1> QED BY <1>1, <1>2, <1>3, <1>4 DEF Top

LEMMA AfterIsIp ==
  ASSUME NEW ip \in Ips, NEW words \in Nat
  PROVE  After(ip, words) \in Ips
BY DEF After, Ips

\* The loop with registers `act' goes on with the next instruction.
LEMMA NextInstruction ==
  ASSUME NEW act \in Acts, NEW words \in Nat
  PROVE  LET new == [act EXCEPT !.ip = After(@, words), !.redo = NoRedo]
         IN  /\ new \in Acts
             /\ new.version = act.version /\ new.size = act.size
             /\ new.sp = act.sp /\ new.sb = act.sb /\ new.assured = act.assured
             /\ new.mode = act.mode
<1>1. act.ip \in Ips
  BY DEF Acts
<1>2. After(act.ip, words) \in Ips
  BY <1>1, AfterIsIp
<1>3. NoRedo \in CheckedOps \cup {NoRedo}
  OBVIOUS
<1> QED BY <1>2, <1>3 DEF Acts

LEMMA SetTopMoves ==
  ASSUME IInv, Running, NEW act \in Acts,
         act.version = Top.version, act.size = Top.size, act.assured <= act.size,
         SetTop(act), m_size' = m_size, version' = version
  PROVE  TopMoves
BY RunningTop DEF TopMoves, Grows, UpToDate, IInv, TypeOK

\* After an instruction that leaves the stack where it is.
LEMMA ContinueMoves ==
  ASSUME IInv, Running, NEW act \in Acts, NEW words \in Nat,
         act.version = Top.version, act.size = Top.size, act.assured <= act.size,
         Continue(act, words), m_size' = m_size, version' = version
  PROVE  TopMoves
<1> DEFINE new == [act EXCEPT !.ip = After(@, words), !.redo = NoRedo]
<1>1. /\ new \in Acts /\ new.version = act.version /\ new.size = act.size
      /\ new.assured = act.assured
  BY NextInstruction
<1>2. SetTop(new)
  BY DEF Continue
<1> HIDE DEF new
<1> QED BY <1>1, <1>2, SetTopMoves

\* What the cells of the stack hold.
LEMMA DataIsCell == Data \in Cells
BY DEF Data, Cells, Ips, NoIp

LEMMA RecordsAreCells ==
  ASSUME NEW way \in {"NEAR", "FAR", "FROM_NATIVE"}, NEW offset \in Int, NEW ip \in Ips
  PROVE  RetBp(way, offset) \in Cells /\ RetAddr(ip) \in Cells
BY DEF RetBp, RetAddr, Cells, Ips, NoIp

-----------------------------------------------------------------------------
(***************************************************************************)
(* The steps of the innermost loop, one lemma for each kind.               *)
(***************************************************************************)
\* The machine but for its cells, and what it says when it stops.
LEMMA MachineKept ==
  ASSUME IInv, m_stack' \in [0 .. m_size - 1 -> Cells], NoSync,
         UNCHANGED <<m_size, version, invokes>>,
         status' = status \/ status' \in {"panic", "wild"}
  PROVE  MachineOK'
BY DEF IInv, TypeOK, AssuredPushFits, MachineOK, NoSync, machineVars

LEMMA SyncOK ==
  ASSUME IInv, m_stack' \in [0 .. m_size - 1 -> Cells],
         NEW ip \in Ips, NEW sp \in Int, NEW sb \in Int, Sync(ip, sp, sb),
         UNCHANGED <<m_size, version, invokes>>,
         status' = status \/ status' \in {"panic", "wild"}
  PROVE  MachineOK'
BY DEF IInv, TypeOK, AssuredPushFits, MachineOK, Sync

LEMMA WriteData ==
  ASSUME IInv, NEW k
  PROVE  [m_stack EXCEPT ![k] = Data] \in [0 .. m_size - 1 -> Cells]
BY DataIsCell DEF IInv, TypeOK

LEMMA MoveStep ==
  ASSUME IInv, Move
  PROVE  LoopStep /\ MachineOK'
<1>1. Running /\ NoSync /\ UNCHANGED <<m_size, version, invokes, status>>
  BY DEF Move, Fetch
<1>2. m_stack' \in [0 .. m_size - 1 -> Cells]
  BY WriteData DEF Move, IInv, TypeOK
<1>3. TopMoves
  BY <1>1, RunningTop, ContinueMoves DEF Move
<1> QED BY <1>1, <1>2, <1>3, MachineKept DEF LoopStep

\* An instruction that only moves sp, or what is assured.
LEMMA RegistersMove ==
  ASSUME IInv, Running, NEW sp \in Int, NEW assured \in Int, assured <= Top.size,
         NEW words \in Nat,
         Continue([Top EXCEPT !.sp = sp, !.assured = assured], words),
         m_size' = m_size, version' = version
  PROVE  TopMoves
<1> DEFINE act == [Top EXCEPT !.sp = sp, !.assured = assured]
<1>1. act \in Acts /\ act.version = Top.version /\ act.size = Top.size
      /\ act.assured = assured
  BY RunningTop DEF Acts
<1>2. Continue(act, words)
  OBVIOUS
<1> HIDE DEF act
<1> QED BY <1>1, <1>2, ContinueMoves

LEMMA SpMoves ==
  ASSUME IInv, Running, NEW n \in Int, NEW words \in Nat,
         Continue([Top EXCEPT !.sp = @ + n], words),
         m_size' = m_size, version' = version
  PROVE  TopMoves
<1>1. Top.sp + n \in Int /\ Top.assured \in Int /\ Top.assured <= Top.size
  BY RunningTop DEF Acts
<1>2. [Top EXCEPT !.sp = @ + n]
        = [Top EXCEPT !.sp = Top.sp + n, !.assured = Top.assured]
  BY RunningTop DEF Acts
<1>3. Continue([Top EXCEPT !.sp = Top.sp + n, !.assured = Top.assured], words)
  BY <1>2
<1> QED BY <1>1, <1>3, RegistersMove

LEMMA ReserveStep ==
  ASSUME IInv, NEW n \in Operands, PushReserve(n) \/ PopReserve(n)
  PROVE  LoopStep /\ MachineOK'
<1>1. n \in Int /\ -n \in Int
  BY VMRuntimeAssumption
<1>2. Running /\ NoSync /\ UNCHANGED <<stackVars, invokes, status>>
  BY DEF PushReserve, PopReserve, Fetch
<1>3. MachineOK'
  BY <1>2, MachineKept DEF stackVars, IInv, TypeOK
<1>4. CASE PopReserve(n)
  BY <1>1, <1>2, <1>3, <1>4, SpMoves DEF PopReserve, stackVars, LoopStep
<1>5. CASE PushReserve(n)
  <2>1. Top.sp - n = Top.sp + (-n)
    BY <1>1, <1>2, RunningTop DEF Acts
  <2>2. Continue([Top EXCEPT !.sp = Top.sp - n], 1)
    BY <1>5 DEF PushReserve
  <2>3. Continue([Top EXCEPT !.sp = @ + (-n)], 1)
    BY <2>1, <2>2
  <2> QED BY <1>1, <1>2, <1>3, <2>3, SpMoves DEF stackVars, LoopStep
<1> QED BY <1>4, <1>5

LEMMA AssureStep ==
  ASSUME IInv, NEW n \in Operands, Assure(n)
  PROVE  LoopStep /\ MachineOK'
<1>1. Running /\ NoSync /\ UNCHANGED <<stackVars, invokes, status>> /\ n \in Nat
  BY VMRuntimeAssumption DEF Assure, Fetch
<1>2. Top.sp \in Int /\ Top.size \in Nat
  BY <1>1, RunningTop DEF Acts
<1>3. Top.sp - n >= 0
  BY DEF Assure, Fits, Demand
<1> DEFINE room == Top.size - Top.sp + n
<1>4. room \in Int /\ room <= Top.size
  BY <1>1, <1>2, <1>3
<1>5. [Top EXCEPT !.assured = room] = [Top EXCEPT !.sp = Top.sp, !.assured = room]
  BY <1>1, RunningTop DEF Acts
<1>6. Continue([Top EXCEPT !.sp = Top.sp, !.assured = room], 1)
  BY <1>5 DEF Assure
<1> HIDE DEF room
<1>7. TopMoves
  BY <1>1, <1>2, <1>4, <1>6, RegistersMove DEF stackVars
<1>8. MachineOK'
  BY <1>1, MachineKept DEF stackVars, IInv, TypeOK
<1> QED BY <1>7, <1>8 DEF LoopStep

LEMMA StoreAndDropStep ==
  ASSUME IInv, Running, StoreAndDrop
  PROVE  LoopStep /\ MachineOK'
<1>1. m_stack' \in [0 .. m_size - 1 -> Cells]
  BY WriteData DEF StoreAndDrop
<1>2. PICK words \in 1 .. 2 : Continue([Top EXCEPT !.sp = @ - 1], words)
  BY DEF StoreAndDrop
<1>3. Top.sp - 1 = Top.sp + (-1)
  BY RunningTop DEF Acts
<1>4. Continue([Top EXCEPT !.sp = @ + (-1)], words)
  BY <1>2, <1>3
<1>5. words \in Nat /\ -1 \in Int /\ m_size' = m_size /\ version' = version
  BY DEF StoreAndDrop
<1>6. TopMoves
  BY <1>4, <1>5, SpMoves
<1> QED BY <1>1, <1>6, MachineKept DEF StoreAndDrop, LoopStep

\* Why the assertion holds: what is assured of the stack is in the stack.
LEMMA PushStep ==
  ASSUME IInv, Push
  PROVE  LoopStep /\ MachineOK'
<1>1. Running /\ Top.size - Top.sp < Top.assured
  BY DEF Push, Fetch
<1>2. Top.sp \in Int /\ Top.size \in Nat /\ Top.assured \in Int /\ Top.assured <= Top.size
  BY <1>1, RunningTop DEF Acts
<1>3. Top.sp >= 0
  BY <1>1, <1>2
<1>4. StoreAndDrop
  BY <1>2, <1>3 DEF Push
<1> QED BY <1>1, <1>4, StoreAndDropStep

LEMMA PopStep ==
  ASSUME IInv, Pop
  PROVE  LoopStep /\ MachineOK'
<1>1. Running /\ NoSync /\ UNCHANGED <<m_size, version, invokes, status>>
  BY DEF Pop, Fetch
<1>2. m_stack' \in [0 .. m_size - 1 -> Cells]
  BY WriteData DEF Pop, IInv, TypeOK
<1>3. TopMoves
  BY <1>1, SpMoves DEF Pop
<1> QED BY <1>1, <1>2, <1>3, MachineKept DEF LoopStep

\* The innermost loop stops the process.
LEMMA HaltStep ==
  ASSUME IInv, NEW how \in {"panic", "wild"}, Halt(how),
         NoSync \/ Sync(Top.ip, Top.sp, Top.sb), Running
  PROVE  LoopStep /\ MachineOK'
<1>1. m_stack' \in [0 .. m_size - 1 -> Cells] /\ UNCHANGED <<m_size, version, invokes>>
      /\ acts' = acts /\ status' = how
  BY DEF Halt, stackVars, IInv, TypeOK
<1>2. Top.ip \in Ips /\ Top.sp \in Int /\ Top.sb \in Int
  BY RunningTop DEF Acts
<1>3. MachineOK'
  BY <1>1, <1>2, MachineKept, SyncOK
<1> QED BY <1>1, <1>3 DEF LoopStep, Stops

LEMMA NewStackIsStack ==
  ASSUME IInv
  PROVE  NewStack \in [0 .. 2 * m_size - 1 -> Cells]
<1>1. m_size \in Nat /\ m_stack \in [0 .. m_size - 1 -> Cells]
  BY DEF IInv, TypeOK
<1>2. ASSUME NEW k \in 0 .. 2 * m_size - 1
      PROVE  (IF k < m_size THEN m_stack[k]
              ELSE IF k - m_size < CellsMoved THEN m_stack[k - m_size] ELSE Data) \in Cells
  BY <1>1, <1>2, DataIsCell
<1> QED BY <1>1, <1>2 DEF NewStack

\* extern_stack: the stack grows, and the loop keeps its distances.
LEMMA ExternStep ==
  ASSUME IInv, Running, NEW c \in CheckedOps, ExternStack,
         Sync(Top.ip, Rebase(Top.sp), Rebase(Top.sb)),
         SetTop([Top EXCEPT !.sp = m_sp', !.sb = m_sb', !.env = m_env,
                            !.version = version', !.size = m_size',
                            !.redo = c]),
         UNCHANGED <<invokes, status>>
  PROVE  LoopStep /\ MachineOK'
<1> DEFINE act == [Top EXCEPT !.sp = m_sp', !.sb = m_sb', !.env = m_env,
                              !.version = version', !.size = m_size', !.redo = c]
<1>1. /\ Top \in Acts /\ Top.ip \in Ips /\ Top.sp \in Int /\ Top.sb \in Int
      /\ Top.size = m_size /\ Top.assured \in Int /\ Top.assured <= m_size
      /\ acts # <<>>
  BY RunningTop DEF Acts
<1>2. m_size \in Nat /\ version \in Nat /\ m_env \in CodeEnvs \cup {NoEnv}
  BY DEF IInv, TypeOK
<1>3. m_size' = 2 * m_size /\ version' = version + 1 /\ Grows
  BY <1>2 DEF ExternStack, Grows
<1>4. /\ m_ip' = Top.ip /\ m_env' = m_env
      /\ m_sp' = 2 * m_size - (m_size - Top.sp) /\ m_sb' = 2 * m_size - (m_size - Top.sb)
  BY DEF Sync, Rebase
<1>5. m_sp' \in Int /\ m_sb' \in Int /\ m_size' \in Nat /\ version' \in Nat
  <2> DEFINE sp == Top.sp
             sb == Top.sb
  <2>1. sp \in Int /\ sb \in Int /\ m_size \in Nat /\ version \in Nat
    BY <1>1, <1>2
  <2> HIDE DEF sp, sb, act
  <2>2. /\ 2 * m_size - (m_size - sp) \in Int /\ 2 * m_size - (m_size - sb) \in Int
        /\ 2 * m_size \in Nat /\ version + 1 \in Nat
    BY <2>1
  <2>3. /\ 2 * m_size - (m_size - Top.sp) \in Int /\ 2 * m_size - (m_size - Top.sb) \in Int
        /\ 2 * m_size \in Nat /\ version + 1 \in Nat
    BY <2>2 DEF sp, sb
  <2> QED BY <1>3, <1>4, <2>3
<1>6. act \in Acts
  BY <1>1, <1>2, <1>5 DEF Acts
<1>7. /\ act.version = version' /\ act.size = m_size' /\ act.assured = Top.assured
      /\ act.sp = m_sp' /\ act.sb = m_sb'
  BY <1>1 DEF Acts
<1>8. SetTop(act)
  OBVIOUS
<1> HIDE DEF act
<1>9. act.assured <= act.size
  BY <1>1, <1>2, <1>3, <1>7
<1>10. SameDistances(Top, act)
  BY <1>1, <1>2, <1>3, <1>4, <1>7 DEF SameDistances
<1>11. TopMoves
  BY <1>1, <1>3, <1>6, <1>7, <1>8, <1>9, <1>10 DEF TopMoves, UpToDate
<1>12. m_stack' \in [0 .. m_size' - 1 -> Cells]
  BY <1>3, NewStackIsStack DEF ExternStack
<1>13. MachineOK'
  BY <1>1, <1>2, <1>4, <1>5, <1>12 DEF MachineOK, IInv, TypeOK, AssuredPushFits
<1> QED BY <1>11, <1>13 DEF LoopStep

LEMMA OverflowStep ==
  ASSUME IInv, NEW c \in CheckedOps, StackOverflow(c[1], c[2])
  PROVE  LoopStep /\ MachineOK'
<1>1. Running
  BY DEF StackOverflow, Fetch
<1>2. CASE Sync(Top.ip, Top.sp, Top.sb) /\ Halt("panic")
  BY <1>1, <1>2, HaltStep
<1>3. CASE ~(Sync(Top.ip, Top.sp, Top.sb) /\ Halt("panic"))
  <2>1. c = <<c[1], c[2]>>
    BY DEF CheckedOps
  <2>2. /\ ExternStack
        /\ Sync(Top.ip, Rebase(Top.sp), Rebase(Top.sb))
        /\ SetTop([Top EXCEPT !.sp = m_sp', !.sb = m_sb', !.env = m_env,
                              !.version = version', !.size = m_size',
                              !.redo = <<c[1], c[2]>>])
        /\ UNCHANGED <<invokes, status>>
    BY <1>3 DEF StackOverflow
  <2> QED BY <1>1, <2>1, <2>2, ExternStep
<1> QED BY <1>2, <1>3

-----------------------------------------------------------------------------
(***************************************************************************)
(* Calls and returns.                                                      *)
(***************************************************************************)
LEMMA FrameIsCells ==
  ASSUME IInv, Running, NEW way \in {"NEAR", "FAR", "FROM_NATIVE"}, PushFrame(way)
  PROVE  m_stack' \in [0 .. m_size - 1 -> Cells]
<1>1. Top.size - Top.sb \in Int /\ After(Top.ip, 1) \in Ips
  BY RunningTop, AfterIsIp DEF Acts
<1>2. RetBp(way, Top.size - Top.sb) \in Cells /\ RetAddr(After(Top.ip, 1)) \in Cells
  BY <1>1, RecordsAreCells
<1> QED BY <1>2 DEF PushFrame, IInv, TypeOK

LEMMA InFrameIsAct ==
  ASSUME IInv, Running
  PROVE  /\ InFrame \in Acts
         /\ InFrame.version = Top.version /\ InFrame.size = Top.size
         /\ InFrame.assured <= InFrame.size
         /\ InFrame.sp = Top.sp - 2
<1>1. NoRedo \in CheckedOps \cup {NoRedo} /\ Top.sp - 2 \in Int /\ Top \in Acts
  BY RunningTop DEF Acts
<1>2. /\ InFrame = [Top EXCEPT !.sp = Top.sp - 2, !.sb = Top.sp - 2, !.redo = NoRedo]
      /\ Top.assured <= Top.size
  BY RunningTop DEF InFrame
<1> QED BY <1>1, <1>2 DEF Acts

LEMMA CallNearStep ==
  ASSUME IInv, CallNear
  PROVE  LoopStep /\ MachineOK'
<1>1. /\ Running /\ NoSync /\ UNCHANGED <<m_size, version, invokes, status>>
      /\ PushFrame("NEAR") /\ SetTop([InFrame EXCEPT !.ip = <<Top.env, 0>>])
  BY DEF CallNear, Fetch
<1> DEFINE act == [InFrame EXCEPT !.ip = <<Top.env, 0>>]
<1>2. <<Top.env, 0>> \in Ips
  BY <1>1, RunningTop DEF Ips, Acts
<1>3. /\ act \in Acts /\ act.version = Top.version /\ act.size = Top.size
      /\ act.assured <= act.size /\ SetTop(act)
  BY <1>1, <1>2, InFrameIsAct DEF Acts
<1> HIDE DEF act
<1>4. TopMoves
  BY <1>1, <1>3, SetTopMoves
<1> QED BY <1>1, <1>4, FrameIsCells, MachineKept DEF LoopStep

LEMMA CallNativeStep ==
  ASSUME IInv, CallNative
  PROVE  LoopStep /\ MachineOK'
<1>1. /\ Running /\ UNCHANGED <<m_size, version, invokes, status>>
      /\ PushFrame("NEAR") /\ SetTop([InFrame EXCEPT !.mode = "native"])
      /\ Sync(Top.ip, Top.sp - 2, Top.sp - 2)
  BY DEF CallNative, Fetch
<1> DEFINE act == [InFrame EXCEPT !.mode = "native"]
<1>2. /\ act \in Acts /\ act.version = Top.version /\ act.size = Top.size
      /\ act.assured <= act.size /\ SetTop(act)
  BY <1>1, InFrameIsAct DEF Acts
<1> HIDE DEF act
<1>3. TopMoves
  BY <1>1, <1>2, SetTopMoves
<1>4. Top.ip \in Ips /\ Top.sp - 2 \in Int
  BY <1>1, RunningTop DEF Acts
<1>5. m_stack' \in [0 .. m_size - 1 -> Cells]
  BY <1>1, FrameIsCells
<1> QED BY <1>1, <1>3, <1>4, <1>5, SyncOK DEF LoopStep

LEMMA JitCallsNativeStep ==
  ASSUME IInv, JitCallsNative
  PROVE  LoopStep /\ MachineOK'
<1>1. /\ Running /\ UNCHANGED <<m_size, version, invokes, status>>
      /\ PushFrame("FAR") /\ SetTop([InFrame EXCEPT !.mode = "jit"])
      /\ Sync(Top.ip, Top.sp - 2, Top.sp - 2)
  BY DEF JitCallsNative, CallJit, Fetch
<1> DEFINE act == [InFrame EXCEPT !.mode = "jit"]
<1>2. /\ act \in Acts /\ act.version = Top.version /\ act.size = Top.size
      /\ act.assured <= act.size /\ SetTop(act)
  BY <1>1, InFrameIsAct DEF Acts
<1> HIDE DEF act
<1>3. TopMoves
  BY <1>1, <1>2, SetTopMoves
<1>4. Top.ip \in Ips /\ Top.sp - 2 \in Int
  BY <1>1, RunningTop DEF Acts
<1>5. m_stack' \in [0 .. m_size - 1 -> Cells]
  BY <1>1, FrameIsCells
<1> QED BY <1>1, <1>3, <1>4, <1>5, SyncOK DEF LoopStep

LEMMA LeaveStep ==
  ASSUME IInv, Running, acts' = Front(acts), UNCHANGED <<m_size, version>>
  PROVE  TopLeaves
BY RunningTop DEF TopLeaves

LEMMA JitStep ==
  ASSUME IInv, JitReturns \/ JitFails
  PROVE  LoopStep /\ MachineOK'
<1>1. /\ Running /\ NoSync /\ UNCHANGED <<m_size, version, invokes, status>>
      /\ PushFrame("FAR")
  BY DEF JitReturns, JitFails, CallJit, Fetch
<1>2. MachineOK'
  BY <1>1, FrameIsCells, MachineKept
<1>3. CASE JitReturns
  <2>1. Continue(InFrame, 1) /\ 1 \in Nat
    BY <1>3 DEF JitReturns
  <2> QED BY <1>1, <1>2, <2>1, InFrameIsAct, ContinueMoves DEF LoopStep
<1>4. CASE JitFails
  BY <1>1, <1>2, <1>4, LeaveStep DEF JitFails, LoopStep
<1> QED BY <1>3, <1>4

LEMMA JitResyncStep ==
  ASSUME IInv, NEW ip \in CodeEnvs \X (0 .. MaxCode - 1), JitResyncs(ip)
  PROVE  LoopStep /\ MachineOK'
<1>1. /\ Running /\ UNCHANGED <<m_size, version, invokes, status>>
      /\ PushFrame("FAR") /\ m_ip' = ip /\ m_env' = ip[1]
      /\ m_sp' = Top.sp - 2 /\ m_sb' = Top.sp - 2
      /\ Continue([InFrame EXCEPT !.ip = m_ip', !.env = m_env'], 1)
  BY DEF JitResyncs, CallJit, Fetch
<1>2. ip \in Ips /\ ip[1] \in CodeEnvs
  BY DEF Ips
<1> DEFINE act == [InFrame EXCEPT !.ip = m_ip', !.env = m_env']
<1>3. /\ act \in Acts /\ act.version = Top.version /\ act.size = Top.size
      /\ act.assured <= act.size
  BY <1>1, <1>2, InFrameIsAct DEF Acts
<1>4. Continue(act, 1)
  BY <1>1
<1> HIDE DEF act
<1>5. TopMoves
  BY <1>1, <1>3, <1>4, ContinueMoves
<1>6. m_stack' \in [0 .. m_size - 1 -> Cells]
  BY <1>1, FrameIsCells
<1>7. Top.sp - 2 \in Int
  BY <1>1, RunningTop DEF Acts
<1>8. MachineOK'
  BY <1>1, <1>2, <1>6, <1>7 DEF MachineOK, IInv, TypeOK, AssuredPushFits
<1> QED BY <1>5, <1>8 DEF LoopStep

LEMMA ReturnedIsAct ==
  ASSUME IInv, Running, HasFrame
  PROVE  /\ Returned \in Acts
         /\ Returned.version = Top.version /\ Returned.size = Top.size
         /\ Returned.assured <= Returned.size
<1>1. m_stack[Top.sb + 1] \in Cells /\ m_stack[Top.sb + 2] \in Cells
  BY DEF HasFrame, IsRecord, IInv, TypeOK
<1>2. m_stack[Top.sb + 1].offset \in Int /\ m_stack[Top.sb + 2].ip \in Ips
  BY <1>1 DEF Cells
<1>3. /\ Top \in Acts /\ Top.assured <= Top.size
      /\ Top.version = version /\ Top.size = m_size
  BY RunningTop
<1>6. Top.sb \in Int /\ Top.size \in Nat
  BY <1>3 DEF Acts
<1> DEFINE sb == Top.size - m_stack[Top.sb + 1].offset
           ip == m_stack[Top.sb + 2].ip
<1>4. Returned = [Top EXCEPT !.sp = Top.sb, !.sb = sb, !.ip = ip]
  BY DEF Returned, CallerBp
<1>5. ip \in Ips /\ sb \in Int
  BY <1>2, <1>6
<1> HIDE DEF sb, ip
<1> QED BY <1>3, <1>6, <1>4, <1>5 DEF Acts

LEMMA ReturnNearStep ==
  ASSUME IInv, ReturnNear
  PROVE  LoopStep /\ MachineOK'
<1>1. /\ Running /\ HasFrame /\ NoSync /\ Continue(Returned, 1) /\ 1 \in Nat
      /\ UNCHANGED <<m_size, version, invokes, status>>
  BY DEF ReturnNear, Fetch
<1>2. m_stack' \in [0 .. m_size - 1 -> Cells]
  BY WriteData DEF ReturnNear, LeaveValue, IInv, TypeOK
<1> QED BY <1>1, <1>2, ReturnedIsAct, ContinueMoves, MachineKept DEF LoopStep

LEMMA ReturnToNativeStep ==
  ASSUME IInv, ReturnToNative
  PROVE  LoopStep /\ MachineOK'
<1>1. Running /\ NoSync /\ acts' = Front(acts)
      /\ UNCHANGED <<m_size, version, invokes, status>>
  BY DEF ReturnToNative, Fetch
<1>2. m_stack' \in [0 .. m_size - 1 -> Cells]
  BY WriteData DEF ReturnToNative, LeaveValue, IInv, TypeOK
<1> QED BY <1>1, <1>2, LeaveStep, MachineKept DEF LoopStep

LEMMA ReturnFarStep ==
  ASSUME IInv, ReturnFar
  PROVE  LoopStep /\ MachineOK'
<1> DEFINE ip == After(Returned.ip, 1)
           act == [Returned EXCEPT !.ip = ip, !.env = ip[1], !.redo = NoRedo]
<1>1. /\ Running /\ HasFrame /\ UNCHANGED <<m_size, version, invokes>>
      /\ m_ip' = ip /\ m_sp' = Returned.sp /\ m_sb' = Returned.sb
      /\ \/ m_env' = ip[1] /\ SetTop(act) /\ UNCHANGED status
         \/ status' = "panic" /\ UNCHANGED <<m_env, acts>>
  BY DEF ReturnFar, Fetch
<1>2. m_stack' \in [0 .. m_size - 1 -> Cells]
  BY WriteData DEF ReturnFar, LeaveValue, IInv, TypeOK
<1>3. Returned \in Acts /\ Returned.ip \in Ips /\ Returned.sp \in Int /\ Returned.sb \in Int
  BY <1>1, ReturnedIsAct DEF Acts
<1>4. ip \in Ips
  BY <1>3, AfterIsIp
<1>5. ip[1] \in CodeEnvs \cup {NoEnv}
  BY <1>4 DEF Ips
<1>6. NoRedo \in CheckedOps \cup {NoRedo}
  OBVIOUS
<1> HIDE DEF ip
<1>7. /\ act \in Acts /\ act.version = Top.version /\ act.size = Top.size
      /\ act.assured <= act.size
  BY <1>1, <1>4, <1>5, <1>6, ReturnedIsAct DEF Acts
<1> HIDE DEF act
<1>8. SetTop(act) => TopMoves
  BY <1>1, <1>7, SetTopMoves
<1>9. MachineOK'
  BY <1>1, <1>2, <1>3, <1>4, <1>5 DEF MachineOK, IInv, TypeOK, AssuredPushFits
<1> QED BY <1>1, <1>8, <1>9 DEF LoopStep, Stops

LEMMA StopStep ==
  ASSUME IInv, ReturnWild \/ BadCommand
  PROVE  LoopStep /\ MachineOK'
<1>1. Running /\ \E how \in {"wild", "panic"} :
                   Halt(how) /\ (NoSync \/ Sync(Top.ip, Top.sp, Top.sb))
  BY DEF ReturnWild, BadCommand, Fetch
<1> QED BY <1>1, HaltStep

LEMMA ResultStep ==
  ASSUME IInv, NEW n \in Operands, NEW cell, Result(n, cell)
  PROVE  LoopStep /\ MachineOK'
<1>1. Running /\ NoSync /\ n \in Nat
  BY VMRuntimeAssumption DEF Result, Fetch
<1>2. CASE Halt("wild")
  BY <1>1, <1>2, HaltStep
<1>3. CASE ~Halt("wild")
  <2>1. /\ \E k : m_stack' = [m_stack EXCEPT ![k] = Data]
        /\ Continue([Top EXCEPT !.sp = @ + 2 + n], 1)
        /\ UNCHANGED <<m_size, version, invokes, status>>
    BY <1>3 DEF Result
  <2>2. m_stack' \in [0 .. m_size - 1 -> Cells]
    BY <2>1, WriteData
  <2>3. Top.sp + 2 + n = Top.sp + (2 + n) /\ 2 + n \in Int /\ 1 \in Nat
    BY <1>1, RunningTop DEF Acts
  <2>4. Continue([Top EXCEPT !.sp = @ + (2 + n)], 1)
    BY <2>1, <2>3
  <2>5. TopMoves
    BY <1>1, <2>1, <2>3, <2>4, SpMoves
  <2> QED BY <1>1, <2>1, <2>2, <2>5, MachineKept DEF LoopStep
<1> QED BY <1>2, <1>3

-----------------------------------------------------------------------------
(***************************************************************************)
(* Entering and leaving native functions.                                  *)
(***************************************************************************)
\* What the innermost loop knows of the stack, though it may have moved.
LEMMA WaitingTop ==
  ASSUME IInv, InNative
  PROVE  /\ acts # <<>> /\ acts \in Seq(Acts) /\ Top \in Acts /\ status = "ok"
         /\ Top.version = version => Top.size = m_size
         /\ Top.size <= m_size /\ Top.assured <= Top.size
<1>1. acts # <<>> /\ acts \in Seq(Acts) /\ status = "ok"
  BY DEF IInv, TypeOK, InNative
<1>2. Top \in Acts /\ Len(acts) \in 1 .. Len(acts)
  BY <1>1, TopIsAct
<1> QED BY <1>1, <1>2 DEF IInv, RoomIsThere, Top

LEMMA NativeReturnsStep ==
  ASSUME IInv, NativeReturns
  PROVE  LoopStep /\ MachineOK'
<1> DEFINE old == Top
           act == IF old.version = version THEN old
                  ELSE [old EXCEPT !.sp = m_size - (old.size - old.sp),
                                   !.sb = m_size - (old.size - old.sb),
                                   !.version = version, !.size = m_size]
           new == [act EXCEPT !.mode = "run"]
           next == [new EXCEPT !.ip = After(@, 1), !.redo = NoRedo]
<1>1. /\ InNative /\ NoSync /\ UNCHANGED <<stackVars, invokes, status>>
      /\ Continue(new, 1)
  BY DEF NativeReturns, Found
<1>2. /\ old \in Acts /\ old.sp \in Int /\ old.sb \in Int /\ old.size \in Nat
      /\ old.assured \in Int /\ old.assured <= old.size /\ old.size <= m_size
      /\ old.version = version => old.size = m_size
      /\ m_size \in Nat /\ version \in Nat /\ acts # <<>>
  BY <1>1, WaitingTop DEF Acts, IInv, TypeOK
<1>3. /\ act \in Acts /\ act.version = version /\ act.size = m_size
      /\ act.assured = old.assured
      /\ act.version # old.version => SameDistances(old, act)
  <2>1. CASE old.version = version
    <3>1. act = old
      BY <2>1
    <3> HIDE DEF act, old, new, next
    <3> QED BY <1>2, <2>1, <3>1
  <2>2. CASE old.version # version
    <3> DEFINE sp == m_size - (old.size - old.sp)
               sb == m_size - (old.size - old.sb)
    <3>1. /\ sp \in Int /\ sb \in Int
          /\ m_size - sp = old.size - old.sp /\ m_size - sb = old.size - old.sb
      BY <1>2
    <3>2. act = [old EXCEPT !.sp = sp, !.sb = sb, !.version = version, !.size = m_size]
      BY <2>2
    <3> HIDE DEF sp, sb, act, old
    <3>3. /\ act \in Acts /\ act.version = version /\ act.size = m_size
          /\ act.assured = old.assured /\ act.sp = sp /\ act.sb = sb
      BY <1>2, <3>1, <3>2 DEF Acts
    <3> QED BY <3>1, <3>3 DEF SameDistances
  <2> QED BY <2>1, <2>2
<1> HIDE DEF old, act
<1>4. /\ new \in Acts /\ new.version = act.version /\ new.size = act.size
      /\ new.assured = act.assured /\ new.sp = act.sp /\ new.sb = act.sb
  BY <1>3 DEF Acts
<1> HIDE DEF new
<1>5. /\ next \in Acts /\ next.version = act.version /\ next.size = act.size
      /\ next.assured = act.assured /\ next.sp = act.sp /\ next.sb = act.sb
  BY <1>4, NextInstruction
<1>6. SetTop(next)
  BY <1>1 DEF Continue
<1> HIDE DEF next
<1>7. UpToDate(next) /\ (next.version # old.version => SameDistances(old, next))
  BY <1>1, <1>2, <1>3, <1>5 DEF UpToDate, SameDistances, stackVars
<1>8. TopMoves
  BY <1>1, <1>2, <1>5, <1>6, <1>7 DEF TopMoves, Grows, stackVars, old
<1>9. m_stack' \in [0 .. m_size - 1 -> Cells]
  BY <1>1 DEF stackVars, IInv, TypeOK
<1> QED BY <1>1, <1>8, <1>9, MachineKept DEF LoopStep, stackVars

LEMMA JitReturnsLaterStep ==
  ASSUME IInv, JitReturnsLater
  PROVE  LoopStep /\ MachineOK'
<1> DEFINE act == [Top EXCEPT !.mode = "run"]
           next == [act EXCEPT !.ip = After(@, 1), !.redo = NoRedo]
<1>1. /\ InNative /\ Top.version = version /\ NoSync
      /\ UNCHANGED <<stackVars, invokes, status>> /\ SetTop(next)
  BY DEF JitReturnsLater, Continue
<1>2. /\ act \in Acts /\ act.version = version /\ act.size = m_size
      /\ act.assured <= act.size /\ acts # <<>> /\ m_size \in Nat /\ version \in Nat
  BY <1>1, WaitingTop DEF Acts, IInv, TypeOK
<1> HIDE DEF act
<1>3. /\ next \in Acts /\ next.version = version /\ next.size = m_size
      /\ next.assured <= next.size
  BY <1>2, NextInstruction
<1> HIDE DEF next
<1>4. TopMoves
  BY <1>1, <1>2, <1>3 DEF TopMoves, Grows, UpToDate, stackVars
<1>5. m_stack' \in [0 .. m_size - 1 -> Cells]
  BY <1>1 DEF stackVars, IInv, TypeOK
<1> QED BY <1>1, <1>4, <1>5, MachineKept DEF LoopStep, stackVars

LEMMA JitResyncsLaterStep ==
  ASSUME IInv, NEW ip \in CodeEnvs \X (0 .. MaxCode - 1), JitResyncsLater(ip)
  PROVE  LoopStep /\ MachineOK'
<1> DEFINE sp == m_size - (Top.size - Top.sp)
           sb == m_size - (Top.size - Top.sb)
           act == [Top EXCEPT !.ip = ip, !.env = ip[1], !.sp = sp, !.sb = sb,
                              !.version = version, !.size = m_size, !.mode = "run"]
           next == [act EXCEPT !.ip = After(@, 1), !.redo = NoRedo]
<1>1. /\ InNative /\ UNCHANGED <<stackVars, invokes, status>>
      /\ m_ip' = ip /\ m_env' = ip[1] /\ m_sp' = sp /\ m_sb' = sb /\ SetTop(next)
  BY DEF JitResyncsLater, Continue, Found
<1>2. /\ Top \in Acts /\ Top.sp \in Int /\ Top.sb \in Int /\ Top.size \in Nat
      /\ Top.assured \in Int /\ Top.assured <= Top.size /\ Top.size <= m_size
      /\ m_size \in Nat /\ version \in Nat /\ acts # <<>>
  BY <1>1, WaitingTop DEF Acts, IInv, TypeOK
<1>3. ip \in Ips /\ ip[1] \in CodeEnvs
  BY DEF Ips
<1>4. /\ sp \in Int /\ sb \in Int
      /\ m_size - sp = Top.size - Top.sp /\ m_size - sb = Top.size - Top.sb
      /\ Top.assured <= m_size
  BY <1>2
<1> HIDE DEF sp, sb
<1>5. /\ act \in Acts /\ act.version = version /\ act.size = m_size
      /\ act.assured = Top.assured /\ act.sp = sp /\ act.sb = sb
  BY <1>2, <1>3, <1>4 DEF Acts
<1> HIDE DEF act
<1>6. /\ next \in Acts /\ next.version = version /\ next.size = m_size
      /\ next.assured = Top.assured /\ next.sp = sp /\ next.sb = sb
  BY <1>5, NextInstruction
<1> HIDE DEF next
<1>7. UpToDate(next) /\ SameDistances(Top, next)
  BY <1>1, <1>4, <1>6 DEF UpToDate, SameDistances, stackVars
<1>8. TopMoves
  BY <1>1, <1>2, <1>6, <1>7 DEF TopMoves, Grows, stackVars
<1>9. MachineOK'
  BY <1>1, <1>3, <1>4 DEF MachineOK, stackVars, IInv, TypeOK, AssuredPushFits
<1> QED BY <1>8, <1>9 DEF LoopStep

LEMMA NativeFailsStep ==
  ASSUME IInv, NativeFails
  PROVE  LoopStep /\ MachineOK'
<1>1. /\ InNative /\ NoSync /\ UNCHANGED <<stackVars, invokes, status>>
      /\ acts' = Front(acts)
  BY DEF NativeFails
<1>2. TopLeaves
  BY <1>1, WaitingTop DEF TopLeaves, stackVars
<1>3. m_stack' \in [0 .. m_size - 1 -> Cells]
  BY <1>1 DEF stackVars, IInv, TypeOK
<1> QED BY <1>1, <1>2, <1>3, MachineKept DEF LoopStep, stackVars

LEMMA InvokeStep ==
  ASSUME IInv, NEW e \in CodeEnvs, Invoke(e)
  PROVE  LoopStep /\ MachineOK'
<1> DEFINE sp == m_sp - 3
           new == [ip |-> <<e, 0>>, env |-> e, sp |-> sp, sb |-> sp,
                   version |-> version, size |-> m_size,
                   mode |-> "run", redo |-> NoRedo, assured |-> 0,
                   base |-> m_size - sp]
<1>1. /\ m_size \in Nat /\ version \in Nat /\ m_sp \in Int /\ m_sb \in Int
      /\ m_ip \in Ips /\ m_stack \in [0 .. m_size - 1 -> Cells] /\ status # "assert"
      /\ acts \in Seq(Acts) /\ invokes \in 0 .. MaxInvokes
      /\ status \in {"ok", "panic", "assert", "wild"}
  BY DEF IInv, TypeOK, AssuredPushFits
<1>2. sp \in Int /\ <<e, 0>> \in Ips /\ m_size - sp \in Int
  BY <1>1 DEF Ips
<1>3. /\ (acts = <<>> \/ InNative) /\ UNCHANGED <<m_size, version>>
      /\ invokes < MaxInvokes /\ invokes' = invokes + 1
      /\ m_env' = e /\ m_sp' = sp /\ m_sb' = sp /\ m_ip' = <<e, 0>>
  BY DEF Invoke
<1>4. new \in Acts /\ new.version = version /\ new.size = m_size /\ new.assured = 0
  BY <1>1, <1>2 DEF Acts
<1>5. invokes' \in 0 .. MaxInvokes
  BY <1>1, <1>3, VMRuntimeAssumption
<1>6. RetBp("FROM_NATIVE", m_size - m_sb) \in Cells /\ RetAddr(m_ip) \in Cells
  <2>1. m_size - m_sb \in Int /\ m_ip \in Ips
    BY <1>1
  <2> HIDE DEF sp, new
  <2> QED BY <2>1, RecordsAreCells
<1>7. CASE sp + 1 < 0
  <2>1. status' = "wild" /\ UNCHANGED <<m_stack, acts>>
    BY <1>7 DEF Invoke
  <2> QED BY <1>1, <1>2, <1>3, <1>5, <2>1 DEF MachineOK, LoopStep, Stops
<1>8. CASE ~(sp + 1 < 0)
  <2>1. /\ m_stack' = [m_stack EXCEPT ![sp + 1] = RetBp("FROM_NATIVE", m_size - m_sb),
                                      ![sp + 2] = RetAddr(m_ip)]
        /\ acts' = Append(acts, new) /\ status' = status
    BY <1>8 DEF Invoke
  <2> HIDE DEF new, sp
  <2>2. m_stack' \in [0 .. m_size - 1 -> Cells]
    BY <1>1, <1>6, <2>1
  <2>3. MachineOK'
    BY <1>1, <1>2, <1>3, <1>5, <2>1, <2>2 DEF MachineOK
  <2>4. UpToDate(new)
    BY <1>1, <1>3, <1>4 DEF UpToDate
  <2> QED BY <1>3, <1>4, <2>1, <2>3, <2>4 DEF LoopStep, LoopEnters
<1> QED BY <1>7, <1>8

-----------------------------------------------------------------------------
(***************************************************************************)
(* The invariant is inductive.                                             *)
(***************************************************************************)
LEMMA EveryStep ==
  ASSUME IInv, Next
  PROVE  LoopStep /\ MachineOK'
<1>1. ASSUME NEW e \in CodeEnvs, Invoke(e) PROVE LoopStep /\ MachineOK'
  BY <1>1, InvokeStep
<1>2. CASE NativeReturns \/ NativeFails \/ JitReturnsLater
  BY <1>2, NativeReturnsStep, NativeFailsStep, JitReturnsLaterStep
<1>3. ASSUME NEW ip \in CodeEnvs \X (0 .. MaxCode - 1), JitResyncsLater(ip)
      PROVE  LoopStep /\ MachineOK'
  BY <1>3, JitResyncsLaterStep
<1>4. CASE Execute
  <2>1. CASE Move \/ PushChecked \/ Push \/ Pop
    <3>1. CASE PushChecked
      BY <3>1, StoreAndDropStep DEF PushChecked, Fetch
    <3> QED BY <2>1, <3>1, MoveStep, PushStep, PopStep
  <2>2. ASSUME NEW n \in Operands,
               PushReserve(n) \/ Assure(n) \/ PopReserve(n) \/ \E k : Result(n, k)
        PROVE  LoopStep /\ MachineOK'
    BY <2>2, ReserveStep, AssureStep, ResultStep
  <2>3. ASSUME NEW c \in CheckedOps, StackOverflow(c[1], c[2])
        PROVE  LoopStep /\ MachineOK'
    BY <2>3, OverflowStep
  <2>4. CASE CallNear \/ CallNative \/ JitReturns \/ JitFails \/ JitCallsNative
    BY <2>4, CallNearStep, CallNativeStep, JitStep, JitCallsNativeStep
  <2>5. ASSUME NEW ip \in CodeEnvs \X (0 .. MaxCode - 1), JitResyncs(ip)
        PROVE  LoopStep /\ MachineOK'
    BY <2>5, JitResyncStep
  <2>6. CASE ReturnNear \/ ReturnToNative \/ ReturnFar \/ ReturnWild \/ BadCommand
    BY <2>6, ReturnNearStep, ReturnToNativeStep, ReturnFarStep, StopStep
  <2> QED BY <1>4, <2>1, <2>2, <2>3, <2>4, <2>5, <2>6 DEF Execute
<1> QED BY <1>1, <1>2, <1>3, <1>4 DEF Next

\* The loops after a step: a new innermost one, one less, or one more.
LEMMA LoopsMove ==
  ASSUME IInv, TopMoves
  PROVE  /\ acts' \in Seq(Acts) /\ Len(acts') = Len(acts) /\ acts' # <<>>
         /\ UpToDate(acts'[Len(acts)])
         /\ acts'[Len(acts)].version # Top.version => SameDistances(Top, acts'[Len(acts)])
         /\ \A a \in 1 .. Len(acts) - 1 : acts'[a] = acts[a]
<1>1. PICK act \in Acts :
        /\ SetTop(act) /\ UpToDate(act)
        /\ act.version # Top.version => SameDistances(Top, act)
  BY DEF TopMoves
<1>2. acts \in Seq(Acts) /\ acts # <<>> /\ Len(acts) \in Nat \ {0}
  BY TopIsAct DEF TopMoves, IInv, TypeOK
<1>3. acts' = [acts EXCEPT ![Len(acts)] = act]
  BY <1>1 DEF SetTop, ReplaceAt
<1>4. acts' \in Seq(Acts) /\ Len(acts') = Len(acts)
  BY <1>2, <1>3
<1>5. acts'[Len(acts)] = act /\ \A a \in 1 .. Len(acts) - 1 : acts'[a] = acts[a]
  BY <1>2, <1>3
<1>6. acts' # <<>>
  BY <1>2, <1>4
<1> QED BY <1>1, <1>4, <1>5, <1>6

LEMMA LoopsLeave ==
  ASSUME IInv, TopLeaves
  PROVE  /\ acts' \in Seq(Acts) /\ Len(acts') = Len(acts) - 1 /\ Len(acts) \in Nat
         /\ \A a \in 1 .. Len(acts') : acts'[a] = acts[a]
<1>1. acts \in Seq(Acts) /\ acts # <<>> /\ Len(acts) \in Nat \ {0}
  BY TopIsAct DEF TopLeaves, IInv, TypeOK
<1>2. acts' = SubSeq(acts, 1, Len(acts) - 1)
  BY DEF TopLeaves, Front
<1> DEFINE n == Len(acts) - 1
<1>3. n \in Nat /\ n <= Len(acts)
  BY <1>1
<1>4. ASSUME NEW s \in Seq(Acts), NEW m \in Nat, m <= Len(s)
      PROVE  /\ SubSeq(s, 1, m) \in Seq(Acts) /\ Len(SubSeq(s, 1, m)) = m
             /\ \A a \in 1 .. m : SubSeq(s, 1, m)[a] = s[a]
  BY <1>4
<1> HIDE DEF n
<1>5. acts' = SubSeq(acts, 1, n)
  BY <1>2 DEF n
<1>6. acts' \in Seq(Acts) /\ Len(acts') = n /\ \A a \in 1 .. n : acts'[a] = acts[a]
  BY <1>1, <1>3, <1>4, <1>5
<1> QED BY <1>1, <1>6 DEF n

LEMMA LoopsEnter ==
  ASSUME IInv, LoopEnters
  PROVE  /\ acts' \in Seq(Acts) /\ Len(acts') = Len(acts) + 1 /\ Len(acts) \in Nat
         /\ UpToDate(acts'[Len(acts')])
         /\ \A a \in 1 .. Len(acts) : acts'[a] = acts[a]
<1>1. PICK act \in Acts : acts' = Append(acts, act) /\ UpToDate(act)
  BY DEF LoopEnters
<1>2. acts \in Seq(Acts)
  BY DEF IInv, TypeOK
<1> QED BY <1>1, <1>2

LEMMA OthersStillWait ==
  ASSUME IInv, LoopStep
  PROVE  OthersWait'
<1>1. CASE TopMoves
  BY <1>1, LoopsMove DEF IInv, OthersWait
<1>2. CASE TopLeaves
  BY <1>2, LoopsLeave DEF IInv, OthersWait
<1>3. CASE LoopEnters
  <2>1. \A a \in 1 .. Len(acts) : acts[a].mode # "run"
    <3>1. CASE acts = <<>>
      BY <3>1
    <3>2. CASE InNative
      BY <3>2, WaitingTop, TopIsAct DEF InNative, Top, IInv, OthersWait
    <3> QED BY <1>3, <3>1, <3>2 DEF LoopEnters
  <2> QED BY <1>3, <2>1, LoopsEnter DEF OthersWait
<1>4. CASE Stops
  BY <1>4 DEF Stops, IInv, OthersWait
<1> QED BY <1>1, <1>2, <1>3, <1>4 DEF LoopStep

LEMMA RoomIsStillThere ==
  ASSUME IInv, LoopStep, MachineOK'
  PROVE  RoomIsThere'
<1>1. m_size \in Nat /\ version \in Nat /\ m_size' \in Nat /\ version' \in Nat
  BY DEF IInv, TypeOK, MachineOK
<1>2. \A a \in 1 .. Len(acts) :
        acts[a].version \in Nat /\ acts[a].size \in Nat /\ acts[a].assured \in Int
  <2>1. acts \in Seq(Acts)
    BY DEF IInv, TypeOK
  <2>2. \A a \in 1 .. Len(acts) : acts[a] \in Acts
    BY <2>1
  <2> QED BY <2>2 DEF Acts
<1> DEFINE Fine(act) == /\ act.version <= version'
                        /\ act.version = version' => act.size = m_size'
                        /\ act.size <= m_size' /\ act.assured <= act.size
<1>3. ASSUME NEW act, UpToDate(act) PROVE Fine(act)
  BY <1>1, <1>3 DEF UpToDate
<1>4. ASSUME NEW a \in 1 .. Len(acts), Grows PROVE Fine(acts[a])
  BY <1>1, <1>2, <1>4 DEF Grows, IInv, RoomIsThere
<1> SUFFICES ASSUME NEW a \in 1 .. Len(acts') PROVE Fine(acts'[a])
  BY DEF RoomIsThere
<1> HIDE DEF Fine
<1>5. CASE TopMoves
  BY <1>3, <1>4, <1>5, LoopsMove DEF TopMoves
<1>6. CASE TopLeaves
  <2>1. Grows
    BY <1>1, <1>6 DEF TopLeaves, Grows
  <2> QED BY <1>4, <1>6, <2>1, LoopsLeave
<1>7. CASE LoopEnters
  <2>1. Grows
    BY <1>1, <1>7 DEF LoopEnters, Grows
  <2> QED BY <1>3, <1>4, <1>7, <2>1, LoopsEnter
<1>8. CASE Stops
  <2>1. Grows /\ acts' = acts
    BY <1>1, <1>8 DEF Stops, Grows
  <2> QED BY <1>4, <2>1
<1> QED BY <1>5, <1>6, <1>7, <1>8 DEF LoopStep

LEMMA StillNotDangling ==
  ASSUME IInv, LoopStep
  PROVE  NoDanglingStack'
<1> SUFFICES ASSUME Running'
             PROVE  Top'.version = version' /\ Top'.size = m_size'
  BY DEF NoDanglingStack
<1>1. CASE TopMoves
  BY <1>1, LoopsMove DEF UpToDate, Top
<1>2. CASE TopLeaves
  \* The loop that is now the innermost waits: it does not run.
  <2>1. /\ acts' \in Seq(Acts) /\ acts' # <<>> /\ Len(acts') = Len(acts) - 1
        /\ Len(acts) \in Nat /\ acts'[Len(acts')].mode = "run"
    BY <1>2, LoopsLeave DEF Running, Top
  <2>2. Len(acts') \in 1 .. Len(acts) - 1 /\ Len(acts') \in 1 .. Len(acts')
    BY <2>1
  <2>3. acts[Len(acts')].mode # "run"
    BY <2>2 DEF IInv, OthersWait
  <2> QED BY <1>2, <2>1, <2>2, <2>3, LoopsLeave
<1>3. CASE LoopEnters
  BY <1>3, LoopsEnter DEF UpToDate, Top
<1>4. CASE Stops
  BY <1>4 DEF Stops, Running
<1> QED BY <1>1, <1>2, <1>3, <1>4 DEF LoopStep

LEMMA Inductive ==
  ASSUME IInv, [Next]_vars
  PROVE  IInv'
<1>1. CASE Next
  <2>1. LoopStep /\ MachineOK'
    BY <1>1, EveryStep
  <2>2. acts' \in Seq(Acts)
    BY <2>1, LoopsMove, LoopsLeave, LoopsEnter DEF LoopStep, Stops, IInv, TypeOK
  <2>3. TypeOK' /\ AssuredPushFits'
    BY <2>1, <2>2 DEF MachineOK, TypeOK, AssuredPushFits
  <2> QED BY <2>1, <2>3, OthersStillWait, RoomIsStillThere, StillNotDangling DEF IInv
<1>2. CASE UNCHANGED vars
  BY <1>2 DEF vars, stackVars, machineVars, IInv, TypeOK, NoDanglingStack, Running,
     Top, OthersWait, RoomIsThere, AssuredPushFits
<1> QED BY <1>1, <1>2

LEMMA Initially == Init => IInv
<1> SUFFICES ASSUME Init PROVE IInv
  OBVIOUS
<1>1. TypeOK
  BY DataIsCell, VMRuntimeAssumption DEF Init, TypeOK, Ips, NoIp
<1>2. Len(acts) = 0 /\ acts = <<>> /\ status = "ok"
  BY DEF Init
<1> QED BY <1>1, <1>2 DEF IInv, NoDanglingStack, Running, OthersWait, RoomIsThere,
           AssuredPushFits

LEMMA Always == Spec => []IInv
BY Initially, Inductive, PTL DEF Spec

-----------------------------------------------------------------------------
\* The registers, the stack and the loops always have their types: a count
\* never goes below zero, and a cell always holds one of the three things.
THEOREM TypeCorrect == Spec => []TypeOK
BY Always, PTL DEF IInv

\* No loop ever executes an instruction with pointers into a block that was
\* given back (the version check of woort_vm.c:166-176 is enough).
THEOREM NeverDangling == Spec => []NoDanglingStack
BY Always, PTL DEF IInv

\* The assertions of the unchecked pushes hold whenever the compiler has secured
\* the room with ASSURESSZ (woort_vm.c:336, 344, 352).
THEOREM AssertionsHold == Spec => []AssuredPushFits
BY Always, PTL DEF IInv

\* Whoever moves the stack, a loop finds its frame again at the same distance
\* from the end.
THEOREM DistancesAreKept == Spec => DistancesKept
<1> DEFINE Kept == \A a \in DOMAIN acts \cap DOMAIN acts' :
             acts'[a].version # acts[a].version =>
               /\ acts'[a].size - acts'[a].sp = acts[a].size - acts[a].sp
               /\ acts'[a].size - acts'[a].sb = acts[a].size - acts[a].sb
<1>1. ASSUME IInv, [Next]_vars
      PROVE  [Kept]_vars
  <2>1. SUFFICES ASSUME Next PROVE Kept
    BY <1>1
  <2>2. SUFFICES ASSUME NEW a \in DOMAIN acts \cap DOMAIN acts',
                        acts'[a].version # acts[a].version
                 PROVE  SameDistances(acts[a], acts'[a])
    BY DEF SameDistances
  <2>3. LoopStep /\ acts \in Seq(Acts)
    BY <1>1, <2>1, EveryStep DEF IInv, TypeOK
  <2>4. CASE TopMoves
    BY <1>1, <2>2, <2>3, <2>4, LoopsMove DEF Top
  <2>5. CASE TopLeaves
    BY <1>1, <2>2, <2>3, <2>5, LoopsLeave
  <2>6. CASE LoopEnters
    BY <1>1, <2>2, <2>3, <2>6, LoopsEnter
  <2>7. CASE Stops
    BY <2>2, <2>7 DEF Stops
  <2> QED BY <2>3, <2>4, <2>5, <2>6, <2>7 DEF LoopStep
<1> QED BY <1>1, Always, PTL DEF Spec, DistancesKept

-----------------------------------------------------------------------------
(***************************************************************************)
(* The frames.  All positions are measured from the end of the stack,      *)
(* which is what a saved bp holds: then no extension changes them.  A loop *)
(* has its frames at distances d[0] < d[1] < .. < d[n], the first one      *)
(* pushed by its invoke and the last one that of its sb, and the record of *)
(* each but the first leads to the one before.  A call appends a frame, a  *)
(* return removes the last; what else is written behind sb is an argument, *)
(* and lies between the record of the frame and that of the caller's.  The *)
(* frames of nested loops lie below one another, because invoke starts at  *)
(* m_sp, which the SYNC before a native call put below the caller's frame. *)
(***************************************************************************)
NatLess == {p \in Nat \X Nat : p[1] < p[2]}

LEMMA Least ==
  ASSUME NEW S \in SUBSET Nat, S # {}
  PROVE  \E m \in S : \A k \in S : m <= k
<1>1. IsWellFoundedOn(NatLess, Nat)
  BY NatLessThanWellFounded DEF OpToRel, NatLess
<1>2. \E x \in S : \A y \in S : ~(<<y, x>> \in NatLess)
  BY <1>1, WFMin
<1>3. PICK m \in S : \A y \in S : ~(<<y, m>> \in NatLess)
  BY <1>2
<1>4. \A y \in S : ~(y < m)
  BY <1>3 DEF NatLess
<1> QED BY <1>4

\* The distance from the end of the stack of a loop's sp and sb.
SpDist(act) == act.size - act.sp
SbDist(act) == act.size - act.sb

\* A call record stands below the frame at distance d.
RecordAt(d) ==
  /\ m_size - d + 1 \in DOMAIN m_stack /\ m_size - d + 2 \in DOMAIN m_stack
  /\ m_stack[m_size - d + 1].is = "ret_bp" /\ m_stack[m_size - d + 2].is = "ret_addr"

\* The frames of a loop, from that of its invoke (0) to the one it executes in
\* (n), each at its distance from the end of the stack.
Frames(act, n, d) ==
  /\ n \in Nat /\ d \in [0 .. n -> Int]
  /\ d[0] = act.base /\ act.base >= 3
  /\ d[n] = SbDist(act) /\ d[n] <= m_size + 1 /\ d[n] <= SpDist(act)
  /\ \A k, l \in 0 .. n : k < l => d[l] - d[k] >= 2 * (l - k)
  /\ version = 0 => \A k \in 0 .. n : RecordAt(d[k])
  /\ \A k \in 0 .. n : RecordAt(d[k]) =>
       LET record == m_stack[m_size - d[k] + 1] IN
         IF k = 0 THEN record.way = "FROM_NATIVE"
                  ELSE record.way # "FROM_NATIVE" /\ record.offset = d[k - 1]

FramesAreThere == \A a \in 1 .. Len(acts) : \E n, d : Frames(acts[a], n, d)

FramesNest ==
  \A a, b \in 1 .. Len(acts) : a < b => acts[b].base >= SpDist(acts[a]) + 3

NativesAreSynced ==
  /\ m_size - m_sp >= 0
  /\ \A a \in 1 .. Len(acts) :
       acts[a].mode # "run" => acts[a].sp >= 0 /\ m_size - m_sp >= SpDist(acts[a])

\* RESULT reads a negative operand as one 65536 higher: in a stack of fewer cells
\* its slot is not there, and in a larger one it may be in another frame.
SmallStack == m_size <= 65534

FramesHold == FramesAreThere /\ FramesNest /\ NativesAreSynced /\ SmallStack

\* (A RET that panics may have written over the record it returned from.)
FInv ==
  /\ version = 0 => m_size = BeginSize
  /\ SmallStack /\ status = "ok" => FramesHold

-----------------------------------------------------------------------------
\* The cells of a record are behind the sb of its frame.
LEMMA FramesInOrder ==
  ASSUME IInv, NEW act \in Acts, NEW n, NEW d, Frames(act, n, d), NEW k \in 0 .. n
  PROVE  /\ d[k] \in Int /\ n \in Nat
         /\ 3 <= d[k] /\ d[k] <= SbDist(act) /\ d[k] <= m_size + 1
         /\ act.base + 2 * k <= d[k]
         /\ k < n => d[k] + 2 <= SbDist(act)
         /\ act.base \in Int /\ SpDist(act) \in Int /\ SbDist(act) \in Int
<1>1. n \in Nat /\ k \in Nat /\ k <= n /\ d[k] \in Int /\ d[0] \in Int /\ d[n] \in Int
      /\ m_size \in Nat
  BY DEF Frames, IInv, TypeOK
<1>2. act.base \in Int /\ SpDist(act) \in Int /\ SbDist(act) \in Int
  BY DEF SpDist, SbDist, Acts
<1>3. k < n => d[n] - d[k] >= 2 * (n - k)
  BY <1>1 DEF Frames
<1>4. 0 < k => d[k] - d[0] >= 2 * (k - 0)
  BY <1>1 DEF Frames
<1>5. d[0] = act.base /\ act.base >= 3 /\ d[n] = SbDist(act) /\ d[n] <= m_size + 1
  BY DEF Frames
<1> QED BY <1>1, <1>2, <1>3, <1>4, <1>5

\* Nothing in the frames of `act' is written.
Untouched(act) ==
  \A k \in 0 .. m_size - 1 : k > m_size - SbDist(act) => m_stack'[k] = m_stack[k]

StackKept ==
  /\ m_size' = m_size /\ version' = version
  /\ m_stack' \in [0 .. m_size - 1 -> Cells]

LEMMA RecordKept ==
  ASSUME IInv, StackKept, NEW e \in Int, 3 <= e, e <= m_size + 1,
         \A k \in 0 .. m_size - 1 : k > m_size - e => m_stack'[k] = m_stack[k]
  PROVE  /\ m_stack'[m_size - e + 1] = m_stack[m_size - e + 1]
         /\ RecordAt(e)' <=> RecordAt(e)
<1>1. m_size \in Nat /\ DOMAIN m_stack = 0 .. m_size - 1 /\ DOMAIN m_stack' = 0 .. m_size - 1
  BY DEF IInv, TypeOK, StackKept
<1>2. m_size - e + 1 \in 0 .. m_size - 1 /\ m_size - e + 2 \in 0 .. m_size - 1
  BY <1>1
<1>3. /\ m_stack'[m_size - e + 1] = m_stack[m_size - e + 1]
      /\ m_stack'[m_size - e + 2] = m_stack[m_size - e + 2]
  BY <1>1, <1>2
<1> QED BY <1>1, <1>3 DEF RecordAt, StackKept

\* A record that is there after the step was there before it, and the first ones
\* are all still there.
RecordsKept(n, d) ==
  \A k \in 0 .. n :
    /\ RecordAt(d[k])' =>
         RecordAt(d[k]) /\ m_stack'[m_size - d[k] + 1] = m_stack[m_size - d[k] + 1]
    /\ version = 0 => RecordAt(d[k])'

LEMMA UntouchedRecords ==
  ASSUME IInv, StackKept, NEW act \in Acts, NEW n, NEW d, Frames(act, n, d),
         Untouched(act)
  PROVE  RecordsKept(n, d)
<1> SUFFICES ASSUME NEW k \in 0 .. n
             PROVE  /\ m_stack'[m_size - d[k] + 1] = m_stack[m_size - d[k] + 1]
                    /\ RecordAt(d[k])' <=> RecordAt(d[k])
  BY DEF RecordsKept, Frames
<1>1. d[k] \in Int /\ 3 <= d[k] /\ d[k] <= m_size + 1 /\ d[k] <= SbDist(act)
      /\ SbDist(act) \in Int /\ m_size \in Nat
  BY FramesInOrder DEF IInv, TypeOK
<1>2. \A j \in 0 .. m_size - 1 : j > m_size - d[k] => m_stack'[j] = m_stack[j]
  BY <1>1 DEF Untouched
<1> QED BY <1>1, <1>2, RecordKept

\* What the function of the innermost loop may write, and where it pushes.
Writable(act, w) == w \in Int /\ (w <= act.sb \/ w \in Arguments(act))

LEMMA RecordCells ==
  ASSUME NEW m \in Nat, NEW sb \in Int, NEW e \in Int, 3 <= e, e <= m - sb, e <= m + 1
  PROVE  /\ m - e + 1 \in 0 .. m - 1 /\ m - e + 2 \in 0 .. m - 1
         /\ m - e + 2 = m - e + 1 + 1 /\ m - e + 1 >= sb + 1
OBVIOUS

LEMMA RecordAbove ==
  ASSUME NEW m \in Nat, NEW e \in Int, NEW f \in Int, NEW w \in Int, w <= m - f, e <= f
  PROVE  m - e + 1 # w /\ m - e + 2 # w
OBVIOUS

\* An argument lies between the record of its function's frame and that of the
\* caller's frame.
LEMMA WrittenRecords ==
  ASSUME IInv, StackKept, NEW act \in Acts, act.size = m_size, NEW n, NEW d,
         Frames(act, n, d), NEW w, Writable(act, w), m_stack' = [m_stack EXCEPT ![w] = Data]
  PROVE  RecordsKept(n, d)
<1>1. /\ m_size \in Nat /\ DOMAIN m_stack = 0 .. m_size - 1 /\ DOMAIN m_stack' = 0 .. m_size - 1
      /\ m_size' = m_size /\ act.sb \in Int /\ act.base \in Int
  BY DEF IInv, TypeOK, StackKept, Acts
<1>2. /\ n \in Nat /\ n \in 0 .. n /\ d \in [0 .. n -> Int] /\ d[n] = m_size - act.sb
      /\ d[0] = act.base /\ d[n] \in Int
  BY <1>1 DEF Frames, SbDist
<1> SUFFICES ASSUME NEW k \in 0 .. n
             PROVE  /\ RecordAt(d[k])' =>
                         RecordAt(d[k]) /\ m_stack'[m_size - d[k] + 1] = m_stack[m_size - d[k] + 1]
                    /\ version = 0 => RecordAt(d[k])'
  BY DEF RecordsKept
<1> DEFINE p == m_size - d[k] + 1
           q == m_size - d[k] + 2
<1>3. d[k] \in Int /\ 3 <= d[k] /\ d[k] <= d[n] /\ d[k] <= m_size + 1
  BY <1>1, <1>2, FramesInOrder DEF SbDist
<1>4. p \in 0 .. m_size - 1 /\ q \in 0 .. m_size - 1 /\ q = p + 1 /\ p >= act.sb + 1
  <2>1. d[k] <= m_size - act.sb
    BY <1>2, <1>3
  <2> QED BY <1>1, <1>3, <2>1, RecordCells
<1>5. \A j \in 0 .. m_size - 1 : m_stack'[j] = IF j = w THEN Data ELSE m_stack[j]
  BY <1>1
<1>6. ASSUME RecordAt(d[k])'
      PROVE  RecordAt(d[k]) /\ m_stack'[p] = m_stack[p]
  <2>1. m_stack'[p].is = "ret_bp" /\ m_stack'[q].is = "ret_addr"
    BY <1>1, <1>6 DEF RecordAt
  <2>2. m_stack'[p] = m_stack[p] /\ m_stack'[q] = m_stack[q]
    BY <1>4, <1>5, <2>1 DEF Data
  <2> QED BY <1>1, <1>4, <2>1, <2>2 DEF RecordAt
<1>7. ASSUME version = 0
      PROVE  RecordAt(d[k])'
  <2>1. RecordAt(d[k]) /\ RecordAt(d[n])
    BY <1>2, <1>7 DEF Frames
  <2>2. p # w /\ q # w
    <3>1. CASE w <= act.sb
      BY <1>1, <1>4, <3>1 DEF Writable
    <3>2. CASE w \in Arguments(act)
      <4>1. IsRecord(act.sb)
        <5>1. m_size - d[n] + 1 = act.sb + 1 /\ m_size - d[n] + 2 = act.sb + 2
          BY <1>1, <1>2
        <5> QED BY <2>1, <5>1 DEF RecordAt, IsRecord
      <4>2. /\ w \in 0 .. m_size - 1 /\ w >= act.sb + 3 /\ w <= m_size - act.base
            /\ w <= m_size - m_stack[act.sb + 1].offset
        BY <1>1, <3>2, <4>1 DEF Arguments, CallerBp
      <4>3. n # 0
        BY <1>1, <1>2, <4>2
      <4>4. m_stack[m_size - d[n] + 1].offset = d[n - 1]
        BY <1>2, <2>1, <4>3 DEF Frames
      <4>5. w <= m_size - d[n - 1] /\ d[n - 1] \in Int /\ w \in Int
        <5>1. n - 1 \in 0 .. n
          BY <1>2, <4>3
        <5>2. m_size - d[n] + 1 = act.sb + 1
          BY <1>1, <1>2
        <5>3. m_stack[act.sb + 1].offset = d[n - 1]
          BY <4>4, <5>2
        <5>4. d[n - 1] \in Int
          BY <1>2, <5>1
        <5> QED BY <4>2, <5>3, <5>4
      <4>6. CASE k = n
        <5>1. p = act.sb + 1 /\ q = act.sb + 2
          BY <1>1, <1>2, <4>6
        <5> HIDE DEF p, q
        <5> QED BY <1>1, <4>2, <5>1
      <4>7. CASE k # n
        <5>1. k <= n - 1 /\ k \in Nat /\ n - 1 \in 0 .. n
          BY <1>2, <4>3, <4>7
        <5>2. k < n - 1 => d[n - 1] - d[k] >= 2 * (n - 1 - k)
          BY <5>1 DEF Frames
        <5>3. d[k] <= d[n - 1]
          <6>1. CASE k = n - 1
            BY <1>3, <6>1
          <6>2. CASE k # n - 1
            <7>1. k < n - 1 /\ 2 * (n - 1 - k) >= 0
              BY <1>2, <5>1, <6>2
            <7>2. d[n - 1] - d[k] >= 0
              BY <1>2, <5>1, <5>2, <7>1
            <7> QED BY <1>3, <4>5, <7>2
          <6> QED BY <6>1, <6>2
        <5> QED BY <1>1, <1>3, <4>5, <5>3, RecordAbove
      <4> QED BY <4>6, <4>7
    <3> QED BY <3>1, <3>2 DEF Writable
  <2>3. m_stack'[p] = m_stack[p] /\ m_stack'[q] = m_stack[q]
    BY <1>4, <1>5, <2>2
  <2> QED BY <1>1, <1>4, <2>1, <2>3 DEF RecordAt
<1> QED BY <1>6, <1>7

LEMMA FramesKept ==
  ASSUME IInv, StackKept, NEW act \in Acts, NEW n, NEW d, Frames(act, n, d),
         RecordsKept(n, d),
         NEW new \in Acts, new.base = act.base, SbDist(new) = SbDist(act),
         SpDist(new) >= SbDist(new)
  PROVE  Frames(new, n, d)'
<1>1. ASSUME NEW k \in 0 .. n
      PROVE  /\ RecordAt(d[k])' =>
                  RecordAt(d[k]) /\ m_stack'[m_size - d[k] + 1] = m_stack[m_size - d[k] + 1]
             /\ version = 0 => RecordAt(d[k])'
  BY DEF RecordsKept
<1>2. n \in Nat /\ m_size' = m_size /\ version' = version
  BY DEF Frames, StackKept
<1>3. SpDist(new) \in Int /\ SbDist(new) \in Int /\ d[n] = SbDist(new)
  BY DEF SpDist, SbDist, Acts, Frames
<1>4. /\ d \in [0 .. n -> Int] /\ d[0] = new.base /\ new.base >= 3 /\ d[n] <= m_size + 1
      /\ \A k, l \in 0 .. n : k < l => d[l] - d[k] >= 2 * (l - k)
  BY DEF Frames
<1>5. version' = 0 => \A k \in 0 .. n : RecordAt(d[k])'
  BY <1>1, <1>2 DEF Frames
<1>6. \A k \in 0 .. n : RecordAt(d[k])' =>
        LET record == m_stack'[m_size' - d[k] + 1] IN
          IF k = 0 THEN record.way = "FROM_NATIVE"
                   ELSE record.way # "FROM_NATIVE" /\ record.offset = d[k - 1]
  BY <1>1, <1>2 DEF Frames
<1> QED BY <1>2, <1>3, <1>4, <1>5, <1>6 DEF Frames, SpDist, SbDist

\* The stack is extended: a record is moved as it is, or lost.
LEMMA FramesExtended ==
  ASSUME IInv, m_size' = 2 * m_size, version' = version + 1, m_stack' = NewStack,
         NEW act \in Acts, NEW n, NEW d, Frames(act, n, d),
         NEW new \in Acts, new.base = act.base, SbDist(new) = SbDist(act),
         SpDist(new) = SpDist(act)
  PROVE  Frames(new, n, d)'
<1>1. m_size \in Nat /\ m_size' \in Nat /\ version \in Nat /\ version' # 0 /\ n \in Nat
      /\ DOMAIN m_stack = 0 .. m_size - 1
  BY DEF IInv, TypeOK, Frames
<1>2. ASSUME NEW k \in 0 .. n, RecordAt(d[k])'
      PROVE  /\ m_stack'[m_size' - d[k] + 1] = m_stack[m_size - d[k] + 1]
             /\ RecordAt(d[k])
  <2> DEFINE e == d[k]
  <2>1. e \in Int /\ 3 <= e /\ e <= m_size + 1
    BY FramesInOrder
  <2> HIDE DEF e
  <2>2. ASSUME NEW p \in 1 .. 2, m_stack'[m_size' - e + p] # Data
        PROVE  m_stack'[m_size' - e + p] = m_stack[m_size - e + p]
    <3> DEFINE j == m_size' - e + p
    <3>1. /\ j \in 0 .. 2 * m_size - 1 /\ ~(j < m_size)
          /\ j - m_size = m_size - e + p
      BY <1>1, <2>1
    <3>2. m_stack'[j] = IF j < m_size THEN m_stack[j]
                        ELSE IF j - m_size < CellsMoved THEN m_stack[j - m_size] ELSE Data
      BY <3>1 DEF NewStack
    <3> QED BY <2>2, <3>1, <3>2
  <2>3. Data.is = "data"
    BY DEF Data
  <2>4. /\ m_stack'[m_size' - e + 1].is = "ret_bp"
        /\ m_stack'[m_size' - e + 2].is = "ret_addr"
    BY <1>2 DEF RecordAt, e
  <2>5. m_stack'[m_size' - e + 1] # Data /\ m_stack'[m_size' - e + 2] # Data
    BY <2>3, <2>4
  <2>6. /\ m_stack'[m_size' - e + 1] = m_stack[m_size - e + 1]
        /\ m_stack'[m_size' - e + 2] = m_stack[m_size - e + 2]
    BY <2>2, <2>5
  <2>7. m_size - e + 1 \in DOMAIN m_stack /\ m_size - e + 2 \in DOMAIN m_stack
    BY <1>1, <2>1
  <2>8. RecordAt(e)
    BY <2>4, <2>6, <2>7 DEF RecordAt
  <2> QED BY <2>6, <2>8 DEF e
<1>3. SpDist(new) \in Int /\ SbDist(new) \in Int /\ d[n] = SbDist(new) /\ d[n] <= SpDist(new)
      /\ d[n] \in Int
  BY <1>1 DEF SpDist, SbDist, Acts, Frames
<1>4. /\ d \in [0 .. n -> Int] /\ d[0] = new.base /\ new.base >= 3 /\ d[n] <= m_size + 1
      /\ \A k, l \in 0 .. n : k < l => d[l] - d[k] >= 2 * (l - k)
  BY DEF Frames
<1>5. d[n] <= m_size' + 1
  BY <1>1, <1>3, <1>4
<1>6. \A k \in 0 .. n : RecordAt(d[k])' =>
        LET record == m_stack'[m_size' - d[k] + 1] IN
          IF k = 0 THEN record.way = "FROM_NATIVE"
                   ELSE record.way # "FROM_NATIVE" /\ record.offset = d[k - 1]
  BY <1>2 DEF Frames
<1> QED BY <1>1, <1>3, <1>4, <1>5, <1>6 DEF Frames, SpDist, SbDist

LEMMA LastOrBefore ==
  ASSUME NEW n \in Nat, NEW k \in 0 .. n
  PROVE  k = n \/ k < n
OBVIOUS

\* What is above a frame is above what lies below the frame.
LEMMA Above ==
  ASSUME NEW m \in Nat, NEW j \in 0 .. m - 1, NEW b \in Int, NEW sp \in Int,
         j > m - b, b <= m - sp
  PROVE  j > sp
OBVIOUS

LEMMA Back ==
  ASSUME NEW m \in Int, NEW d \in Int
  PROVE  m - (m - d) = d
OBVIOUS

LEMMA OneMore ==
  ASSUME NEW n \in Nat, NEW d \in [0 .. n -> Int], NEW e \in Int
  PROVE  LET f == [k \in 0 .. n + 1 |-> IF k = n + 1 THEN e ELSE d[k]]
         IN f \in [0 .. n + 1 -> Int] /\ f[n + 1] = e /\ \A k \in 0 .. n : f[k] = d[k]
OBVIOUS

\* The distance of a frame that is pushed at sp.
LEMMA PushedAt ==
  ASSUME NEW m \in Nat, NEW sp \in Int, NEW b \in Int, NEW e,
         sp >= 2, 3 <= b, b <= m - sp, e = m - sp + 2
  PROVE  /\ e \in Int /\ 3 <= e /\ e <= m + 1 /\ m - e + 2 = sp
         /\ m - e + 1 = sp - 1 /\ e >= b + 2 /\ sp + 3 <= m
OBVIOUS

\* A call pushes a frame below sp.
LEMMA FramesPushed ==
  ASSUME IInv, StackKept, NEW act \in Acts, NEW n, NEW d, Frames(act, n, d),
         act.size = m_size, act.sp >= 2,
         \A k \in 0 .. m_size - 1 : k > act.sp => m_stack'[k] = m_stack[k],
         NEW way \in {"NEAR", "FAR"}, NEW ip,
         m_stack'[act.sp - 1] = RetBp(way, SbDist(act)), m_stack'[act.sp] = RetAddr(ip),
         NEW new \in Acts, new.base = act.base, new.size = m_size,
         new.sb = act.sp - 2, new.sp = new.sb
  PROVE  \E f : Frames(new, n + 1, f)'
<1> DEFINE e == SpDist(act) + 2
           f == [k \in 0 .. n + 1 |-> IF k = n + 1 THEN e ELSE d[k]]
<1>1. /\ n \in Nat /\ n \in 0 .. n /\ m_size \in Nat
      /\ SpDist(act) \in Int /\ SbDist(act) \in Int
      /\ act.sp \in Int /\ SpDist(act) = m_size - act.sp
      /\ d[n] = SbDist(act) /\ d[n] <= SpDist(act) /\ d \in [0 .. n -> Int]
  <2>1. act.sp \in Int /\ act.sb \in Int /\ act.size \in Int
    BY DEF Acts
  <2>2. n \in Nat /\ m_size \in Nat /\ d[n] = SbDist(act) /\ d[n] <= SpDist(act)
        /\ d \in [0 .. n -> Int]
    BY DEF IInv, TypeOK, Frames
  <2> QED BY <2>1, <2>2 DEF SpDist, SbDist
<1>2. /\ e \in Int /\ 3 <= e /\ e <= m_size + 1 /\ m_size - e + 2 = act.sp
      /\ m_size - e + 1 = act.sp - 1 /\ e >= d[n] + 2 /\ act.sp + 3 <= m_size
  <2>1. 3 <= d[n] /\ d[n] \in Int /\ d[n] <= m_size - act.sp
    BY <1>1, FramesInOrder
  <2>2. e = m_size - act.sp + 2
    BY <1>1
  <2>3. m_size \in Nat /\ act.sp \in Int /\ act.sp >= 2
    BY <1>1
  <2> DEFINE b == d[n]
             p == act.sp
  <2>4. /\ p \in Int /\ p >= 2 /\ b \in Int /\ 3 <= b /\ b <= m_size - p
        /\ e = m_size - p + 2
    BY <2>1, <2>2, <2>3
  <2> HIDE DEF e, b, p
  <2>5. /\ e \in Int /\ 3 <= e /\ e <= m_size + 1 /\ m_size - e + 2 = p
        /\ m_size - e + 1 = p - 1 /\ e >= b + 2 /\ p + 3 <= m_size
    BY <2>3, <2>4, PushedAt
  <2> QED BY <2>5 DEF b, p
<1> HIDE DEF e
<1>3. f \in [0 .. n + 1 -> Int] /\ f[n + 1] = e /\ \A k \in 0 .. n : f[k] = d[k]
  <2>1. n \in Nat /\ d \in [0 .. n -> Int] /\ e \in Int
    BY <1>1, <1>2
  <2> QED BY <2>1, OneMore
<1> HIDE DEF f
<1>4. ASSUME NEW k \in 0 .. n
      PROVE  /\ m_stack'[m_size - d[k] + 1] = m_stack[m_size - d[k] + 1]
             /\ RecordAt(d[k])' <=> RecordAt(d[k])
  <2>1. d[k] \in Int /\ 3 <= d[k] /\ d[k] <= m_size + 1 /\ d[k] <= SbDist(act)
    BY FramesInOrder
  <2>2. \A j \in 0 .. m_size - 1 : j > m_size - d[k] => m_stack'[j] = m_stack[j]
    <3> SUFFICES ASSUME NEW j \in 0 .. m_size - 1, j > m_size - d[k]
                 PROVE  j > act.sp
      OBVIOUS
    <3>1. m_size \in Nat /\ act.sp \in Int /\ d[k] \in Int /\ d[k] <= m_size - act.sp
      BY <1>1, <2>1
    <3> QED BY <3>1, Above
  <2> QED BY <2>1, <2>2, RecordKept
<1>5. /\ RecordAt(e)'
      /\ m_stack'[m_size - e + 1].way = way /\ m_stack'[m_size - e + 1].offset = d[n]
  <2>1. DOMAIN m_stack' = 0 .. m_size - 1 /\ m_size' = m_size
    BY DEF StackKept
  <2>2. act.sp - 1 \in 0 .. m_size - 1 /\ act.sp \in 0 .. m_size - 1
    <3>1. ASSUME NEW sp \in Int, NEW m \in Nat, sp >= 2, sp + 3 <= m
          PROVE  sp - 1 \in 0 .. m - 1 /\ sp \in 0 .. m - 1
      BY <3>1
    <3> QED BY <1>1, <1>2, <3>1
  <2>3. RetBp(way, SbDist(act)).is = "ret_bp" /\ RetAddr(ip).is = "ret_addr"
        /\ RetBp(way, SbDist(act)).way = way /\ RetBp(way, SbDist(act)).offset = SbDist(act)
    BY DEF RetBp, RetAddr
  <2> QED BY <1>1, <1>2, <2>1, <2>2, <2>3 DEF RecordAt
<1>6. \A k, l \in 0 .. n + 1 : k < l => f[l] - f[k] >= 2 * (l - k)
  <2> SUFFICES ASSUME NEW k \in 0 .. n + 1, NEW l \in 0 .. n + 1, k < l
               PROVE  f[l] - f[k] >= 2 * (l - k)
    OBVIOUS
  <2>1. k \in 0 .. n /\ f[k] = d[k] /\ d[k] \in Int /\ d[n] \in Int
    BY <1>1, <1>3
  <2>2. CASE l = n + 1
    <3>1. k < n => d[n] - d[k] >= 2 * (n - k)
      BY <1>1, <2>1 DEF Frames
    <3>2. k = n \/ k < n
      BY <1>1, <2>1, LastOrBefore
    <3>3. e - d[k] >= 2 * (n + 1 - k)
      BY <1>1, <1>2, <2>1, <3>1, <3>2
    <3>4. f[l] = e /\ f[k] = d[k] /\ l = n + 1
      BY <1>3, <2>1, <2>2
    <3>5. f[l] - f[k] = e - d[k] /\ 2 * (l - k) = 2 * (n + 1 - k)
      BY <1>1, <1>2, <2>1, <3>4
    <3> QED BY <3>3, <3>5
  <2>3. CASE l # n + 1
    <3>1. l \in 0 .. n /\ f[l] = d[l]
      BY <1>1, <1>3, <2>3
    <3> QED BY <2>1, <3>1 DEF Frames
  <2> QED BY <2>2, <2>3
<1>7. \A k \in 0 .. n + 1 : RecordAt(f[k])' =>
        LET record == m_stack'[m_size' - f[k] + 1] IN
          IF k = 0 THEN record.way = "FROM_NATIVE"
                   ELSE record.way # "FROM_NATIVE" /\ record.offset = f[k - 1]
  <2> SUFFICES ASSUME NEW k \in 0 .. n + 1, RecordAt(f[k])'
               PROVE  LET record == m_stack'[m_size - f[k] + 1] IN
                        IF k = 0 THEN record.way = "FROM_NATIVE"
                        ELSE record.way # "FROM_NATIVE" /\ record.offset = f[k - 1]
    BY DEF StackKept
  <2>1. CASE k = n + 1
    <3>1. k # 0 /\ f[k] = e /\ k - 1 = n /\ n \in 0 .. n
      BY <1>1, <1>3, <2>1
    <3>2. f[k - 1] = d[n] /\ way # "FROM_NATIVE"
      BY <1>3, <3>1
    <3> QED BY <1>5, <3>1, <3>2
  <2>2. CASE k # n + 1
    <3>1. k \in 0 .. n /\ f[k] = d[k] /\ (k # 0 => k - 1 \in 0 .. n)
      BY <1>1, <1>3, <2>2
    <3>2. k # 0 => f[k - 1] = d[k - 1]
      BY <1>3, <3>1
    <3>3. RecordAt(d[k]) /\ m_stack'[m_size - d[k] + 1] = m_stack[m_size - d[k] + 1]
      BY <1>4, <3>1
    <3> QED BY <3>1, <3>2, <3>3 DEF Frames
  <2> QED BY <2>1, <2>2
<1>8. version' = 0 => \A k \in 0 .. n + 1 : RecordAt(f[k])'
  <2> SUFFICES ASSUME version' = 0, NEW k \in 0 .. n + 1 PROVE RecordAt(f[k])'
    OBVIOUS
  <2>1. CASE k = n + 1
    <3>1. f[k] = e
      BY <1>3, <2>1
    <3> QED BY <1>5, <3>1
  <2>2. CASE k # n + 1
    <3>1. k \in 0 .. n /\ f[k] = d[k]
      BY <1>1, <1>3, <2>2
    <3>2. RecordAt(d[k])
      BY <3>1 DEF Frames, StackKept
    <3> QED BY <1>4, <3>1, <3>2
  <2> QED BY <2>1, <2>2
<1>9. /\ SbDist(new) = e /\ SpDist(new) = e /\ n + 1 \in Nat /\ m_size' = m_size
      /\ f[0] = new.base /\ new.base >= 3
  <2>1. new.size = m_size /\ new.sb = act.sp - 2 /\ new.sp = act.sp - 2
    OBVIOUS
  <2>2. f[0] = d[0]
    BY <1>1, <1>3
  <2>3. d[0] = act.base /\ act.base >= 3 /\ m_size' = m_size
    BY DEF Frames, StackKept
  <2>4. m_size \in Nat /\ act.sp \in Int /\ e = m_size - act.sp + 2 /\ n \in Nat
    BY <1>1 DEF e
  <2>5. SbDist(new) = e /\ SpDist(new) = e
    BY <2>1, <2>4 DEF SbDist, SpDist
  <2> QED BY <2>2, <2>3, <2>4, <2>5
<1>10. Frames(new, n + 1, f)'
  BY <1>2, <1>3, <1>6, <1>7, <1>8, <1>9 DEF Frames, SbDist, SpDist
<1> QED BY <1>10

\* A return that does not end the loop goes back to the frame before.
LEMMA FramesPopped ==
  ASSUME IInv, StackKept, NEW act \in Acts, NEW n, NEW d, Frames(act, n, d),
         act.size = m_size, RecordAt(SbDist(act)),
         m_stack[act.sb + 1].way # "FROM_NATIVE",
         \A k \in 0 .. m_size - 1 : k > act.sb + 2 => m_stack'[k] = m_stack[k],
         NEW new \in Acts, new.base = act.base, new.size = m_size,
         new.sp = act.sb, new.sb = act.size - m_stack[act.sb + 1].offset
  PROVE  \E m, f : Frames(new, m, f)'
<1>1. /\ n \in Nat /\ m_size \in Nat /\ act.sb \in Int /\ SbDist(act) = m_size - act.sb
      /\ d[n] = SbDist(act) /\ d \in [0 .. n -> Int] /\ m_size' = m_size /\ version' = version
      /\ m_size - d[n] + 1 = act.sb + 1
  <2>1. n \in Nat /\ d[n] = SbDist(act) /\ d \in [0 .. n -> Int]
    BY DEF Frames
  <2>2. m_size \in Nat /\ m_size' = m_size /\ version' = version
    BY DEF IInv, TypeOK, StackKept
  <2>3. act.sb \in Int
    BY DEF Acts
  <2>4. SbDist(act) = m_size - act.sb
    BY DEF SbDist
  <2> QED BY <2>1, <2>2, <2>3, <2>4
<1>2. n # 0 /\ m_stack[act.sb + 1].offset = d[n - 1]
  <2>1. n \in 0 .. n /\ RecordAt(d[n]) /\ m_stack[m_size - d[n] + 1] = m_stack[act.sb + 1]
    BY <1>1
  <2>2. IF n = 0 THEN m_stack[m_size - d[n] + 1].way = "FROM_NATIVE"
        ELSE m_stack[m_size - d[n] + 1].offset = d[n - 1]
    BY <2>1 DEF Frames
  <2> QED BY <2>1, <2>2
<1> DEFINE m == n - 1
           f == [k \in 0 .. m |-> d[k]]
<1>3. m \in Nat /\ m < n /\ m \in 0 .. n /\ n = m + 1
  <2>1. n \in Nat /\ n # 0
    BY <1>1, <1>2
  <2> QED BY <2>1
<1>4. new.sb = m_size - d[m] /\ d[m] \in Int
  BY <1>1, <1>2, <1>3
<1> HIDE DEF m
<1>5. f \in [0 .. m -> Int] /\ \A k \in 0 .. m : k \in 0 .. n /\ f[k] = d[k]
  BY <1>1, <1>3
<1> HIDE DEF f
<1>6. ASSUME NEW k \in 0 .. m
      PROVE  /\ m_stack'[m_size - d[k] + 1] = m_stack[m_size - d[k] + 1]
             /\ RecordAt(d[k])' <=> RecordAt(d[k])
  <2>1. k \in 0 .. n /\ k < n
    BY <1>3
  <2>2. d[k] \in Int /\ 3 <= d[k] /\ d[k] <= m_size + 1 /\ d[k] + 2 <= SbDist(act)
    BY <2>1, FramesInOrder
  <2>4. ASSUME NEW j \in Int, NEW e \in Int, NEW m1 \in Int, NEW sb \in Int,
               e + 2 <= m1 - sb, j > m1 - e
        PROVE  j > sb + 2
    BY <2>4
  <2>5. d[k] + 2 <= m_size - act.sb /\ m_size \in Int
    BY <1>1, <2>2
  <2>6. \A j \in 0 .. m_size - 1 : j > m_size - d[k] => j > act.sb + 2
    <3> SUFFICES ASSUME NEW j \in 0 .. m_size - 1, j > m_size - d[k] PROVE j > act.sb + 2
      OBVIOUS
    <3>1. j \in Int /\ act.sb \in Int /\ d[k] \in Int
      BY <1>1, <2>2
    <3> QED BY <2>4, <2>5, <3>1
  <2>3. \A j \in 0 .. m_size - 1 : j > m_size - d[k] => m_stack'[j] = m_stack[j]
    BY <2>6
  <2> QED BY <2>2, <2>3, RecordKept
<1>7. \A k \in 0 .. m : RecordAt(f[k])' =>
        LET record == m_stack'[m_size' - f[k] + 1] IN
          IF k = 0 THEN record.way = "FROM_NATIVE"
                   ELSE record.way # "FROM_NATIVE" /\ record.offset = f[k - 1]
  <2> SUFFICES ASSUME NEW k \in 0 .. m, RecordAt(f[k])'
               PROVE  LET record == m_stack'[m_size - f[k] + 1] IN
                        IF k = 0 THEN record.way = "FROM_NATIVE"
                        ELSE record.way # "FROM_NATIVE" /\ record.offset = f[k - 1]
    BY <1>1
  <2>1. k \in 0 .. n /\ f[k] = d[k] /\ (k # 0 => k - 1 \in 0 .. m)
    BY <1>3, <1>5
  <2>2. k # 0 => f[k - 1] = d[k - 1]
    BY <1>5, <2>1
  <2>3. RecordAt(d[k]) /\ m_stack'[m_size - d[k] + 1] = m_stack[m_size - d[k] + 1]
    BY <1>6, <2>1
  <2> QED BY <2>1, <2>2, <2>3 DEF Frames
<1>8. version' = 0 => \A k \in 0 .. m : RecordAt(f[k])'
  BY <1>1, <1>5, <1>6 DEF Frames
<1>9. \A k, l \in 0 .. m : k < l => f[l] - f[k] >= 2 * (l - k)
  BY <1>5 DEF Frames
<1>10. /\ SbDist(new) = d[m] /\ SpDist(new) = SbDist(act) /\ d[m] <= SbDist(act)
       /\ d[m] <= m_size + 1
  <2>1. m_size \in Nat /\ new.size = m_size /\ new.sp = act.sb
    BY <1>1
  <2>2. d[m] <= SbDist(act) /\ d[m] <= m_size + 1
    BY <1>3, FramesInOrder
  <2>3. SbDist(new) = m_size - (m_size - d[m]) /\ SpDist(new) = m_size - act.sb
    BY <1>4, <2>1 DEF SbDist, SpDist
  <2>4. m_size - (m_size - d[m]) = d[m]
    BY <1>4, <2>1, Back
  <2> QED BY <1>1, <2>2, <2>3, <2>4
<1>11. f[m] = d[m] /\ f[0] = new.base /\ new.base >= 3
  BY <1>3, <1>5 DEF Frames
<1>12. Frames(new, m, f)'
  <2>1. f[m] = SbDist(new) /\ f[m] <= m_size + 1 /\ f[m] <= SpDist(new)
    BY <1>10, <1>11
  <2> QED BY <1>1, <1>3, <1>5, <1>7, <1>8, <1>9, <1>11, <2>1 DEF Frames, SbDist, SpDist
<1> QED BY <1>12
-----------------------------------------------------------------------------
(***************************************************************************)
(* What the steps do to the frames.                                        *)
(***************************************************************************)
\* From position p on, the stack is not written.
Unwritten(p) == \A k \in 0 .. m_size - 1 : k >= p => m_stack'[k] = m_stack[k]

OthersSame ==
  acts # <<>> /\ Len(acts') = Len(acts) /\ \A a \in 1 .. Len(acts) - 1 : acts'[a] = acts[a]

TopIs(sp, sb, mode) ==
  /\ OthersSame
  /\ Top'.base = Top.base /\ Top'.size = Top.size
  /\ Top'.sp = sp /\ Top'.sb = sb /\ Top'.mode = mode

\* Above the frame its invoke pushed.
Beyond(act) == m_size - act.base + 3

\* The loop stays in its frame and writes one of its cells, or none, ...
Writes ==
  m_stack' = m_stack \/ \E w : Writable(Top, w) /\ m_stack' = [m_stack EXCEPT ![w] = Data]

Stays ==
  /\ StackKept /\ Writes
  /\ \E sp : sp <= Top.sb /\ TopIs(sp, Top.sb, "run")

\* ... pushes a frame and goes into it, ...
Calls ==
  /\ StackKept /\ Unwritten(Top.sp + 1) /\ Top.sp >= 2
  /\ \E way \in {"NEAR", "FAR"} : \E ip :
       /\ m_stack'[Top.sp - 1] = RetBp(way, SbDist(Top))
       /\ m_stack'[Top.sp] = RetAddr(ip)
  /\ \E mode :
       /\ TopIs(Top.sp - 2, Top.sp - 2, mode)
       /\ mode # "run" => m_sp' = Top.sp - 2

\* ... or goes back to the frame before.
Returns ==
  /\ StackKept /\ Unwritten(Top.sb + 3)
  /\ RecordAt(SbDist(Top)) /\ m_stack[Top.sb + 1].way # "FROM_NATIVE"
  /\ TopIs(Top.sb, Top.size - m_stack[Top.sb + 1].offset, "run")

\* What a SYNC may write.
SpSynced == m_sp' \in {m_sp, Top.sp, Top.sp - 2, Top.sb}

Turns == Running /\ SpSynced /\ (Stays \/ Calls \/ Returns)

Leaves ==
  /\ StackKept /\ m_sp' = m_sp
  /\ acts # <<>> /\ acts' = Front(acts)
  /\ \/ Running /\ Unwritten(Top.sb + 3)
     \/ InNative /\ m_stack' = m_stack

Extends ==
  /\ Running
  /\ m_size < MaxSize /\ m_size' = 2 * m_size /\ version' = version + 1 /\ m_stack' = NewStack
  /\ OthersSame
  /\ Top'.base = Top.base /\ SpDist(Top)' = SpDist(Top) /\ SbDist(Top)' = SbDist(Top)
  /\ Top'.mode = "run" /\ Top'.size = m_size' /\ m_sp' = Top'.sp

\* (A compiled function that returns RESYNC has set the machine's sp.)
Resumes ==
  /\ InNative
  /\ UNCHANGED stackVars
  /\ m_sp' = m_sp \/ (m_sp' = Top'.sp /\ Top'.size = m_size)
  /\ OthersSame
  /\ Top'.base = Top.base /\ SpDist(Top)' = SpDist(Top) /\ SbDist(Top)' = SbDist(Top)
  /\ Top'.mode = "run"

Enters ==
  /\ StackKept /\ m_sp' = m_sp - 3 /\ m_sp >= 2
  /\ acts = <<>> \/ InNative
  /\ \E ip : m_stack' = [m_stack EXCEPT ![m_sp - 2] = RetBp("FROM_NATIVE", m_size - m_sb),
                                        ![m_sp - 1] = RetAddr(ip)]
  /\ \E act \in Acts :
       /\ acts' = Append(acts, act)
       /\ act.sp = m_sp - 3 /\ act.sb = m_sp - 3 /\ act.size = m_size
       /\ act.mode = "run" /\ act.base = m_size - (m_sp - 3)

Halts ==
  /\ status' # "ok" /\ UNCHANGED <<m_size, version>>
  /\ m_stack' = m_stack \/ (Running /\ Unwritten(Beyond(Top)))

Fields ==
  {"ip", "env", "sp", "sb", "version", "size", "mode", "redo", "assured", "base"}

LEMMA ActFields ==
  ASSUME NEW act \in Acts
  PROVE  DOMAIN act = Fields
BY DEF Acts, Fields

\* The numbers of the loop that runs.
LEMMA TopNumbers ==
  ASSUME IInv, FramesHold, Running
  PROVE  /\ Top.sp \in Int /\ Top.sb \in Int /\ Top.base \in Int /\ m_size \in Nat
         /\ Top.size = m_size /\ Top.sp <= Top.sb /\ Top.sb >= -1
         /\ Top.sb <= m_size - Top.base /\ Top.base >= 3 /\ m_size <= 65534
         /\ Len(acts) \in Nat \ {0} /\ Top = acts[Len(acts)] /\ acts \in Seq(Acts)
         /\ acts # <<>> /\ Top \in Acts /\ DOMAIN Top = Fields
         /\ DOMAIN m_stack = 0 .. m_size - 1 /\ m_stack \in [0 .. m_size - 1 -> Cells]
<1>1. acts # <<>> /\ acts \in Seq(Acts) /\ Top \in Acts /\ Top.size = m_size
  BY RunningTop
<1>2. Len(acts) \in Nat \ {0} /\ Top = acts[Len(acts)] /\ Len(acts) \in 1 .. Len(acts)
  BY <1>1, TopIsAct DEF Top
<1>3. PICK n, d : Frames(Top, n, d)
  BY <1>2 DEF FramesHold, FramesAreThere
<1>4. n \in Nat /\ n \in 0 .. n /\ 0 \in 0 .. n
  BY <1>3 DEF Frames
<1>5. Top.sp \in Int /\ Top.sb \in Int /\ Top.base \in Int
  BY <1>1 DEF Acts
<1>6. /\ 3 <= d[0] /\ d[0] <= SbDist(Top) /\ d[0] = Top.base /\ d[0] \in Int
      /\ d[n] = SbDist(Top) /\ d[n] <= m_size + 1 /\ d[n] <= SpDist(Top)
  BY <1>1, <1>3, <1>4, FramesInOrder DEF Frames
<1>7. m_size \in Nat /\ m_size <= 65534 /\ m_stack \in [0 .. m_size - 1 -> Cells]
  BY DEF IInv, TypeOK, FramesHold, SmallStack
<1>8. SbDist(Top) = m_size - Top.sb /\ SpDist(Top) = m_size - Top.sp
  BY <1>1 DEF SbDist, SpDist
<1>9. Top.sp <= Top.sb /\ Top.sb >= -1 /\ Top.sb <= m_size - Top.base /\ Top.base >= 3
  BY <1>5, <1>6, <1>7, <1>8
<1> QED BY <1>1, <1>2, <1>5, <1>7, <1>9, ActFields

LEMMA SetTopIs ==
  ASSUME IInv, IInv', acts # <<>>, NEW act, SetTop(act)
  PROVE  OthersSame /\ Top' = act
<1>1. acts \in Seq(Acts) /\ acts' \in Seq(Acts) /\ Len(acts) \in Nat \ {0}
  BY TopIsAct DEF IInv, TypeOK
<1>2. acts' = [acts EXCEPT ![Len(acts)] = act]
  BY DEF SetTop, ReplaceAt
<1>3. Len(acts') = Len(acts)
  <2>1. DOMAIN acts' = 1 .. Len(acts') /\ DOMAIN acts = 1 .. Len(acts) /\ DOMAIN acts' = DOMAIN acts
    BY <1>1, <1>2
  <2>2. ASSUME NEW k \in Nat, NEW l \in Nat, k < l PROVE 1 .. k # 1 .. l
    <3>1. l \in 1 .. l /\ l \notin 1 .. k
      BY <2>2
    <3> QED BY <3>1
  <2>3. Len(acts) \in Nat /\ Len(acts') \in Nat
    BY <1>1
  <2>4. ~(Len(acts) < Len(acts')) /\ ~(Len(acts') < Len(acts))
    BY <2>1, <2>2, <2>3
  <2> QED BY <2>3, <2>4
<1>4. acts'[Len(acts)] = act /\ \A a \in 1 .. Len(acts) - 1 : acts'[a] = acts[a]
  BY <1>1, <1>2
<1>5. Top' = act
  BY <1>3, <1>4 DEF Top
<1> QED BY <1>3, <1>4, <1>5 DEF OthersSame

LEMMA GoesOn ==
  ASSUME IInv, IInv', FramesHold, Running, NEW act, DOMAIN act = Fields,
         act.base = Top.base, act.size = Top.size, NEW words, Continue(act, words)
  PROVE  TopIs(act.sp, act.sb, act.mode)
<1> DEFINE new == [act EXCEPT !.ip = After(@, words), !.redo = NoRedo]
<1>1. /\ new.base = act.base /\ new.size = act.size /\ new.sp = act.sp /\ new.sb = act.sb
      /\ new.mode = act.mode
  BY DEF Fields
<1>2. SetTop(new)
  BY DEF Continue
<1> HIDE DEF new
<1>3. OthersSame /\ Top' = new
  BY <1>2, SetTopIs, TopNumbers
<1> QED BY <1>1, <1>3 DEF TopIs

LEMMA StackTyped ==
  ASSUME IInv, IInv', UNCHANGED <<m_size, version>>
  PROVE  StackKept
BY DEF StackKept, IInv, TypeOK

\* A cell that is written leaves those behind it alone.
LEMMA WrittenAt ==
  ASSUME IInv, NEW p \in Int, NEW k \in Int, k < p, NEW v, m_stack' = [m_stack EXCEPT ![k] = v]
  PROVE  Unwritten(p)
<1>1. DOMAIN m_stack = 0 .. m_size - 1 /\ m_size \in Nat
  BY DEF IInv, TypeOK
<1> QED BY <1>1 DEF Unwritten

\* An instruction that stays in its frame: it may move sp, and write below.
LEMMA StaysInFrame ==
  ASSUME IInv, IInv', FramesHold, Running, UNCHANGED <<m_size, version>>, NoSync,
         Writes, NEW words, NEW act, DOMAIN act = Fields,
         act.base = Top.base, act.size = Top.size, act.sb = Top.sb, act.mode = Top.mode,
         act.sp <= Top.sb, Continue(act, words)
  PROVE  Turns
<1>1. Top.mode = "run"
  BY DEF Running
<1>2. TopIs(act.sp, Top.sb, "run")
  BY <1>1, GoesOn
<1>3. SpSynced
  BY DEF SpSynced, NoSync, machineVars
<1> QED BY <1>2, <1>3, StackTyped DEF Turns, Stays

\* An instruction that moves sp, or nothing, and writes below its frame.
LEMMA MovesSp ==
  ASSUME IInv, IInv', FramesHold, Running, UNCHANGED <<m_size, version>>, NoSync,
         Writes, NEW words, NEW sp, sp <= Top.sb,
         Continue([Top EXCEPT !.sp = sp], words)
  PROVE  Turns
<1> DEFINE act == [Top EXCEPT !.sp = sp]
<1>1. /\ DOMAIN act = Fields /\ act.base = Top.base /\ act.size = Top.size
      /\ act.sp = sp /\ act.sb = Top.sb /\ act.mode = Top.mode
  BY TopNumbers DEF Fields
<1>2. Continue(act, words)
  OBVIOUS
<1> HIDE DEF act
<1> QED BY <1>1, <1>2, StaysInFrame

LEMMA NothingWritten ==
  ASSUME m_stack' = m_stack, NEW p
  PROVE  Unwritten(p) /\ Writes
BY DEF Unwritten, Writes

LEMMA SlotsAreWritable ==
  ASSUME IInv, FramesHold, Running, NEW w \in Slots(Top)
  PROVE  Writable(Top, w)
<1>1. /\ Top.sp \in Int /\ Top.sb \in Int /\ Top.sp <= Top.sb /\ m_size \in Nat
      /\ DOMAIN m_stack = 0 .. m_size - 1
  BY TopNumbers
<1> QED BY <1>1 DEF Slots, Secured, Arguments, Writable

LEMMA MoveTurns ==
  ASSUME IInv, IInv', FramesHold, Move
  PROVE  Turns
<1>1. Running /\ NoSync /\ UNCHANGED <<m_size, version>>
  BY DEF Move, Fetch
<1>2. Writes
  BY <1>1, SlotsAreWritable DEF Move, Writes
<1>3. PICK words \in 1 .. 2 : Continue(Top, words)
  BY DEF Move
<1>4. DOMAIN Top = Fields /\ Top.sp <= Top.sb
  BY <1>1, TopNumbers
<1> QED BY <1>1, <1>2, <1>3, <1>4, StaysInFrame

LEMMA PopTurns ==
  ASSUME IInv, IInv', FramesHold, Pop
  PROVE  Turns
<1>1. Running /\ NoSync /\ UNCHANGED <<m_size, version>> /\ Top.sp < Top.sb
  BY DEF Pop, Fetch
<1>2. Writes
  BY <1>1, SlotsAreWritable DEF Pop, Writes
<1>3. PICK words \in 1 .. 2 : Continue([Top EXCEPT !.sp = @ + 1], words)
  BY DEF Pop
<1>4. Continue([Top EXCEPT !.sp = Top.sp + 1], words) /\ Top.sp + 1 <= Top.sb
  BY <1>1, <1>3, TopNumbers
<1> QED BY <1>1, <1>2, <1>4, MovesSp

LEMMA StoreTurns ==
  ASSUME IInv, IInv', FramesHold, Running, StoreAndDrop
  PROVE  Turns
<1>1. NoSync /\ UNCHANGED <<m_size, version>> /\ m_stack' = [m_stack EXCEPT ![Top.sp] = Data]
  BY DEF StoreAndDrop
<1>2. /\ Top.sp \in Int /\ Top.sp <= Top.sb /\ Top.sb \in Int
      /\ Top.sp - 1 <= Top.sb
  BY TopNumbers
<1>3. Writes
  BY <1>1, <1>2 DEF Writes, Writable
<1>4. PICK words \in 1 .. 2 : Continue([Top EXCEPT !.sp = Top.sp - 1], words)
  BY DEF StoreAndDrop
<1> QED BY <1>1, <1>2, <1>3, <1>4, MovesSp

LEMMA ReserveTurns ==
  ASSUME IInv, IInv', FramesHold, NEW n \in Operands, PushReserve(n) \/ PopReserve(n) \/ Assure(n)
  PROVE  Turns
<1>1. /\ Running /\ NoSync /\ UNCHANGED <<m_size, version>> /\ m_stack' = m_stack
      /\ n \in Nat
  BY VMRuntimeAssumption DEF PushReserve, PopReserve, Assure, Fetch, stackVars
<1>2. CASE PushReserve(n)
  <2>1. Continue([Top EXCEPT !.sp = Top.sp - n], 1) /\ Top.sp - n <= Top.sb
    BY <1>1, <1>2, TopNumbers DEF PushReserve
  <2> QED BY <1>1, <2>1, NothingWritten, MovesSp
<1>3. CASE PopReserve(n)
  <2>1. Continue([Top EXCEPT !.sp = Top.sp + n], 1) /\ Top.sp + n <= Top.sb
    BY <1>3 DEF PopReserve
  <2> QED BY <1>1, <2>1, NothingWritten, MovesSp
<1>4. CASE Assure(n)
  <2> DEFINE act == [Top EXCEPT !.assured = Top.size - Top.sp + n]
  <2>1. /\ DOMAIN act = Fields /\ act.base = Top.base /\ act.size = Top.size
        /\ act.sp = Top.sp /\ act.sb = Top.sb /\ act.mode = Top.mode
    BY <1>1, TopNumbers DEF Fields
  <2>2. Continue(act, 1)
    BY <1>4 DEF Assure
  <2> HIDE DEF act
  <2>3. Writes
    BY <1>1, NothingWritten
  <2>4. act.sp <= Top.sb
    BY <1>1, <2>1, TopNumbers
  <2> QED BY <1>1, <2>1, <2>2, <2>3, <2>4, StaysInFrame
<1> QED BY <1>2, <1>3, <1>4

\* The slot of a RESULT with a negative operand is beyond a small stack.
LEMMA ResultSlot ==
  ASSUME NEW m \in Nat, m <= 65534, NEW k \in 0 .. m - 1, NEW sb \in Int, -1 <= sb, sb < m,
         sb + ((k - sb) % 2^16) \in 0 .. m - 1
  PROVE  sb + ((k - sb) % 2^16) = k
<1>1. 2^16 = 65536
  OBVIOUS
<1> DEFINE e == k - sb
<1>2. e \in Int /\ -65536 < e /\ e < 65536
  OBVIOUS
<1> HIDE DEF e
<1>3. e >= 0 => e % 65536 = e
  BY <1>2
<1>4. e < 0 => e % 65536 = e + 65536
  BY <1>2
<1>5. k = sb + e
  BY DEF e
<1>6. e < 0 => sb + (e % 65536) = k + 65536
  BY <1>2, <1>4, <1>5
<1> QED BY <1>1, <1>2, <1>3, <1>5, <1>6 DEF e

LEMMA ResultTurns ==
  ASSUME IInv, IInv', FramesHold, NEW n \in Operands, NEW k \in Slots(Top), Result(n, k)
  PROVE  Turns \/ Halts
<1>1. Running /\ NoSync /\ n \in Nat /\ Top.sp + 2 + n <= Top.sb
  BY VMRuntimeAssumption DEF Result, Fetch
<1>2. CASE Halt("wild")
  BY <1>2 DEF Halt, Halts, stackVars
<1>3. CASE ~Halt("wild")
  <2> DEFINE slot == Top.sb + ((k - Top.sb) % 2^16)
  <2>1. /\ slot \in DOMAIN m_stack
        /\ m_stack' = [m_stack EXCEPT ![slot] = Data]
        /\ Continue([Top EXCEPT !.sp = @ + 2 + n], 1)
        /\ UNCHANGED <<m_size, version>>
    BY <1>3 DEF Result
  <2>2. /\ Top.sb \in Int /\ Top.sb >= -1 /\ m_size \in Nat /\ m_size <= 65534
        /\ DOMAIN m_stack = 0 .. m_size - 1 /\ Top.sb < m_size
    BY <1>1, TopNumbers
  <2>3. k \in 0 .. m_size - 1
    BY <2>2 DEF Slots, Secured, Arguments
  <2>4. slot = k
    BY <2>1, <2>2, <2>3, ResultSlot
  <2> HIDE DEF slot
  <2>5. Writes
    BY <1>1, <2>1, <2>4, SlotsAreWritable DEF Writes
  <2>6. Continue([Top EXCEPT !.sp = Top.sp + 2 + n], 1)
    BY <2>1
  <2> QED BY <1>1, <2>1, <2>5, <2>6, MovesSp
<1> QED BY <1>2, <1>3

\* A push that finds the stack full does not happen: see AssuredPushFits.
LEMMA PushTurns ==
  ASSUME IInv, IInv', FramesHold, Push
  PROVE  Turns \/ Halts
<1>1. Running
  BY DEF Push, Fetch
<1>2. CASE StoreAndDrop
  BY <1>1, <1>2, StoreTurns
<1>3. CASE Halt("assert")
  BY <1>3 DEF Halt, Halts, stackVars
<1> QED BY <1>2, <1>3 DEF Push

\* What PushFrame leaves below the old sp.
LEMMA FrameIsPushed ==
  ASSUME IInv, IInv', FramesHold, Running, NEW way, PushFrame(way), Top.sp - 2 >= 0
  PROVE  /\ Unwritten(Top.sp + 1) /\ Top.sp >= 2
         /\ m_stack'[Top.sp - 1] = RetBp(way, SbDist(Top))
         /\ m_stack'[Top.sp] = RetAddr(After(Top.ip, 1))
<1>1. /\ Top.sp \in Int /\ Top.sb \in Int /\ Top.sp <= Top.sb /\ m_size \in Nat
      /\ Top.size = m_size /\ Top.sb <= m_size - Top.base /\ Top.base >= 3 /\ Top.base \in Int
      /\ DOMAIN m_stack = 0 .. m_size - 1
  BY TopNumbers
<1>2. /\ Top.sp >= 2 /\ Top.sp \in 0 .. m_size - 1 /\ Top.sp - 1 \in 0 .. m_size - 1
      /\ Top.sp # Top.sp - 1
  BY <1>1
<1>3. m_stack' = [m_stack EXCEPT ![Top.sp - 1] = RetBp(way, SbDist(Top)),
                                 ![Top.sp] = RetAddr(After(Top.ip, 1))]
  BY DEF PushFrame, SbDist
<1>4. \A k \in 0 .. m_size - 1 : k >= Top.sp + 1 => k # Top.sp /\ k # Top.sp - 1
  BY <1>1
<1> DEFINE bp == RetBp(way, SbDist(Top))
           addr == RetAddr(After(Top.ip, 1))
           sp == Top.sp
<1> HIDE DEF bp, addr
<1>5. m_stack' = [m_stack EXCEPT ![sp - 1] = bp, ![sp] = addr]
  BY <1>3 DEF bp, addr
<1>6. m_stack'[sp - 1] = bp /\ m_stack'[sp] = addr
  BY <1>1, <1>2, <1>5
<1>7. Unwritten(sp + 1)
  BY <1>1, <1>4, <1>5 DEF Unwritten
<1> QED BY <1>2, <1>6, <1>7 DEF bp, addr

\* The registers in the new frame.
LEMMA InFrameFields ==
  ASSUME IInv, FramesHold, Running
  PROVE  /\ DOMAIN InFrame = Fields /\ InFrame.base = Top.base /\ InFrame.size = Top.size
         /\ InFrame.sp = Top.sp - 2 /\ InFrame.sb = Top.sp - 2 /\ InFrame.mode = "run"
<1>1. Top.mode = "run" /\ DOMAIN Top = Fields
  BY TopNumbers DEF Running
<1> QED BY <1>1 DEF InFrame, Fields

LEMMA CallNearTurns ==
  ASSUME IInv, IInv', FramesHold, CallNear
  PROVE  Turns
<1>1. /\ Running /\ NoSync /\ UNCHANGED <<m_size, version>> /\ PushFrame("NEAR")
      /\ SetTop([InFrame EXCEPT !.ip = <<Top.env, 0>>]) /\ Top.sp - 2 >= 0
  BY DEF CallNear, Fetch, Fits, Demand
<1> DEFINE act == [InFrame EXCEPT !.ip = <<Top.env, 0>>]
<1>2. /\ act.base = Top.base /\ act.size = Top.size /\ act.mode = "run"
      /\ act.sp = Top.sp - 2 /\ act.sb = Top.sp - 2
  BY <1>1, InFrameFields DEF Fields
<1>3. SetTop(act)
  BY <1>1
<1> HIDE DEF act
<1>4. OthersSame /\ Top' = act
  BY <1>1, <1>3, SetTopIs, TopNumbers
<1>5. TopIs(Top.sp - 2, Top.sp - 2, "run")
  BY <1>2, <1>4 DEF TopIs
<1>6. StackKept /\ SpSynced
  BY <1>1, StackTyped DEF SpSynced, NoSync, machineVars
<1>7. Calls
  BY <1>1, <1>5, <1>6, FrameIsPushed DEF Calls
<1> QED BY <1>1, <1>6, <1>7 DEF Turns

LEMMA CallNativeTurns ==
  ASSUME IInv, IInv', FramesHold, CallNative
  PROVE  Turns
<1>1. /\ Running /\ UNCHANGED <<m_size, version>> /\ PushFrame("NEAR")
      /\ SetTop([InFrame EXCEPT !.mode = "native"]) /\ Top.sp - 2 >= 0
      /\ m_sp' = Top.sp - 2
  BY DEF CallNative, Fetch, Fits, Demand, Sync
<1> DEFINE act == [InFrame EXCEPT !.mode = "native"]
<1>2. /\ act.base = Top.base /\ act.size = Top.size /\ act.mode = "native"
      /\ act.sp = Top.sp - 2 /\ act.sb = Top.sp - 2
  BY <1>1, InFrameFields DEF Fields
<1>3. SetTop(act)
  BY <1>1
<1> HIDE DEF act
<1>4. OthersSame /\ Top' = act
  BY <1>1, <1>3, SetTopIs, TopNumbers
<1>5. TopIs(Top.sp - 2, Top.sp - 2, "native")
  BY <1>2, <1>4 DEF TopIs
<1>6. StackKept /\ SpSynced
  BY <1>1, StackTyped DEF SpSynced
<1>7. Calls
  BY <1>1, <1>5, <1>6, FrameIsPushed DEF Calls
<1> QED BY <1>1, <1>6, <1>7 DEF Turns

LEMMA JitReturnsTurns ==
  ASSUME IInv, IInv', FramesHold, JitReturns
  PROVE  Turns
<1>1. /\ Running /\ UNCHANGED <<m_size, version>> /\ PushFrame("FAR") /\ Top.sp - 2 >= 0
      /\ Continue(InFrame, 1) /\ NoSync
  BY DEF JitReturns, CallJit, Fetch, Fits, Demand
<1>2. TopIs(Top.sp - 2, Top.sp - 2, "run")
  BY <1>1, InFrameFields, GoesOn
<1>3. StackKept /\ SpSynced
  BY <1>1, StackTyped DEF SpSynced, NoSync, machineVars
<1>4. Calls
  BY <1>1, <1>2, <1>3, FrameIsPushed DEF Calls
<1> QED BY <1>1, <1>3, <1>4 DEF Turns

LEMMA JitResyncsTurns ==
  ASSUME IInv, IInv', FramesHold, NEW ip, JitResyncs(ip)
  PROVE  Turns
<1> DEFINE act == [InFrame EXCEPT !.ip = m_ip', !.env = m_env']
<1>1. /\ Running /\ UNCHANGED <<m_size, version>> /\ PushFrame("FAR") /\ Top.sp - 2 >= 0
      /\ Continue(act, 1) /\ m_sp' = Top.sp - 2
  BY DEF JitResyncs, CallJit, Fetch, Fits, Demand
<1>2. /\ DOMAIN act = Fields /\ act.base = Top.base /\ act.size = Top.size
      /\ act.sp = Top.sp - 2 /\ act.sb = Top.sp - 2 /\ act.mode = "run"
  BY <1>1, InFrameFields DEF Fields
<1> HIDE DEF act
<1>3. TopIs(Top.sp - 2, Top.sp - 2, "run")
  BY <1>1, <1>2, GoesOn
<1>4. StackKept /\ SpSynced
  BY <1>1, StackTyped DEF SpSynced
<1>5. Calls
  BY <1>1, <1>3, <1>4, FrameIsPushed DEF Calls
<1> QED BY <1>1, <1>4, <1>5 DEF Turns

LEMMA JitFailsLeaves ==
  ASSUME IInv, IInv', FramesHold, JitFails
  PROVE  Leaves
<1>1. /\ Running /\ UNCHANGED <<m_size, version>> /\ PushFrame("FAR") /\ Top.sp - 2 >= 0
      /\ acts' = Front(acts) /\ NoSync
  BY DEF JitFails, CallJit, Fetch, Fits, Demand
<1>2. Unwritten(Top.sp + 1) /\ Top.sp <= Top.sb /\ acts # <<>> /\ Top.sp \in Int /\ Top.sb \in Int
      /\ m_size \in Nat
  BY <1>1, FrameIsPushed, TopNumbers
<1>3. Unwritten(Top.sb + 3)
  BY <1>2 DEF Unwritten
<1> QED BY <1>1, <1>2, <1>3, StackTyped DEF Leaves, NoSync, machineVars

LEMMA JitCallsNativeTurns ==
  ASSUME IInv, IInv', FramesHold, JitCallsNative
  PROVE  Turns
<1>1. /\ Running /\ UNCHANGED <<m_size, version>> /\ PushFrame("FAR")
      /\ SetTop([InFrame EXCEPT !.mode = "jit"]) /\ Top.sp - 2 >= 0
      /\ m_sp' = Top.sp - 2
  BY DEF JitCallsNative, CallJit, Fetch, Fits, Demand, Sync
<1> DEFINE act == [InFrame EXCEPT !.mode = "jit"]
<1>2. /\ act.base = Top.base /\ act.size = Top.size /\ act.mode = "jit"
      /\ act.sp = Top.sp - 2 /\ act.sb = Top.sp - 2
  BY <1>1, InFrameFields DEF Fields
<1>3. SetTop(act)
  BY <1>1
<1> HIDE DEF act
<1>4. OthersSame /\ Top' = act
  BY <1>1, <1>3, SetTopIs, TopNumbers
<1>5. TopIs(Top.sp - 2, Top.sp - 2, "jit")
  BY <1>2, <1>4 DEF TopIs
<1>6. StackKept /\ SpSynced
  BY <1>1, StackTyped DEF SpSynced
<1>7. Calls
  BY <1>1, <1>5, <1>6, FrameIsPushed DEF Calls
<1> QED BY <1>1, <1>6, <1>7 DEF Turns

LEMMA LeftValue ==
  ASSUME IInv, IInv', FramesHold, Running, LeaveValue, UNCHANGED <<m_size, version>>
  PROVE  StackKept /\ Unwritten(Top.sb + 3)
<1>1. StackKept
  BY StackTyped
<1>2. CASE m_stack' = m_stack
  BY <1>1, <1>2, NothingWritten
<1>3. CASE m_stack' = [m_stack EXCEPT ![Top.sb + 2] = Data]
  <2>1. Top.sb + 2 \in Int /\ Top.sb + 3 \in Int /\ Top.sb + 2 < Top.sb + 3
    BY TopNumbers
  <2> QED BY <1>1, <1>3, <2>1, WrittenAt
<1> QED BY <1>2, <1>3 DEF LeaveValue

LEMMA ReturnedFields ==
  ASSUME IInv, FramesHold, Running
  PROVE  /\ DOMAIN Returned = Fields
         /\ Returned.base = Top.base /\ Returned.size = Top.size /\ Returned.mode = "run"
         /\ Returned.sp = Top.sb /\ Returned.sb = Top.size - m_stack[Top.sb + 1].offset
<1>1. Top.mode = "run" /\ DOMAIN Top = Fields
  BY TopNumbers DEF Running
<1> QED BY <1>1 DEF Returned, CallerBp, Fields

\* RET finds the record of the frame it is in.
LEMMA RecordFound ==
  ASSUME IInv, FramesHold, Running, HasFrame
  PROVE  RecordAt(SbDist(Top))
<1>1. Top.size = m_size /\ m_size \in Nat /\ Top.sb \in Int
  BY TopNumbers
<1>2. m_size - SbDist(Top) + 1 = Top.sb + 1 /\ m_size - SbDist(Top) + 2 = Top.sb + 2
  BY <1>1 DEF SbDist
<1> QED BY <1>2 DEF HasFrame, IsRecord, RecordAt

LEMMA ReturnNearTurns ==
  ASSUME IInv, IInv', FramesHold, ReturnNear
  PROVE  Turns
<1>1. /\ Running /\ HasFrame /\ m_stack[Top.sb + 1].way = "NEAR" /\ LeaveValue
      /\ Continue(Returned, 1) /\ NoSync /\ UNCHANGED <<m_size, version>>
  BY DEF ReturnNear, Fetch, Way
<1>2. TopIs(Top.sb, Top.size - m_stack[Top.sb + 1].offset, "run")
  BY <1>1, ReturnedFields, GoesOn
<1>3. SpSynced
  BY <1>1 DEF SpSynced, NoSync, machineVars
<1>4. Returns
  BY <1>1, <1>2, LeftValue, RecordFound DEF Returns
<1> QED BY <1>1, <1>3, <1>4 DEF Turns

\* Nobody else has frames where the innermost loop writes.
LEMMA NotBeyond ==
  ASSUME IInv, FramesHold, Running, Unwritten(Top.sb + 3)
  PROVE  Unwritten(Beyond(Top))
<1>1. Top.sb \in Int /\ Top.base \in Int /\ m_size \in Nat /\ Top.sb <= m_size - Top.base
  BY TopNumbers
<1>2. \A k \in 0 .. m_size - 1 : k >= m_size - Top.base + 3 => k >= Top.sb + 3
  BY <1>1
<1> QED BY <1>2 DEF Unwritten, Beyond

LEMMA ReturnFarTurns ==
  ASSUME IInv, IInv', FramesHold, ReturnFar
  PROVE  Turns \/ Halts
<1> DEFINE ip == After(Returned.ip, 1)
           act == [Returned EXCEPT !.ip = ip, !.env = ip[1], !.redo = NoRedo]
<1>1. /\ Running /\ HasFrame /\ m_stack[Top.sb + 1].way = "FAR" /\ LeaveValue
      /\ UNCHANGED <<m_size, version>> /\ m_sp' = Returned.sp
      /\ SetTop(act) \/ status' = "panic"
  BY DEF ReturnFar, Fetch, Way
<1>2. /\ DOMAIN act = Fields /\ act.base = Top.base /\ act.size = Top.size
      /\ act.sp = Top.sb /\ act.sb = Top.size - m_stack[Top.sb + 1].offset
      /\ act.mode = "run"
  BY <1>1, ReturnedFields DEF Fields
<1> HIDE DEF act
<1>3. CASE SetTop(act)
  <2>1. OthersSame /\ Top' = act
    BY <1>1, <1>3, SetTopIs, TopNumbers
  <2>2. TopIs(Top.sb, Top.size - m_stack[Top.sb + 1].offset, "run")
    BY <1>2, <2>1 DEF TopIs
  <2>3. SpSynced
    BY <1>1, ReturnedFields DEF SpSynced
  <2>4. Returns
    BY <1>1, <2>2, LeftValue, RecordFound DEF Returns
  <2> QED BY <1>1, <2>3, <2>4 DEF Turns
<1>4. CASE status' = "panic"
  BY <1>1, <1>4, LeftValue, NotBeyond DEF Halts
<1> QED BY <1>1, <1>3, <1>4

LEMMA ReturnToNativeLeaves ==
  ASSUME IInv, IInv', FramesHold, ReturnToNative
  PROVE  Leaves
<1>1. /\ Running /\ LeaveValue /\ acts' = Front(acts) /\ NoSync
      /\ UNCHANGED <<m_size, version>>
  BY DEF ReturnToNative, Fetch
<1> QED BY <1>1, LeftValue, TopNumbers DEF Leaves, NoSync, machineVars

LEMMA StackOverflowExtends ==
  ASSUME IInv, IInv', FramesHold, NEW op, NEW n, StackOverflow(op, n)
  PROVE  Extends \/ Halts
<1>1. Running
  BY DEF StackOverflow, Fetch
<1>2. CASE Sync(Top.ip, Top.sp, Top.sb) /\ Halt("panic")
  BY <1>2 DEF Halt, Halts, stackVars
<1>3. CASE ~(Sync(Top.ip, Top.sp, Top.sb) /\ Halt("panic"))
  <2> DEFINE act == [Top EXCEPT !.sp = m_sp', !.sb = m_sb', !.env = m_env,
                                !.version = version', !.size = m_size',
                                !.redo = <<op, n>>]
  <2>1. /\ ExternStack /\ SetTop(act)
        /\ m_sp' = Rebase(Top.sp) /\ m_sb' = Rebase(Top.sb)
    BY <1>3 DEF StackOverflow, Sync
  <2>2. Top.mode = "run" /\ DOMAIN Top = Fields
    BY <1>1, TopNumbers DEF Running
  <2>3. /\ act.base = Top.base /\ act.mode = "run" /\ act.size = m_size'
        /\ act.sp = m_sp' /\ act.sb = m_sb'
    BY <2>2 DEF Fields
  <2> HIDE DEF act
  <2>4. OthersSame /\ Top' = act
    BY <1>1, <2>1, SetTopIs, TopNumbers
  <2>5. /\ m_size < MaxSize /\ m_size' = 2 * m_size /\ version' = version + 1
        /\ m_stack' = NewStack
        /\ m_sp' = 2 * m_size - (m_size - Top.sp) /\ m_sb' = 2 * m_size - (m_size - Top.sb)
    BY <2>1 DEF ExternStack, Rebase
  <2>6. Top.size = m_size /\ m_size \in Nat /\ Top.sp \in Int /\ Top.sb \in Int
    BY <1>1, TopNumbers
  <2>7. /\ m_size' - m_sp' = Top.size - Top.sp
        /\ m_size' - m_sb' = Top.size - Top.sb
    BY <2>5, <2>6
  <2>8. SpDist(Top)' = SpDist(Top) /\ SbDist(Top)' = SbDist(Top)
    BY <2>3, <2>4, <2>7 DEF SpDist, SbDist
  <2> QED BY <1>1, <2>3, <2>4, <2>5, <2>8 DEF Extends
<1> QED BY <1>2, <1>3

LEMMA NativeReturnsResumes ==
  ASSUME IInv, IInv', NativeReturns
  PROVE  Resumes
<1>1. /\ InNative /\ NoSync /\ UNCHANGED stackVars /\ acts # <<>> /\ acts \in Seq(Acts)
  BY DEF NativeReturns, InNative, IInv, TypeOK
<1>2. Top \in Acts /\ DOMAIN Top = Fields
  BY <1>1, TopIsAct, ActFields
<1> DEFINE moved == [Top EXCEPT !.sp = m_size - (Top.size - Top.sp),
                                !.sb = m_size - (Top.size - Top.sb),
                                !.version = version, !.size = m_size]
           act == IF Top.version = version THEN Top ELSE moved
           new == [[act EXCEPT !.mode = "run"] EXCEPT !.ip = After(@, 1), !.redo = NoRedo]
<1>3. SetTop(new)
  BY DEF NativeReturns, Continue, Found
<1>4. /\ DOMAIN moved = Fields /\ moved.base = Top.base /\ moved.size = m_size
      /\ moved.sp = m_size - (Top.size - Top.sp) /\ moved.sb = m_size - (Top.size - Top.sb)
  BY <1>2 DEF Fields
<1>5. m_size \in Nat /\ Top.sp \in Int /\ Top.sb \in Int /\ Top.size \in Int
  BY <1>2 DEF IInv, TypeOK, Acts
<1> HIDE DEF moved
<1>6. /\ DOMAIN act = Fields /\ act.base = Top.base
      /\ act.size - act.sp = Top.size - Top.sp
      /\ act.size - act.sb = Top.size - Top.sb
  BY <1>2, <1>4, <1>5
<1> HIDE DEF act
<1>7. /\ new.base = Top.base /\ new.mode = "run"
      /\ new.size - new.sp = Top.size - Top.sp
      /\ new.size - new.sb = Top.size - Top.sb
  BY <1>6 DEF Fields
<1> HIDE DEF new
<1>8. OthersSame /\ Top' = new
  BY <1>1, <1>3, SetTopIs
<1>9. SpDist(Top)' = SpDist(Top) /\ SbDist(Top)' = SbDist(Top)
  BY <1>7, <1>8 DEF SpDist, SbDist
<1> QED BY <1>1, <1>7, <1>8, <1>9 DEF Resumes, NoSync, machineVars

LEMMA JitReturnsResumes ==
  ASSUME IInv, IInv', JitReturnsLater
  PROVE  Resumes
<1> DEFINE new == [[Top EXCEPT !.mode = "run"] EXCEPT !.ip = After(@, 1), !.redo = NoRedo]
<1>1. /\ InNative /\ NoSync /\ UNCHANGED stackVars /\ acts # <<>> /\ acts \in Seq(Acts)
      /\ SetTop(new)
  BY DEF JitReturnsLater, Continue, InNative, IInv, TypeOK
<1>2. DOMAIN Top = Fields
  BY <1>1, TopIsAct, ActFields
<1>3. /\ new.base = Top.base /\ new.mode = "run" /\ new.size = Top.size
      /\ new.sp = Top.sp /\ new.sb = Top.sb
  BY <1>2 DEF Fields
<1> HIDE DEF new
<1>4. OthersSame /\ Top' = new
  BY <1>1, SetTopIs
<1>5. SpDist(Top)' = SpDist(Top) /\ SbDist(Top)' = SbDist(Top)
  BY <1>3, <1>4 DEF SpDist, SbDist
<1> QED BY <1>1, <1>3, <1>4, <1>5 DEF Resumes, NoSync, machineVars

LEMMA JitResyncsResumes ==
  ASSUME IInv, IInv', NEW ip, JitResyncsLater(ip)
  PROVE  Resumes
<1> DEFINE sp == m_size - (Top.size - Top.sp)
           sb == m_size - (Top.size - Top.sb)
           act == [Top EXCEPT !.ip = m_ip', !.env = m_env', !.sp = m_sp', !.sb = m_sb',
                              !.version = version, !.size = m_size, !.mode = "run"]
           new == [act EXCEPT !.ip = After(@, 1), !.redo = NoRedo]
<1>1. /\ InNative /\ UNCHANGED stackVars /\ acts # <<>> /\ acts \in Seq(Acts)
      /\ m_sp' = sp /\ m_sb' = sb /\ SetTop(new)
  BY DEF JitResyncsLater, Continue, Found, InNative, IInv, TypeOK
<1>2. Top \in Acts /\ DOMAIN Top = Fields
  BY <1>1, TopIsAct, ActFields
<1>3. /\ DOMAIN act = Fields /\ act.base = Top.base /\ act.size = m_size
      /\ act.sp = m_sp' /\ act.sb = m_sb' /\ act.mode = "run"
  BY <1>2 DEF Fields
<1> HIDE DEF act
<1>4. /\ new.base = Top.base /\ new.size = m_size
      /\ new.sp = m_sp' /\ new.sb = m_sb' /\ new.mode = "run"
  BY <1>3 DEF Fields
<1> HIDE DEF new
<1>5. OthersSame /\ Top' = new
  BY <1>1, SetTopIs
<1>6. m_size \in Nat /\ Top.sp \in Int /\ Top.sb \in Int /\ Top.size \in Int
  BY <1>2 DEF IInv, TypeOK, Acts
<1>7. m_size - m_sp' = Top.size - Top.sp /\ m_size - m_sb' = Top.size - Top.sb
  BY <1>1, <1>6
<1>8. SpDist(Top)' = SpDist(Top) /\ SbDist(Top)' = SbDist(Top)
  BY <1>4, <1>5, <1>7 DEF SpDist, SbDist
<1> QED BY <1>1, <1>4, <1>5, <1>8 DEF Resumes

LEMMA NativeFailsLeaves ==
  ASSUME IInv, IInv', NativeFails
  PROVE  Leaves
<1>1. /\ InNative /\ acts' = Front(acts) /\ NoSync /\ UNCHANGED stackVars /\ acts # <<>>
  BY DEF NativeFails, InNative
<1>2. StackKept
  BY <1>1, StackTyped DEF stackVars
<1> QED BY <1>1, <1>2 DEF Leaves, NoSync, machineVars, stackVars

LEMMA InvokeEnters ==
  ASSUME IInv, IInv', NEW e \in CodeEnvs, Invoke(e)
  PROVE  Enters \/ Halts
<1>1. m_sp \in Int /\ m_sp - 3 + 1 = m_sp - 2 /\ m_sp - 3 + 2 = m_sp - 1
  BY DEF IInv, TypeOK
<1>2. CASE m_sp - 3 + 1 < 0
  BY <1>2 DEF Invoke, Halts
<1>3. CASE ~(m_sp - 3 + 1 < 0)
  <2> DEFINE act == [ip |-> <<e, 0>>, env |-> e, sp |-> m_sp - 3, sb |-> m_sp - 3,
                     version |-> version, size |-> m_size, mode |-> "run", redo |-> NoRedo,
                     assured |-> 0, base |-> m_size - (m_sp - 3)]
  <2>1. /\ UNCHANGED <<m_size, version>> /\ m_sp' = m_sp - 3 /\ acts' = Append(acts, act)
        /\ acts = <<>> \/ InNative
        /\ m_stack' = [m_stack EXCEPT ![m_sp - 3 + 1] = RetBp("FROM_NATIVE", m_size - m_sb),
                                      ![m_sp - 3 + 2] = RetAddr(m_ip)]
    BY <1>3 DEF Invoke
  <2>2. act \in Acts
    <3>1. <<e, 0>> \in Ips /\ NoRedo \in CheckedOps \cup {NoRedo}
      BY DEF Ips
    <3>2. m_size \in Nat /\ version \in Nat /\ m_size - (m_sp - 3) \in Int
      BY <1>1 DEF IInv, TypeOK
    <3> QED BY <1>1, <3>1, <3>2 DEF Acts
  <2>3. /\ act.sp = m_sp - 3 /\ act.sb = m_sp - 3 /\ act.size = m_size
        /\ act.mode = "run" /\ act.base = m_size - (m_sp - 3)
    OBVIOUS
  <2> HIDE DEF act
  <2>4. StackKept /\ m_sp >= 2
    BY <1>1, <1>3, <2>1, StackTyped
  <2> QED BY <1>1, <2>1, <2>2, <2>3, <2>4 DEF Enters
<1> QED BY <1>2, <1>3

LEMMA OthersHalt ==
  ASSUME ReturnWild \/ BadCommand
  PROVE  Halts
<1>1. CASE ReturnWild
  BY <1>1 DEF ReturnWild, Halt, Halts, stackVars
<1>2. CASE BadCommand
  BY <1>2 DEF BadCommand, Halt, Halts, stackVars
<1> QED BY <1>1, <1>2

\* Every step is one of these.
FrameStep == Turns \/ Leaves \/ Extends \/ Resumes \/ Enters \/ Halts

LEMMA NextFrameStep ==
  ASSUME IInv, IInv', FramesHold, Next
  PROVE  FrameStep
<1>1. CASE \E e \in CodeEnvs : Invoke(e)
  BY <1>1, InvokeEnters DEF FrameStep
<1>2. CASE NativeReturns \/ JitReturnsLater \/ \E ip : JitResyncsLater(ip)
  BY <1>2, NativeReturnsResumes, JitReturnsResumes, JitResyncsResumes DEF FrameStep
<1>3. CASE NativeFails
  BY <1>3, NativeFailsLeaves DEF FrameStep
<1>4. CASE Execute
  <2>1. CASE Move \/ Pop
    BY <2>1, MoveTurns, PopTurns DEF FrameStep
  <2>2. CASE PushChecked
    BY <2>2, StoreTurns DEF FrameStep, PushChecked, Fetch
  <2>3. CASE Push
    BY <2>3, PushTurns DEF FrameStep
  <2>4. ASSUME NEW n \in Operands, PushReserve(n) \/ Assure(n) \/ PopReserve(n)
        PROVE  FrameStep
    BY <2>4, ReserveTurns DEF FrameStep
  <2>5. ASSUME NEW n \in Operands, NEW k \in Slots(Top), Result(n, k)
        PROVE  FrameStep
    BY <2>5, ResultTurns DEF FrameStep
  <2>6. ASSUME NEW c \in CheckedOps, StackOverflow(c[1], c[2])
        PROVE  FrameStep
    BY <2>6, StackOverflowExtends DEF FrameStep
  <2>7. CASE CallNear \/ CallNative \/ JitReturns \/ JitCallsNative
    BY <2>7, CallNearTurns, CallNativeTurns, JitReturnsTurns, JitCallsNativeTurns DEF FrameStep
  <2>8. ASSUME NEW ip, JitResyncs(ip)
        PROVE  FrameStep
    BY <2>8, JitResyncsTurns DEF FrameStep
  <2>9. CASE JitFails \/ ReturnToNative
    BY <2>9, JitFailsLeaves, ReturnToNativeLeaves DEF FrameStep
  <2>10. CASE ReturnNear \/ ReturnFar
    BY <2>10, ReturnNearTurns, ReturnFarTurns DEF FrameStep
  <2>11. CASE ReturnWild \/ BadCommand
    BY <2>11, OthersHalt DEF FrameStep
  <2> QED BY <1>4, <2>1, <2>2, <2>3, <2>4, <2>5, <2>6, <2>7, <2>8, <2>9, <2>10, <2>11
          DEF Execute
<1> QED BY <1>1, <1>2, <1>3, <1>4 DEF Next

-----------------------------------------------------------------------------
(***************************************************************************)
(* Each of these steps keeps the frames.                                   *)
(***************************************************************************)
LEMMA ActNumbers ==
  ASSUME IInv, FramesHold, NEW a \in 1 .. Len(acts)
  PROVE  /\ acts[a] \in Acts /\ acts[a].base \in Int
         /\ SpDist(acts[a]) \in Int /\ SbDist(acts[a]) \in Int
         /\ 3 <= acts[a].base /\ acts[a].base <= SbDist(acts[a])
         /\ SbDist(acts[a]) <= SpDist(acts[a]) /\ SbDist(acts[a]) <= m_size + 1
         /\ m_size \in Nat /\ m_sp \in Int
<1>1. acts[a] \in Acts /\ m_size \in Nat /\ m_sp \in Int
  BY DEF IInv, TypeOK
<1>2. PICK n, d : Frames(acts[a], n, d)
  BY DEF FramesHold, FramesAreThere
<1>3. n \in Nat /\ n \in 0 .. n /\ 0 \in 0 .. n
  BY <1>2 DEF Frames
<1>4. /\ d[0] <= SbDist(acts[a]) /\ d[0] = acts[a].base /\ 3 <= acts[a].base
      /\ d[n] = SbDist(acts[a]) /\ d[n] <= m_size + 1 /\ d[n] <= SpDist(acts[a])
      /\ acts[a].base \in Int /\ SpDist(acts[a]) \in Int /\ SbDist(acts[a]) \in Int
  BY <1>1, <1>2, <1>3, FramesInOrder DEF Frames
<1> QED BY <1>1, <1>4

\* The loops that wait are all behind the frames of the one that runs.
LEMMA OuterDistance ==
  ASSUME IInv, FramesHold, Running, NEW a \in 1 .. Len(acts) - 1
  PROVE  /\ a \in 1 .. Len(acts) /\ a < Len(acts)
         /\ acts[a].mode # "run"
         /\ Top.sb + 3 <= m_size - SpDist(acts[a]) /\ Top.sb \in Int
         /\ Beyond(Top) <= m_size - SpDist(acts[a]) /\ Beyond(Top) \in Int
<1>1. /\ Len(acts) \in Nat \ {0} /\ Top = acts[Len(acts)] /\ Top.sb \in Int
      /\ Top.sb <= m_size - Top.base /\ Top.base \in Int /\ m_size \in Nat
  BY TopNumbers
<1>2. a \in 1 .. Len(acts) /\ a < Len(acts) /\ Len(acts) \in 1 .. Len(acts)
  BY <1>1
<1>3. Top.base >= SpDist(acts[a]) + 3
  BY <1>1, <1>2 DEF FramesHold, FramesNest
<1>4. SpDist(acts[a]) \in Int
  BY <1>2, ActNumbers
<1>5. acts[a].mode # "run"
  BY DEF IInv, OthersWait
<1>6. /\ Top.sb + 3 <= m_size - SpDist(acts[a])
      /\ m_size - Top.base + 3 <= m_size - SpDist(acts[a]) /\ m_size - Top.base + 3 \in Int
  BY <1>1, <1>3, <1>4
<1> QED BY <1>1, <1>2, <1>5, <1>6 DEF Beyond

LEMMA OuterUntouched ==
  ASSUME IInv, FramesHold, Running, Unwritten(Beyond(Top)), NEW a \in 1 .. Len(acts) - 1
  PROVE  Untouched(acts[a])
<1>1. Beyond(Top) <= m_size - SpDist(acts[a]) /\ Beyond(Top) \in Int /\ a \in 1 .. Len(acts)
  BY OuterDistance
<1>2. SbDist(acts[a]) <= SpDist(acts[a]) /\ SbDist(acts[a]) \in Int /\ SpDist(acts[a]) \in Int
      /\ m_size \in Nat
  BY <1>1, ActNumbers
<1>3. \A k \in 0 .. m_size - 1 : k > m_size - SbDist(acts[a]) => k >= Beyond(Top)
  BY <1>1, <1>2
<1> QED BY <1>3 DEF Untouched, Unwritten

\* A loop that neither moves nor is written into keeps its frames.
LEMMA LoopKept ==
  ASSUME IInv, FramesHold, StackKept, NEW a \in 1 .. Len(acts), Untouched(acts[a]),
         acts'[a] = acts[a]
  PROVE  (\E n, d : Frames(acts[a], n, d))'
<1>1. acts[a] \in Acts /\ SpDist(acts[a]) >= SbDist(acts[a])
  BY ActNumbers
<1>2. PICK n, d : Frames(acts[a], n, d)
  BY DEF FramesHold, FramesAreThere
<1>3. PICK act : act = acts[a]
  OBVIOUS
<1>4. Frames(act, n, d)'
  BY <1>1, <1>2, <1>3, UntouchedRecords, FramesKept
<1> QED BY <1>3, <1>4

\* A step of the innermost loop leaves the others, and where they are, alone.
LEMMA NestKept ==
  ASSUME IInv, IInv', FramesHold, OthersSame, Top'.base = Top.base
  PROVE  FramesNest'
<1>1. Len(acts) \in Nat \ {0} /\ Len(acts') = Len(acts)
  BY TopIsAct DEF IInv, TypeOK, OthersSame
<1>2. ASSUME NEW a \in 1 .. Len(acts), NEW b \in 1 .. Len(acts), a < b
      PROVE  acts'[b].base >= acts'[a].size - acts'[a].sp + 3
  <2>1. a \in 1 .. Len(acts) - 1 /\ acts'[a] = acts[a]
    BY <1>1, <1>2 DEF OthersSame
  <2>2. acts[b].base >= acts[a].size - acts[a].sp + 3
    BY <1>2 DEF FramesHold, FramesNest, SpDist
  <2>3. CASE b = Len(acts)
    BY <1>1, <2>1, <2>2, <2>3 DEF Top
  <2>4. CASE b # Len(acts)
    <3>1. acts'[b] = acts[b]
      BY <1>1, <2>4 DEF OthersSame
    <3> QED BY <2>1, <2>2, <3>1
  <2> QED BY <2>3, <2>4
<1> QED BY <1>1, <1>2 DEF FramesNest, SpDist

\* SYNC writes an sp below the frames of the loops that wait.
LEMMA SyncKept ==
  ASSUME IInv, FramesHold, Running, SpSynced, m_size' = m_size
  PROVE  /\ m_size - m_sp' >= 0
         /\ \A a \in 1 .. Len(acts) - 1 : acts[a].sp >= 0 /\ m_size - m_sp' >= SpDist(acts[a])
<1>1. m_size - m_sp >= 0 /\ m_sp \in Int
  BY DEF FramesHold, NativesAreSynced, IInv, TypeOK
<1>2. /\ Top.sp \in Int /\ Top.sb \in Int /\ Top.base \in Int /\ m_size \in Nat
      /\ Top.sp <= Top.sb /\ Top.sb <= m_size - Top.base /\ Top.base >= 3
  BY TopNumbers
<1>3. CASE m_sp' = m_sp
  BY <1>1, <1>3, OuterDistance DEF FramesHold, NativesAreSynced
<1>4. CASE m_sp' \in {Top.sp, Top.sp - 2, Top.sb}
  <2>1. m_sp' <= Top.sb /\ m_sp' \in Int
    <3>1. m_sp' = Top.sp \/ m_sp' = Top.sp - 2 \/ m_sp' = Top.sb
      BY <1>4
    <3>2. /\ Top.sp \in Int /\ Top.sb \in Int /\ Top.sp <= Top.sb
          /\ Top.sp - 2 \in Int /\ Top.sp - 2 <= Top.sb /\ Top.sb <= Top.sb
      BY <1>2
    <3>3. ASSUME NEW p, p \in Int /\ p <= Top.sb, m_sp' = p
          PROVE  m_sp' <= Top.sb /\ m_sp' \in Int
      BY <3>3
    <3> QED BY <3>1, <3>2, <3>3
  <2>2. ASSUME NEW a \in 1 .. Len(acts) - 1
        PROVE  acts[a].sp >= 0 /\ m_size - m_sp' >= SpDist(acts[a])
    <3>1. /\ a \in 1 .. Len(acts) /\ acts[a].mode # "run"
          /\ Top.sb + 3 <= m_size - SpDist(acts[a])
      BY OuterDistance
    <3>2. SpDist(acts[a]) \in Int /\ acts[a].sp >= 0
      BY <3>1, ActNumbers DEF FramesHold, NativesAreSynced
    <3> QED BY <1>2, <2>1, <3>1, <3>2
  <2>3. m_size - m_sp' >= 0
    <3>1. Top.sb \in Int /\ Top.sb <= m_size /\ m_size \in Int
      BY <1>2
    <3>2. ASSUME NEW p \in Int, NEW sb \in Int, NEW m \in Int, p <= sb, sb <= m
          PROVE  m - p >= 0
      BY <3>2
    <3> QED BY <2>1, <3>1, <3>2
  <2> QED BY <2>2, <2>3
<1> QED BY <1>3, <1>4 DEF SpSynced

LEMMA StaysBelow ==
  ASSUME IInv, FramesHold, Running, Stays
  PROVE  Unwritten(Beyond(Top))
<1>1. /\ Top.sb \in Int /\ Top.base \in Int /\ m_size \in Nat /\ Top.size = m_size
      /\ Top.sb <= m_size - Top.base
  BY TopNumbers
<1>2. CASE m_stack' = m_stack
  BY <1>2, NothingWritten
<1>3. CASE m_stack' # m_stack
  <2>1. PICK w : Writable(Top, w) /\ m_stack' = [m_stack EXCEPT ![w] = Data]
    BY <1>3 DEF Stays, Writes
  <2>2. w \in Int /\ w < Beyond(Top) /\ Beyond(Top) \in Int
    BY <1>1, <2>1 DEF Writable, Arguments, Beyond
  <2> QED BY <2>1, <2>2, WrittenAt
<1> QED BY <1>2, <1>3

LEMMA TurnsKeep ==
  ASSUME IInv, IInv', FramesHold, Turns
  PROVE  FramesHold'
<1>1. /\ Running /\ SpSynced /\ StackKept /\ OthersSame /\ Top'.base = Top.base
      /\ Top'.size = Top.size
  BY DEF Turns, Stays, Calls, Returns, TopIs
<1>2. /\ Top.sp \in Int /\ Top.sb \in Int /\ m_size \in Nat /\ Top.size = m_size
      /\ Top.sp <= Top.sb /\ Top \in Acts /\ Len(acts) \in Nat \ {0} /\ Top = acts[Len(acts)]
      /\ DOMAIN m_stack = 0 .. m_size - 1
  BY <1>1, TopNumbers
<1>3. Len(acts') = Len(acts) /\ Top' = acts'[Len(acts)] /\ Top' \in Acts
  BY <1>1, <1>2 DEF OthersSame, Top, IInv, TypeOK
<1>4. m_size' = m_size /\ SmallStack'
  BY <1>1 DEF FramesHold, StackKept, SmallStack
<1>5. PICK new \in Acts : new = Top'
  BY <1>3
<1>6. PICK n, d : Frames(Top, n, d)
  BY <1>2 DEF FramesHold, FramesAreThere, SmallStack
<1>7. /\ Unwritten(Beyond(Top))
      /\ \E m, f : Frames(new, m, f)'
      /\ Top'.mode # "run" => Top'.sp >= 0 /\ m_sp' = Top'.sp
  <2>1. CASE Stays
    <3>1. PICK sp : sp <= Top.sb /\ TopIs(sp, Top.sb, "run")
      BY <2>1 DEF Stays
    <3>2. new.sp \in Int /\ new.sb = Top.sb /\ new.sp <= new.sb /\ new.base = Top.base
          /\ new.size = m_size /\ Top'.mode = "run"
      BY <1>1, <1>2, <1>5, <3>1 DEF TopIs, Acts
    <3>3. SbDist(new) = SbDist(Top) /\ SpDist(new) >= SbDist(new)
      BY <1>2, <3>2 DEF SbDist, SpDist
    <3>4. Unwritten(Beyond(Top))
      BY <1>1, <2>1, StaysBelow
    <3>5. RecordsKept(n, d)
      <4>1. CASE m_stack' = m_stack
        BY <1>1, <1>2, <1>6, <4>1, UntouchedRecords DEF Untouched
      <4>2. CASE m_stack' # m_stack
        BY <1>1, <1>2, <1>6, <2>1, <4>2, WrittenRecords DEF Stays, Writes
      <4> QED BY <4>1, <4>2
    <3>6. Frames(new, n, d)'
      BY <1>1, <1>2, <1>6, <3>2, <3>3, <3>5, FramesKept
    <3> QED BY <3>2, <3>4, <3>6
  <2>2. CASE Calls
    <3>0. PICK way \in {"NEAR", "FAR"} : \E ip :
            /\ m_stack'[Top.sp - 1] = RetBp(way, SbDist(Top))
            /\ m_stack'[Top.sp] = RetAddr(ip)
      BY <2>2 DEF Calls
    <3>1. PICK ip :
            /\ m_stack'[Top.sp - 1] = RetBp(way, SbDist(Top))
            /\ m_stack'[Top.sp] = RetAddr(ip)
      BY <3>0
    <3>2. PICK mode :
            /\ TopIs(Top.sp - 2, Top.sp - 2, mode)
            /\ mode # "run" => m_sp' = Top.sp - 2
      BY <2>2 DEF Calls
    <3>3. /\ new.base = Top.base /\ new.size = m_size /\ new.sb = Top.sp - 2
          /\ new.sp = new.sb /\ new.mode = mode /\ Top.sp >= 2
      BY <1>1, <1>2, <1>5, <2>2, <3>2 DEF TopIs, Calls
    <3>4. \A k \in 0 .. m_size - 1 : k > Top.sp => m_stack'[k] = m_stack[k]
      BY <1>2, <2>2 DEF Calls, Unwritten
    <3>5. Unwritten(Beyond(Top))
      <4>1. Unwritten(Top.sb + 3)
        BY <1>2, <3>4 DEF Unwritten
      <4> QED BY <1>1, <4>1, NotBeyond
    <3>6. \E f : Frames(new, n + 1, f)'
      BY <1>1, <1>2, <1>6, <3>1, <3>3, <3>4, FramesPushed
    <3> QED BY <1>2, <1>5, <3>2, <3>3, <3>5, <3>6
  <2>3. CASE Returns
    <3>1. /\ RecordAt(SbDist(Top)) /\ m_stack[Top.sb + 1].way # "FROM_NATIVE"
          /\ Unwritten(Top.sb + 3)
          /\ new.base = Top.base /\ new.size = m_size /\ new.sp = Top.sb
          /\ new.sb = Top.size - m_stack[Top.sb + 1].offset /\ new.mode = "run"
      BY <1>1, <1>2, <1>5, <2>3 DEF TopIs, Returns
    <3>2. \A k \in 0 .. m_size - 1 : k > Top.sb + 2 => m_stack'[k] = m_stack[k]
      BY <1>2, <3>1 DEF Unwritten
    <3>3. \E m, f : Frames(new, m, f)'
      BY <1>1, <1>2, <1>6, <3>1, <3>2, FramesPopped
    <3> QED BY <1>1, <1>5, <3>1, <3>3, NotBeyond
  <2> QED BY <2>1, <2>2, <2>3 DEF Turns
<1>8. FramesAreThere'
  <2> SUFFICES ASSUME NEW a \in 1 .. Len(acts') PROVE (\E m, f : Frames(acts[a], m, f))'
    BY DEF FramesAreThere
  <2>1. CASE a = Len(acts)
    BY <1>3, <1>5, <1>7, <2>1
  <2>2. CASE a # Len(acts)
    <3>1. a \in 1 .. Len(acts) - 1 /\ a \in 1 .. Len(acts) /\ acts'[a] = acts[a]
      BY <1>1, <1>2, <1>3, <2>2 DEF OthersSame
    <3> QED BY <1>1, <1>7, <3>1, OuterUntouched, LoopKept
  <2> QED BY <2>1, <2>2
<1>9. NativesAreSynced'
  <2>1. /\ m_size' - m_sp' >= 0
        /\ \A a \in 1 .. Len(acts) - 1 : acts[a].sp >= 0 /\ m_size - m_sp' >= SpDist(acts[a])
    BY <1>1, <1>4, SyncKept
  <2>2. ASSUME NEW a \in 1 .. Len(acts'), acts'[a].mode # "run"
        PROVE  acts'[a].sp >= 0 /\ m_size' - m_sp' >= acts'[a].size - acts'[a].sp
    <3>1. CASE a = Len(acts)
      <4>1. Top'.sp >= 0 /\ m_sp' = Top'.sp /\ acts'[a] = Top'
        BY <1>3, <1>7, <2>2, <3>1
      <4>2. Top'.sp \in Int /\ Top'.size = m_size
        BY <1>1, <1>2, <1>3 DEF Acts
      <4> QED BY <1>2, <1>4, <4>1, <4>2
    <3>2. CASE a # Len(acts)
      <4>1. a \in 1 .. Len(acts) - 1 /\ acts'[a] = acts[a]
        BY <1>1, <1>2, <1>3, <3>2 DEF OthersSame
      <4> QED BY <1>4, <2>1, <4>1 DEF SpDist
    <3> QED BY <3>1, <3>2
  <2> QED BY <2>1, <2>2 DEF NativesAreSynced, SpDist
<1> QED BY <1>1, <1>4, <1>8, <1>9, NestKept DEF FramesHold, SmallStack

LEMMA LeavesKeep ==
  ASSUME IInv, IInv', FramesHold, Leaves
  PROVE  FramesHold'
<1>1. /\ StackKept /\ m_sp' = m_sp /\ acts # <<>> /\ acts' = Front(acts)
      /\ acts \in Seq(Acts) /\ acts' \in Seq(Acts) /\ m_size' = m_size
      /\ Len(acts) \in Nat \ {0}
  BY TopIsAct DEF Leaves, StackKept, IInv, TypeOK
<1>2. Len(acts') = Len(acts) - 1 /\ \A a \in 1 .. Len(acts) - 1 : acts'[a] = acts[a]
  <2>1. TopLeaves
    BY <1>1 DEF TopLeaves, StackKept
  <2>2. Len(acts') = Len(acts) - 1 /\ \A a \in 1 .. Len(acts') : acts'[a] = acts[a]
    BY <2>1, LoopsLeave
  <2> QED BY <2>2
<1>3. \A a \in 1 .. Len(acts') : a \in 1 .. Len(acts) - 1 /\ a \in 1 .. Len(acts)
  BY <1>1, <1>2
<1>4. ASSUME NEW a \in 1 .. Len(acts')
      PROVE  (\E n, d : Frames(acts[a], n, d))'
  <2>1. CASE Running /\ Unwritten(Top.sb + 3)
    <3>1. a \in 1 .. Len(acts) - 1 /\ a \in 1 .. Len(acts) /\ acts'[a] = acts[a]
      BY <1>2, <1>3
    <3>2. Unwritten(Beyond(Top))
      BY <2>1, NotBeyond
    <3> QED BY <1>1, <2>1, <3>1, <3>2, OuterUntouched, LoopKept
  <2>2. CASE m_stack' = m_stack
    BY <1>1, <1>2, <1>3, <2>2, LoopKept DEF Untouched
  <2> QED BY <2>1, <2>2 DEF Leaves
<1>5. FramesNest'
  BY <1>2, <1>3 DEF FramesHold, FramesNest, SpDist
<1>6. NativesAreSynced'
  BY <1>1, <1>2, <1>3 DEF FramesHold, NativesAreSynced, SpDist
<1> QED BY <1>1, <1>4, <1>5, <1>6 DEF FramesHold, FramesAreThere, SmallStack

LEMMA ResumesKeep ==
  ASSUME IInv, IInv', FramesHold, Resumes
  PROVE  FramesHold'
<1>1. /\ UNCHANGED stackVars /\ OthersSame /\ Top'.base = Top.base
      /\ Top'.mode = "run" /\ m_size' = m_size /\ m_stack' = m_stack /\ StackKept
  BY StackTyped DEF Resumes, stackVars
<1>2. Len(acts) \in Nat \ {0} /\ Top = acts[Len(acts)] /\ Top \in Acts
      /\ Len(acts) \in 1 .. Len(acts)
  BY <1>1, TopIsAct DEF OthersSame, IInv, TypeOK, Top
<1>3. Len(acts') = Len(acts) /\ Top' = acts'[Len(acts)] /\ Top' \in Acts
  BY <1>1, <1>2 DEF OthersSame, Top, IInv, TypeOK
<1>4. PICK new \in Acts : new = Top'
  BY <1>3
<1>5. SpDist(new) = SpDist(Top) /\ SbDist(new) = SbDist(Top) /\ new.base = Top.base
      /\ SpDist(new) >= SbDist(new)
  BY <1>1, <1>2, <1>4, ActNumbers DEF Resumes, SpDist, SbDist
<1>6. FramesAreThere'
  <2> SUFFICES ASSUME NEW a \in 1 .. Len(acts') PROVE (\E m, f : Frames(acts[a], m, f))'
    BY DEF FramesAreThere
  <2>1. CASE a = Len(acts)
    <3>1. PICK n, d : Frames(Top, n, d)
      BY <1>2 DEF FramesHold, FramesAreThere, SmallStack
    <3>2. Frames(new, n, d)'
      BY <1>1, <1>2, <1>5, <3>1, UntouchedRecords, FramesKept DEF Untouched
    <3> QED BY <1>3, <1>4, <2>1, <3>2
  <2>2. CASE a # Len(acts)
    <3>1. a \in 1 .. Len(acts) /\ acts'[a] = acts[a]
      BY <1>1, <1>2, <1>3, <2>2 DEF OthersSame
    <3> QED BY <1>1, <3>1, LoopKept DEF Untouched
  <2> QED BY <2>1, <2>2
<1>7. NativesAreSynced'
  <2>1. CASE m_sp' = m_sp
    <3> SUFFICES ASSUME NEW a \in 1 .. Len(acts'), acts'[a].mode # "run"
                 PROVE  acts'[a] = acts[a] /\ a \in 1 .. Len(acts)
      BY <1>1, <2>1 DEF FramesHold, NativesAreSynced, SpDist
    <3>1. a # Len(acts)
      BY <1>1, <1>3
    <3> QED BY <1>1, <1>2, <1>3, <3>1 DEF OthersSame
  <2>2. CASE m_sp' = Top'.sp /\ Top'.size = m_size
    <3>1. /\ m_size' - m_sp' = SpDist(Top) /\ SpDist(Top) >= Top.base /\ Top.base >= 3
          /\ SpDist(Top) \in Int /\ Top.base \in Int
      <4>1. m_size' - m_sp' = SpDist(new)
        BY <1>1, <1>4, <2>2 DEF SpDist
      <4>2. Top.base <= SbDist(Top) /\ SbDist(Top) <= SpDist(Top) /\ Top.base >= 3
            /\ SbDist(Top) \in Int /\ SpDist(Top) \in Int /\ Top.base \in Int
        BY <1>2, ActNumbers
      <4> QED BY <1>5, <4>1, <4>2
    <3>2. ASSUME NEW a \in 1 .. Len(acts'), acts'[a].mode # "run"
          PROVE  acts'[a].sp >= 0 /\ m_size' - m_sp' >= acts'[a].size - acts'[a].sp
      <4>1. a # Len(acts)
        BY <1>1, <1>3, <3>2
      <4>2. a \in 1 .. Len(acts) - 1 /\ a \in 1 .. Len(acts) /\ a < Len(acts)
            /\ acts'[a] = acts[a]
        BY <1>1, <1>2, <1>3, <4>1 DEF OthersSame
      <4>3. Top.base >= SpDist(acts[a]) + 3 /\ SpDist(acts[a]) \in Int
        BY <1>2, <4>2, ActNumbers DEF FramesHold, FramesNest
      <4>4. acts[a].sp >= 0
        BY <3>2, <4>2 DEF FramesHold, NativesAreSynced
      <4>5. m_size' - m_sp' >= SpDist(acts[a])
        BY <3>1, <4>3
      <4> QED BY <4>2, <4>4, <4>5 DEF SpDist
    <3>3. m_size' - m_sp' >= 0
      BY <3>1
    <3> QED BY <3>2, <3>3 DEF NativesAreSynced, SpDist
  <2> QED BY <2>1, <2>2 DEF Resumes
<1> QED BY <1>1, <1>6, <1>7, NestKept DEF FramesHold, SmallStack

LEMMA ExtendsKeep ==
  ASSUME IInv, IInv', FramesHold, Extends, SmallStack'
  PROVE  FramesHold'
<1>1. /\ Running /\ m_size < MaxSize /\ m_size' = 2 * m_size /\ version' = version + 1
      /\ m_stack' = NewStack /\ OthersSame /\ Top'.base = Top.base
      /\ Top'.mode = "run" /\ m_sp' = Top'.sp /\ Top'.size = m_size'
  BY DEF Extends
<1>2. /\ Len(acts) \in Nat \ {0} /\ Top = acts[Len(acts)] /\ Top \in Acts
      /\ Len(acts) \in 1 .. Len(acts) /\ m_size \in Nat
      /\ Top.base \in Int /\ Top.base >= 3
  BY <1>1, TopNumbers
<1>3. Len(acts') = Len(acts) /\ Top' = acts'[Len(acts)] /\ Top' \in Acts
  BY <1>1, <1>2 DEF OthersSame, Top, IInv, TypeOK
<1>5. PICK new \in Acts : new = Top'
  BY <1>3
<1>6. SpDist(new) = SpDist(Top) /\ SbDist(new) = SbDist(Top) /\ new.base = Top.base
  BY <1>1, <1>5 DEF Extends, SpDist, SbDist
<1>7. FramesAreThere'
  <2> SUFFICES ASSUME NEW a \in 1 .. Len(acts') PROVE (\E m, f : Frames(acts[a], m, f))'
    BY DEF FramesAreThere
  <2>1. CASE a = Len(acts)
    <3>1. PICK n, d : Frames(Top, n, d)
      BY <1>2 DEF FramesHold, FramesAreThere
    <3>2. Frames(new, n, d)'
      BY <1>1, <1>2, <1>6, <3>1, FramesExtended
    <3> QED BY <1>3, <1>5, <2>1, <3>2
  <2>2. CASE a # Len(acts)
    <3>1. a \in 1 .. Len(acts) /\ acts'[a] = acts[a]
      BY <1>1, <1>2, <1>3, <2>2 DEF OthersSame
    <3>2. PICK n, d : Frames(acts[a], n, d)
      BY <3>1 DEF FramesHold, FramesAreThere
    <3>3. PICK act \in Acts : act = acts[a]
      BY <3>1, ActNumbers
    <3>4. Frames(act, n, d)'
      BY <1>1, <3>2, <3>3, FramesExtended
    <3> QED BY <3>1, <3>3, <3>4
  <2> QED BY <2>1, <2>2
<1>8. NativesAreSynced'
  <2>1. /\ m_size' - m_sp' = SpDist(Top) /\ SpDist(Top) >= Top.base
        /\ SpDist(Top) \in Int
    <3>1. m_size' - m_sp' = SpDist(new)
      BY <1>1, <1>5 DEF SpDist
    <3>2. Top.base <= SbDist(Top) /\ SbDist(Top) <= SpDist(Top)
          /\ SbDist(Top) \in Int /\ SpDist(Top) \in Int
      BY <1>2, ActNumbers
    <3> QED BY <1>2, <1>6, <3>1, <3>2
  <2>2. ASSUME NEW a \in 1 .. Len(acts'), acts'[a].mode # "run"
        PROVE  acts'[a].sp >= 0 /\ m_size' - m_sp' >= acts'[a].size - acts'[a].sp
    <3>1. a # Len(acts)
      BY <1>1, <1>3, <2>2
    <3>2. a \in 1 .. Len(acts) - 1 /\ a \in 1 .. Len(acts) /\ a < Len(acts)
          /\ acts'[a] = acts[a]
      BY <1>1, <1>2, <1>3, <3>1 DEF OthersSame
    <3>3. Top.base >= SpDist(acts[a]) + 3 /\ SpDist(acts[a]) \in Int
      BY <1>2, <3>2, ActNumbers DEF FramesHold, FramesNest
    <3>4. acts[a].sp >= 0
      BY <2>2, <3>2 DEF FramesHold, NativesAreSynced
    <3>5. m_size' - m_sp' >= SpDist(acts[a])
      BY <1>2, <2>1, <3>3
    <3> QED BY <3>2, <3>4, <3>5 DEF SpDist
  <2>3. m_size' - m_sp' >= 0
    BY <1>2, <2>1
  <2> QED BY <2>2, <2>3 DEF NativesAreSynced, SpDist
<1> QED BY <1>1, <1>7, <1>8, NestKept DEF FramesHold

LEMMA StutterKeeps ==
  ASSUME IInv, FramesHold, UNCHANGED vars
  PROVE  FramesHold'
<1>1. /\ m_size' = m_size /\ m_stack' = m_stack /\ version' = version /\ acts' = acts
      /\ m_sp' = m_sp
  BY DEF vars, stackVars, machineVars
<1>2. StackKept
  BY <1>1 DEF StackKept, IInv, TypeOK
<1>3. \A a \in 1 .. Len(acts) : (\E n, d : Frames(acts[a], n, d))'
  BY <1>1, <1>2, LoopKept DEF Untouched
<1>4. FramesAreThere'
  BY <1>1, <1>3 DEF FramesAreThere
<1>5. FramesNest' /\ NativesAreSynced' /\ SmallStack'
  BY <1>1 DEF FramesHold, FramesNest, NativesAreSynced, SmallStack, SpDist
<1> QED BY <1>4, <1>5 DEF FramesHold

LEMMA EntersKeep ==
  ASSUME IInv, IInv', FramesHold, Enters
  PROVE  FramesHold'
<1>1. /\ StackKept /\ m_sp' = m_sp - 3 /\ m_sp >= 2 /\ m_size' = m_size /\ version' = version
      /\ (acts = <<>> \/ InNative) /\ m_sp \in Int /\ m_size \in Nat /\ acts \in Seq(Acts)
      /\ DOMAIN m_stack = 0 .. m_size - 1 /\ Len(acts) \in Nat
  <2>1. /\ m_sp \in Int /\ m_size \in Nat /\ acts \in Seq(Acts)
        /\ DOMAIN m_stack = 0 .. m_size - 1 /\ Len(acts) \in Nat
    BY DEF IInv, TypeOK
  <2> QED BY <2>1 DEF Enters, StackKept
<1>2. m_size - m_sp >= 0
  BY DEF FramesHold, NativesAreSynced
<1>3. PICK new \in Acts :
        /\ acts' = Append(acts, new)
        /\ new.sp = m_sp - 3 /\ new.sb = m_sp - 3 /\ new.size = m_size
        /\ new.mode = "run" /\ new.base = m_size - (m_sp - 3)
  BY DEF Enters
<1>4. /\ Len(acts') = Len(acts) + 1 /\ acts'[Len(acts) + 1] = new
      /\ \A a \in 1 .. Len(acts) : acts'[a] = acts[a]
  BY <1>1, <1>3
<1>5. \A a \in 1 .. Len(acts') : a # Len(acts) + 1 => a \in 1 .. Len(acts)
  BY <1>1, <1>4
<1>6. \A a \in 1 .. Len(acts) : acts[a].mode # "run"
  <2>1. acts # <<>> => InNative /\ Top.mode # "run" /\ Top = acts[Len(acts)]
    BY <1>1 DEF InNative, Top
  <2>2. ASSUME NEW a \in 1 .. Len(acts) PROVE acts[a].mode # "run"
    <3>1. acts # <<>>
      BY <1>1
    <3>2. CASE a = Len(acts)
      BY <2>1, <3>1, <3>2
    <3>3. CASE a # Len(acts)
      BY <1>1, <3>3 DEF IInv, OthersWait
    <3> QED BY <3>2, <3>3
  <2> QED BY <2>2
<1>7. \A a \in 1 .. Len(acts) : acts[a].sp >= 0 /\ m_size - m_sp >= SpDist(acts[a])
                              /\ SpDist(acts[a]) \in Int
  BY <1>6, ActNumbers DEF FramesHold, NativesAreSynced
<1>8. PICK ip : m_stack' = [m_stack EXCEPT ![m_sp - 2] = RetBp("FROM_NATIVE", m_size - m_sb),
                                           ![m_sp - 1] = RetAddr(ip)]
  BY DEF Enters
<1>9. \A k \in 0 .. m_size - 1 : k > m_sp => m_stack'[k] = m_stack[k]
  <2>1. \A k \in 0 .. m_size - 1 : k > m_sp => k # m_sp - 2 /\ k # m_sp - 1
    BY <1>1
  <2> QED BY <1>1, <1>8, <2>1
<1>10. ASSUME NEW a \in 1 .. Len(acts)
       PROVE  (\E n, d : Frames(acts[a], n, d))'
  <2>1. /\ SbDist(acts[a]) <= SpDist(acts[a]) /\ SbDist(acts[a]) \in Int
        /\ SpDist(acts[a]) \in Int /\ m_size - m_sp >= SpDist(acts[a])
    BY <1>7, ActNumbers
  <2>2. \A k \in 0 .. m_size - 1 : k > m_size - SbDist(acts[a]) => k > m_sp
    BY <1>1, <2>1
  <2>3. Untouched(acts[a])
    BY <1>9, <2>2 DEF Untouched
  <2> QED BY <1>1, <1>4, <2>3, LoopKept
<1>11. \E n, d : Frames(new, n, d)'
  <2>0. PICK e : e = m_size - (m_sp - 3)
    OBVIOUS
  <2> DEFINE d == [k \in 0 .. 0 |-> e]
  <2>1. e \in Int /\ e >= 3 /\ e <= m_size + 1 /\ m_size - e + 1 = m_sp - 2
        /\ m_size - e + 2 = m_sp - 1 /\ m_sp - 2 \in 0 .. m_size - 1
        /\ m_sp - 1 \in 0 .. m_size - 1 /\ m_sp - 2 # m_sp - 1
    BY <1>1, <1>2, <2>0
  <2>2. SpDist(new) = e /\ SbDist(new) = e /\ new.base = e
    BY <1>1, <1>3, <2>0 DEF SpDist, SbDist
  <2>3. d \in [0 .. 0 -> Int] /\ d[0] = e /\ \A k \in 0 .. 0 : k = 0
    BY <2>1
  <2> HIDE DEF d
  <2> DEFINE bp == RetBp("FROM_NATIVE", m_size - m_sb)
             addr == RetAddr(ip)
             p == m_sp - 2
             q == m_sp - 1
  <2>4. bp.is = "ret_bp" /\ bp.way = "FROM_NATIVE" /\ addr.is = "ret_addr"
    BY DEF RetBp, RetAddr
  <2>5. m_stack' = [m_stack EXCEPT ![p] = bp, ![q] = addr]
    BY <1>8
  <2>6. p \in DOMAIN m_stack /\ q \in DOMAIN m_stack /\ p # q
    BY <1>1, <2>1
  <2> HIDE DEF bp, addr, p, q
  <2>7. m_stack'[p] = bp /\ m_stack'[q] = addr
    BY <2>5, <2>6
  <2>8. RecordAt(e)' /\ m_stack'[m_size - e + 1].way = "FROM_NATIVE"
    <3>1. p = m_size - e + 1 /\ q = m_size - e + 2
      BY <2>1 DEF p, q
    <3>2. DOMAIN m_stack' = DOMAIN m_stack
      BY <2>5
    <3>3. m_size' - e + 1 = p /\ m_size' - e + 2 = q
      BY <1>1, <3>1
    <3>4. m_stack'[p].is = "ret_bp" /\ m_stack'[q].is = "ret_addr"
          /\ m_stack'[p].way = "FROM_NATIVE"
      BY <2>4, <2>7
    <3>5. p \in DOMAIN m_stack' /\ q \in DOMAIN m_stack'
      BY <2>6, <3>2
    <3>6. RecordAt(e)'
      BY <3>3, <3>4, <3>5 DEF RecordAt
    <3> QED BY <3>1, <3>4, <3>6
  <2>9. Frames(new, 0, d)'
    BY <1>1, <2>1, <2>2, <2>3, <2>8 DEF Frames, SpDist, SbDist
  <2> QED BY <2>9
<1>12. FramesAreThere'
  <2> SUFFICES ASSUME NEW a \in 1 .. Len(acts') PROVE (\E n, d : Frames(acts[a], n, d))'
    BY DEF FramesAreThere
  <2>1. CASE a = Len(acts) + 1
    BY <1>4, <1>11, <2>1
  <2>2. CASE a # Len(acts) + 1
    BY <1>5, <1>10, <2>2
  <2> QED BY <2>1, <2>2
<1>13. FramesNest'
  <2>1. ASSUME NEW a \in 1 .. Len(acts'), NEW b \in 1 .. Len(acts'), a < b
        PROVE  acts'[b].base >= acts'[a].size - acts'[a].sp + 3
    <3>1. a \in 1 .. Len(acts) /\ acts'[a] = acts[a]
      BY <1>1, <1>4, <2>1
    <3>2. CASE b = Len(acts) + 1
      <4>1. acts'[b].base = m_size - (m_sp - 3)
        BY <1>3, <1>4, <3>2
      <4>2. m_size - (m_sp - 3) >= SpDist(acts[a]) + 3
        BY <1>1, <1>7, <3>1
      <4> QED BY <3>1, <4>1, <4>2 DEF SpDist
    <3>3. CASE b # Len(acts) + 1
      <4>1. b \in 1 .. Len(acts) /\ acts'[b] = acts[b]
        BY <1>4, <1>5, <3>3
      <4> QED BY <2>1, <3>1, <4>1 DEF FramesHold, FramesNest, SpDist
    <3> QED BY <3>2, <3>3
  <2> QED BY <2>1 DEF FramesNest, SpDist
<1>14. NativesAreSynced'
  <2>1. ASSUME NEW a \in 1 .. Len(acts'), acts'[a].mode # "run"
        PROVE  acts'[a].sp >= 0 /\ m_size' - m_sp' >= acts'[a].size - acts'[a].sp
    <3>1. a # Len(acts) + 1
      BY <1>3, <1>4, <2>1
    <3>2. a \in 1 .. Len(acts) /\ acts'[a] = acts[a]
      BY <1>4, <1>5, <3>1
    <3>3. m_size - (m_sp - 3) >= SpDist(acts[a]) /\ acts[a].sp >= 0
      BY <1>1, <1>7, <3>2
    <3> QED BY <1>1, <3>2, <3>3 DEF SpDist
  <2>2. m_size' - m_sp' >= 0
    BY <1>1, <1>2
  <2> QED BY <2>1, <2>2 DEF NativesAreSynced, SpDist
<1> QED BY <1>1, <1>12, <1>13, <1>14 DEF FramesHold, SmallStack

LEMMA NextKeeps ==
  ASSUME IInv, IInv', FramesHold, Next, SmallStack', status' = "ok"
  PROVE  FramesHold'
BY NextFrameStep, TurnsKeep, LeavesKeep, ExtendsKeep, ResumesKeep, EntersKeep
   DEF FrameStep, Halts

\* The process has not ended where it takes a step.
LEMMA NextWhileOk ==
  ASSUME Next
  PROVE  status = "ok"
<1>1. CASE \E e \in CodeEnvs : Invoke(e)
  BY <1>1 DEF Invoke
<1>2. CASE NativeReturns \/ NativeFails \/ JitReturnsLater
  BY <1>2 DEF NativeReturns, NativeFails, JitReturnsLater, InNative
<1>3. CASE \E ip \in CodeEnvs \X (0 .. MaxCode - 1) : JitResyncsLater(ip)
  BY <1>3 DEF JitResyncsLater, InNative
<1>4. CASE Execute
  <2>1. Running
    BY <1>4 DEF Execute, Move, PushChecked, Push, Pop, PushReserve, Assure, PopReserve,
       StackOverflow, CallNear, CallNative, JitReturns, JitFails, JitCallsNative, JitResyncs,
       CallJit, ReturnNear, ReturnToNative, ReturnFar, ReturnWild, BadCommand, Fetch
  <2> QED BY <2>1 DEF Running
<1> QED BY <1>1, <1>2, <1>3, <1>4 DEF Next

\* The stack keeps its size as long as it keeps its version.
LEMMA SizeOfVersion ==
  ASSUME IInv, [Next]_vars
  PROVE  m_size <= m_size' /\ (version' = 0 => version = 0 /\ m_size' = m_size)
<1>1. m_size \in Nat /\ version \in Nat
  BY DEF IInv, TypeOK
<1>2. CASE Next
  <2>1. LoopStep
    BY <1>2, EveryStep
  <2>2. Grows \/ (m_size' = m_size /\ version' = version)
    BY <2>1 DEF LoopStep, TopMoves, TopLeaves, LoopEnters, Stops
  <2>3. m_size' \in Nat /\ version' \in Nat
    BY <1>2, EveryStep DEF MachineOK
  <2> QED BY <1>1, <2>2, <2>3 DEF Grows
<1>3. CASE UNCHANGED vars
  BY <1>1, <1>3 DEF vars, stackVars
<1> QED BY <1>2, <1>3

LEMMA FInvHolds == Spec => []FInv
<1>1. Init => FInv
  <2> SUFFICES ASSUME Init PROVE FInv
    OBVIOUS
  <2>1. acts = <<>> /\ m_size = BeginSize /\ m_sp = BeginSize - 1 /\ BeginSize \in Nat
    BY VMRuntimeAssumption DEF Init
  <2>2. \A a \in 1 .. Len(acts) : FALSE
    BY <2>1
  <2>3. m_size - m_sp >= 0
    BY <2>1
  <2> QED BY <2>1, <2>2, <2>3 DEF FInv, FramesHold, FramesAreThere, FramesNest, NativesAreSynced
<1>2. IInv /\ IInv' /\ FInv /\ [Next]_vars => FInv'
  <2> SUFFICES ASSUME IInv, IInv', FInv, [Next]_vars PROVE FInv'
    OBVIOUS
  <2>1. m_size <= m_size' /\ (version' = 0 => version = 0 /\ m_size' = m_size)
        /\ m_size \in Nat /\ m_size' \in Nat
    BY SizeOfVersion DEF IInv, TypeOK
  <2>2. ASSUME SmallStack', status' = "ok" PROVE FramesHold'
    <3>1. status = "ok" => FramesHold
      BY <2>1, <2>2 DEF FInv, SmallStack
    <3>2. CASE Next
      BY <2>2, <3>1, <3>2, NextKeeps, NextWhileOk
    <3>3. CASE UNCHANGED vars
      BY <2>2, <3>1, <3>3, StutterKeeps DEF vars
    <3> QED BY <3>2, <3>3
  <2>3. SmallStack' /\ status' = "ok" => FramesHold'
    BY <2>2
  <2> QED BY <2>1, <2>3 DEF FInv
<1> QED BY <1>1, <1>2, Always, PTL DEF Spec

-----------------------------------------------------------------------------
(***************************************************************************)
(* The saved bps lead from the innermost frame of a loop to that of its    *)
(* invoke.                                                                 *)
(***************************************************************************)
\* What a saved bp says while no record was lost.
LEMMA OneFrameUp ==
  ASSUME IInv, NEW act \in Acts, act.size = m_size, version = 0,
         NEW n, NEW d, Frames(act, n, d), NEW k \in 0 .. n
  PROVE  /\ IsRecord(m_size - d[k])
         /\ k = 0 => m_stack[m_size - d[k] + 1].way = "FROM_NATIVE"
         /\ k # 0 => /\ m_stack[m_size - d[k] + 1].way # "FROM_NATIVE"
                     /\ CallerBp(act, m_size - d[k]) = m_size - d[k - 1]
<1>1. RecordAt(d[k])
  BY DEF Frames
<1>2. IF k = 0 THEN m_stack[m_size - d[k] + 1].way = "FROM_NATIVE"
      ELSE /\ m_stack[m_size - d[k] + 1].way # "FROM_NATIVE"
           /\ m_stack[m_size - d[k] + 1].offset = d[k - 1]
  BY <1>1 DEF Frames
<1>3. IsRecord(m_size - d[k])
  BY <1>1 DEF RecordAt, IsRecord
<1> QED BY <1>2, <1>3 DEF CallerBp

\* One application of the recursive definition of bp in FramesLeadToInvoke.
Upwards(act, bp) ==
  [k \in 0 .. act.size |->
     IF k = 0 THEN act.sb
     ELSE IF IsRecord(bp[k - 1]) /\ m_stack[bp[k - 1] + 1].way # "FROM_NATIVE"
          THEN CallerBp(act, bp[k - 1])
          ELSE bp[k - 1]]

\* The frames counted from the innermost one; the last is repeated.
Walk(act, n, d) ==
  [k \in 0 .. act.size |-> IF k <= n THEN m_size - d[n - k] ELSE m_size - d[0]]

LEMMA FramesAreFew ==
  ASSUME IInv, NEW act \in Acts, act.size = m_size, NEW n, NEW d, Frames(act, n, d)
  PROVE  /\ n \in Nat /\ n \in 0 .. act.size /\ d \in [0 .. n -> Int] /\ m_size \in Nat
         /\ act.sb = m_size - d[n] /\ act.base = d[0]
         /\ \A k \in 1 .. n : d[k - 1] < d[k]
<1>1. /\ n \in Nat /\ d \in [0 .. n -> Int] /\ m_size \in Nat /\ n \in 0 .. n
      /\ d[n] = SbDist(act) /\ d[0] = act.base /\ act.base >= 3 /\ act.sb \in Int
  BY DEF Frames, IInv, TypeOK, Acts
<1>2. act.base + 2 * n <= d[n] /\ d[n] <= m_size + 1 /\ act.base \in Int
  BY <1>1, FramesInOrder
<1>3. n \in 0 .. act.size
  BY <1>1, <1>2
<1>4. act.sb = m_size - d[n]
  BY <1>1 DEF SbDist
<1>5. ASSUME NEW k \in 1 .. n PROVE d[k - 1] < d[k]
  <2>1. k - 1 \in 0 .. n /\ k \in 0 .. n /\ k - 1 < k /\ d[k - 1] \in Int /\ d[k] \in Int
    BY <1>1
  <2>2. d[k] - d[k - 1] >= 2 * (k - (k - 1))
    BY <2>1 DEF Frames
  <2> QED BY <2>1, <2>2
<1> QED BY <1>1, <1>3, <1>4, <1>5

LEMMA WalkGoesUp ==
  ASSUME IInv, NEW act \in Acts, act.size = m_size, version = 0,
         NEW n, NEW d, Frames(act, n, d)
  PROVE  Walk(act, n, d) = Upwards(act, Walk(act, n, d))
<1>1. /\ n \in Nat /\ n \in 0 .. act.size /\ d \in [0 .. n -> Int] /\ m_size \in Nat
      /\ act.sb = m_size - d[n] /\ act.size \in Nat
  BY FramesAreFew
<1> DEFINE w == Walk(act, n, d)
           up(k) == IF k = 0 THEN act.sb
                    ELSE IF IsRecord(w[k - 1]) /\ m_stack[w[k - 1] + 1].way # "FROM_NATIVE"
                         THEN CallerBp(act, w[k - 1])
                         ELSE w[k - 1]
<1>2. \A k \in 0 .. act.size : w[k] = IF k <= n THEN m_size - d[n - k] ELSE m_size - d[0]
  BY DEF Walk
<1>3. w = [k \in 0 .. act.size |-> w[k]]
  BY DEF Walk
<1> HIDE DEF w
<1>4. ASSUME NEW k \in 0 .. act.size
      PROVE  w[k] = up(k)
  <2>1. CASE k = 0
    BY <1>1, <1>2, <2>1
  <2>2. CASE k # 0 /\ k <= n
    <3> DEFINE j == n - (k - 1)
    <3>1. /\ k - 1 \in 0 .. act.size /\ k - 1 <= n /\ j \in 0 .. n /\ j # 0
          /\ n - k = j - 1
      BY <1>1, <2>2
    <3>2. w[k - 1] = m_size - d[j] /\ w[k] = m_size - d[j - 1]
      BY <1>2, <2>2, <3>1
    <3> HIDE DEF j
    <3>3. /\ IsRecord(m_size - d[j]) /\ m_stack[m_size - d[j] + 1].way # "FROM_NATIVE"
          /\ CallerBp(act, m_size - d[j]) = m_size - d[j - 1]
      BY <3>1, OneFrameUp
    <3> QED BY <2>2, <3>2, <3>3
  <2>3. CASE ~(k <= n)
    <3>1. k # 0 /\ k - 1 \in 0 .. act.size /\ (k - 1 <= n => n - (k - 1) = 0) /\ 0 \in 0 .. n
      BY <1>1, <2>3
    <3>2. w[k - 1] = m_size - d[0] /\ w[k] = m_size - d[0]
      BY <1>2, <2>3, <3>1
    <3>3. m_stack[m_size - d[0] + 1].way = "FROM_NATIVE"
      BY <3>1, OneFrameUp
    <3> QED BY <3>1, <3>2, <3>3
  <2> QED BY <2>1, <2>2, <2>3
<1>5. [k \in 0 .. act.size |-> w[k]] = [k \in 0 .. act.size |-> up(k)]
  BY <1>4
<1> QED BY <1>3, <1>5 DEF Upwards, w

\* The recursive definition has no other solution.
LEMMA OneWalk ==
  ASSUME NEW act, act.size \in Nat, NEW f, NEW g, f = Upwards(act, f), g = Upwards(act, g)
  PROVE  f = g
<1> DEFINE S == {k \in 0 .. act.size : f[k] # g[k]}
<1>1. f = [k \in 0 .. act.size |-> f[k]] /\ g = [k \in 0 .. act.size |-> g[k]]
  BY DEF Upwards
<1>2. ASSUME NEW k \in 0 .. act.size
      PROVE  /\ f[k] = Upwards(act, f)[k] /\ g[k] = Upwards(act, g)[k]
  OBVIOUS
<1>3. SUFFICES ASSUME S # {} PROVE FALSE
  BY <1>1
<1>4. PICK m \in S : \A k \in S : m <= k
  <2>1. S \in SUBSET Nat
    OBVIOUS
  <2> HIDE DEF S
  <2> QED BY <1>3, <2>1, Least
<1>5. m \in 0 .. act.size /\ f[m] # g[m]
  OBVIOUS
<1>6. m # 0
  BY <1>2, <1>5 DEF Upwards
<1>7. m - 1 \in 0 .. act.size /\ ~(m <= m - 1)
  BY <1>5, <1>6
<1>8. f[m - 1] = g[m - 1]
  BY <1>4, <1>7
<1>9. f[m] = g[m]
  <2>1. \A h : Upwards(act, h)[m] =
                IF IsRecord(h[m - 1]) /\ m_stack[h[m - 1] + 1].way # "FROM_NATIVE"
                  THEN CallerBp(act, h[m - 1])
                  ELSE h[m - 1]
    BY <1>5, <1>6 DEF Upwards
  <2>2. Upwards(act, f)[m] = Upwards(act, g)[m]
    BY <1>8, <2>1
  <2> QED BY <1>2, <1>5, <2>2
<1> QED BY <1>5, <1>9

LEMMA FramesLead ==
  ASSUME IInv, FramesHold
  PROVE  FramesLeadToInvoke
<1> SUFFICES ASSUME status = "ok", version = 0, NEW a \in DOMAIN acts
             PROVE  LET act == acts[a]
                        bp == CHOOSE g : g = Upwards(act, g)
                    IN  \E n \in 0 .. act.size :
                          /\ bp[n] = act.size - act.base
                          /\ IsRecord(bp[n]) /\ m_stack[bp[n] + 1].way = "FROM_NATIVE"
                          /\ \A k \in 0 .. n - 1 : bp[k] < bp[k + 1]
  BY DEF FramesLeadToInvoke, Upwards
<1> DEFINE act == acts[a]
           bp == CHOOSE g : g = Upwards(act, g)
<1>1. a \in 1 .. Len(acts) /\ act \in Acts /\ act.version = 0 /\ act.size = m_size
  <2>1. a \in 1 .. Len(acts) /\ acts[a] \in Acts
    BY DEF IInv, TypeOK
  <2>2. acts[a].version <= 0 /\ acts[a].version \in Nat
    BY <2>1 DEF IInv, RoomIsThere, Acts
  <2> QED BY <2>1, <2>2 DEF IInv, RoomIsThere
<1>2. PICK n, d : Frames(act, n, d)
  BY <1>1 DEF FramesHold, FramesAreThere
<1> HIDE DEF act
<1> DEFINE w == Walk(act, n, d)
<1>3. w = Upwards(act, w)
  BY <1>1, <1>2, WalkGoesUp
<1>4. bp = Upwards(act, bp)
  BY <1>3
<1>5. /\ n \in Nat /\ n \in 0 .. act.size /\ d \in [0 .. n -> Int] /\ m_size \in Nat
      /\ act.base = d[0] /\ \A k \in 1 .. n : d[k - 1] < d[k]
  BY <1>1, <1>2, FramesAreFew
<1> HIDE DEF bp, w
<1>6. bp = w
  <2>1. act.size \in Nat
    BY <1>1, <1>5
  <2> QED BY <1>3, <1>4, <2>1, OneWalk
<1>7. \A k \in 0 .. n : bp[k] = m_size - d[n - k]
  BY <1>1, <1>5, <1>6 DEF Walk, w
<1>8. bp[n] = m_size - d[0]
  BY <1>5, <1>7
<1>9. IsRecord(bp[n]) /\ m_stack[bp[n] + 1].way = "FROM_NATIVE"
  <2>1. 0 \in 0 .. n
    BY <1>5
  <2> QED BY <1>1, <1>2, <1>8, <2>1, OneFrameUp
<1>10. ASSUME NEW k \in 0 .. n - 1
       PROVE  bp[k] < bp[k + 1]
  <2>1. k \in 0 .. n /\ k + 1 \in 0 .. n /\ n - k \in 1 .. n /\ n - (k + 1) = (n - k) - 1
        /\ n - k \in 0 .. n /\ n - (k + 1) \in 0 .. n
    BY <1>5
  <2>2. bp[k] = m_size - d[n - k] /\ bp[k + 1] = m_size - d[(n - k) - 1]
    BY <1>7, <2>1
  <2>3. d[(n - k) - 1] < d[n - k] /\ d[n - k] \in Int /\ d[(n - k) - 1] \in Int
    BY <1>5, <2>1
  <2> QED BY <1>5, <2>2, <2>3
<1>11. /\ n \in 0 .. act.size /\ bp[n] = act.size - act.base
       /\ IsRecord(bp[n]) /\ m_stack[bp[n] + 1].way = "FROM_NATIVE"
       /\ \A k \in 0 .. n - 1 : bp[k] < bp[k + 1]
  BY <1>1, <1>5, <1>8, <1>9, <1>10
<1> QED BY <1>11 DEF bp, act

-----------------------------------------------------------------------------
LEMMA TurnsUnwritten ==
  ASSUME IInv, FramesHold, Turns
  PROVE  Unwritten(Beyond(Top))
<1>1. Running /\ Top.sp \in Int /\ Top.sb \in Int /\ Top.sp <= Top.sb /\ m_size \in Nat
  BY TopNumbers DEF Turns
<1>2. CASE Stays
  BY <1>1, <1>2, StaysBelow
<1>3. CASE Calls
  <2>1. Unwritten(Top.sb + 3)
    BY <1>1, <1>3 DEF Calls, Unwritten
  <2> QED BY <1>1, <2>1, NotBeyond
<1>4. CASE Returns
  BY <1>1, <1>4, NotBeyond DEF Returns
<1> QED BY <1>2, <1>3, <1>4 DEF Turns

LEMMA FrameUntouched ==
  ASSUME IInv, FramesHold, FrameStep, NEW a \in 1 .. Len(acts),
         acts[a].mode # "run", acts[a].version = version',
         NEW k \in acts[a].sp + 1 .. m_size - 1
  PROVE  m_stack'[k] = m_stack[k]
<1>1. CASE version' = version
  <2>1. acts[a].size = m_size /\ acts[a].sp \in Int /\ m_size \in Nat /\ m_sp \in Int
        /\ SpDist(acts[a]) = m_size - acts[a].sp /\ acts[a].sp >= 0
        /\ DOMAIN m_stack = 0 .. m_size - 1
    <3>1. acts[a] \in Acts /\ acts[a].size = m_size /\ m_size \in Nat /\ m_sp \in Int
          /\ DOMAIN m_stack = 0 .. m_size - 1
      BY <1>1 DEF IInv, RoomIsThere, TypeOK
    <3>2. acts[a].sp \in Int
      BY <3>1 DEF Acts
    <3> QED BY <3>1, <3>2 DEF SpDist, FramesHold, NativesAreSynced
  <2>2. k \in 0 .. m_size - 1 /\ k > acts[a].sp
    BY <2>1
  <2>3. CASE Running /\ Unwritten(Beyond(Top))
    <3>1. a # Len(acts)
      BY <2>3 DEF Running, Top
    <3>2. a \in 1 .. Len(acts) - 1
      BY <2>3, <3>1, TopNumbers
    <3>3. Beyond(Top) <= m_size - SpDist(acts[a]) /\ Beyond(Top) \in Int
      BY <2>3, <3>2, OuterDistance
    <3>4. k >= Beyond(Top)
      BY <2>1, <2>2, <3>3
    <3> QED BY <2>2, <2>3, <3>4 DEF Unwritten
  <2>4. CASE m_stack' = m_stack
    BY <2>4
  <2>5. CASE Enters
    <3>1. m_size - m_sp >= SpDist(acts[a])
      BY DEF FramesHold, NativesAreSynced
    <3>2. k # m_sp - 2 /\ k # m_sp - 1
      BY <2>1, <2>2, <3>1
    <3>3. PICK ip : m_stack' = [m_stack EXCEPT ![m_sp - 2] = RetBp("FROM_NATIVE", m_size - m_sb),
                                               ![m_sp - 1] = RetAddr(ip)]
      BY <2>5 DEF Enters
    <3> QED BY <2>1, <2>2, <3>2, <3>3
  <2>6. CASE Turns
    BY <2>3, <2>6, TurnsUnwritten DEF Turns
  <2>7. CASE Leaves
    BY <2>3, <2>4, <2>7, NotBeyond DEF Leaves
  <2>8. CASE Resumes \/ Halts
    BY <2>3, <2>4, <2>8 DEF Resumes, Halts, stackVars
  <2>9. ~Extends
    BY <1>1 DEF Extends, IInv, TypeOK
  <2> QED BY <2>5, <2>6, <2>7, <2>8, <2>9 DEF FrameStep
<1>2. CASE version' # version
  <2>1. Extends
    BY <1>2 DEF FrameStep, Turns, Stays, Calls, Returns, StackKept, Leaves, Resumes, Enters,
       Halts, stackVars
  <2>2. acts[a].version <= version /\ version' = version + 1 /\ version \in Nat
    BY <2>1 DEF Extends, IInv, RoomIsThere, TypeOK
  <2> QED BY <2>2
<1> QED BY <1>1, <1>2

\* The stack is extended only while it is smaller than MaxSize.
LEMMA SizeBound ==
  ASSUME MaxSize <= 32768, BeginSize <= 65534
  PROVE  Spec => []SmallStack
<1>1. Init => SmallStack
  BY DEF Init, SmallStack
<1>2. IInv /\ IInv' /\ FInv /\ SmallStack /\ [Next]_vars => SmallStack'
  <2> SUFFICES ASSUME IInv, IInv', FInv, SmallStack, [Next]_vars
               PROVE  SmallStack'
    OBVIOUS
  <2>1. CASE Next
    <3>0. FramesHold
      BY <2>1, NextWhileOk DEF FInv
    <3>1. m_size' = m_size \/ Extends
      BY <2>1, <3>0, NextFrameStep DEF FrameStep, Turns, Stays, Calls, Returns, StackKept, Leaves,
         Resumes, Enters, Halts, stackVars
    <3>2. m_size \in Nat /\ MaxSize \in Nat
      BY VMRuntimeAssumption DEF IInv, TypeOK
    <3> QED BY <3>1, <3>2 DEF Extends, SmallStack
  <2>2. CASE UNCHANGED vars
    BY <2>2 DEF vars, stackVars, SmallStack
  <2> QED BY <2>1, <2>2
<1> QED BY <1>1, <1>2, Always, FInvHolds, PTL DEF Spec

\* Every return finds the loop it belongs to: see FramesLeadToInvoke.
\* (woort_vm.c begins with a stack of 32 cells, and the property is about the
\* stack before it is first extended.)
THEOREM ReturnsFindTheirLoop == BeginSize <= 65534 /\ Spec => []FramesLeadToInvoke
<1>1. BeginSize <= 65534 /\ IInv /\ FInv => FramesLeadToInvoke
  <2>1. ASSUME BeginSize <= 65534, IInv, FInv, version = 0, status = "ok"
        PROVE  FramesHold
    BY <2>1 DEF FInv, SmallStack
  <2>2. version # 0 \/ status # "ok" => FramesLeadToInvoke
    BY DEF FramesLeadToInvoke
  <2> QED BY <2>1, <2>2, FramesLead
<1>2. ASSUME BeginSize <= 65534 PROVE Spec => []FramesLeadToInvoke
  <2>1. IInv /\ FInv => FramesLeadToInvoke
    BY <1>1, <1>2
  <2> QED BY <2>1, Always, FInvHolds, PTL
<1> QED BY <1>2

\* A native function, with all that it invokes, writes no cell that the loop
\* that called it, or one further out, has pushed: see PushedCellsKept.  (It
\* says nothing of the cells at and below that loop's sp.  The bound is half of
\* what RESULT with a negative operand is off by; woort_vm.c allows a larger
\* stack, and there such a RESULT may write into these frames.)
THEOREM PushedCellsAreKept ==
  MaxSize <= 32768 /\ BeginSize <= 65534 /\ Spec => PushedCellsKept
<1>1. IInv /\ IInv' /\ FInv /\ SmallStack /\ [Next]_vars =>
        [\A a \in DOMAIN acts \cap DOMAIN acts' :
           acts[a].mode # "run" /\ acts[a].version = version' =>
             \A k \in acts[a].sp + 1 .. m_size - 1 : m_stack'[k] = m_stack[k]]_vars
  <2> SUFFICES ASSUME IInv, IInv', FInv, SmallStack, [Next]_vars, ~UNCHANGED vars,
                      NEW a \in DOMAIN acts \cap DOMAIN acts',
                      acts[a].mode # "run", acts[a].version = version',
                      NEW k \in acts[a].sp + 1 .. m_size - 1
               PROVE  m_stack'[k] = m_stack[k]
    OBVIOUS
  <2>1. a \in 1 .. Len(acts)
    BY DEF IInv, TypeOK
  <2>2. FramesHold
    BY NextWhileOk DEF FInv
  <2> QED BY <2>1, <2>2, NextFrameStep, FrameUntouched
<1>2. ASSUME MaxSize <= 32768, BeginSize <= 65534 PROVE Spec => PushedCellsKept
  <2>1. Spec => []SmallStack
    BY <1>2, SizeBound
  <2> QED BY <1>1, <2>1, Always, FInvHolds, PTL DEF Spec, PushedCellsKept
<1> QED BY <1>2
=============================================================================
