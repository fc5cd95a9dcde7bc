---------------------------- MODULE LIRCompiler -----------------------------
(***************************************************************************)
(* woort_lir_compiler.c with woort_lir_function.c and woort_lir.c: a       *)
(* client builds functions out of LIR instructions, labels and storage,    *)
(* and commits them to a code environment.                                 *)
(*                                                                         *)
(* Of a register only its place matters here: whether it is an argument's, *)
(* and whether it is near the frame pointer or far from it, where its      *)
(* offset needs more than eight bits (RegisterAllocation gives the places; *)
(* an argument is far from the index 128 on).  The clients can emit LOAD,  *)
(* STORE, PUSH and JMP; conditional jumps have no emit function, so the    *)
(* part of the commit that widens them finds none.  A commit that failed   *)
(* may be tried again.  The checks of assert are compiled out.             *)
(*                                                                         *)
(* A word of code is its opcode with the operand that the properties speak *)
(* of; origin tells which instruction a word was emitted for.              *)
(***************************************************************************)
EXTENDS Integers, FiniteSets, Sequences, SequencesExt

CONSTANTS
  Places,       \* the places registers can have, see AllPlaces
  UINT18_MAX,   \* the greatest index that LOAD and STORE can hold
  MaxFunctions, \* bound: functions
  MaxLirs,      \* bound: instructions of all functions
  MaxLabels,    \* bound: labels of a function
  MaxStorage,   \* bound: constants, and statics
  MaxCommits    \* bound: commits

AllPlaces == {"argument", "far_argument", "near", "far"}

ASSUME LIRCompilerAssumption ==
  /\ Places \subseteq AllPlaces
  /\ {UINT18_MAX, MaxFunctions, MaxLirs, MaxLabels, MaxStorage, MaxCommits} \subseteq Nat

VARIABLES
  constants,  \* the size of m_constant_storage_holder
  statics,    \* m_static_storage_count
  lirs,       \* the m_lir_list of every function
  labels,     \* the instruction each label of a function is bound to
  pending,    \* m_pending_labels_to_bind of every function
  code,       \* m_code_holder
  origin,     \* for every word of code <<function, instruction>>
  raised,     \* whether m_code_holder has failed to grow
  pc,         \* "build", "commit", "done"; or "wild", when memory that is not
              \* there was written
  current,    \* the function that is committed next
  began,      \* the size of code when the commit began
  commits,    \* how many commits have begun
  env         \* what woort_CodeEnv_create was given

client == <<constants, statics, lirs, labels, pending>>
vars == <<client, code, origin, raised, pc, current, began, commits, env>>

\* No instruction: a label that is not bound; and the origin of a word that
\* reserves the stack.
NULL == 0

NoEnv == [code |-> <<>>, origin |-> <<>>, constants |-> 0, statics |-> 0]

Init ==
  /\ constants = 0 /\ statics = 0
  /\ lirs = <<>> /\ labels = <<>> /\ pending = <<>>
  /\ code = <<>> /\ origin = <<>>
  /\ raised = FALSE
  /\ pc = "build"
  /\ current = 1
  /\ began = 0
  /\ commits = 0
  /\ env = NoEnv

Functions == DOMAIN lirs

LirsOf(f) == {<<f, k>> : k \in DOMAIN lirs[f]}
AllLirs == UNION {LirsOf(f) : f \in Functions}

\* A client builds only what it may still commit, within the bound.  (When the
\* emission of a function has failed, the words of that function do not get into
\* the block any more: no commit comes past it.)
MayBuild == pc = "build" /\ commits < MaxCommits /\ ~raised

Building ==
  /\ MayBuild
  /\ UNCHANGED <<code, origin, raised, pc, current, began, commits, env>>

\* A vector that fails to grow keeps the capacity it has raised
\* (woort_vector.c:36-47), so that a later call finds room in it and the element
\* is outside its block.
OutsideBlock ==
  /\ pc' = "wild"
  /\ UNCHANGED <<client, code, origin, raised, current, began, commits, env>>

-----------------------------------------------------------------------------
\* (Every one of these calls may fail for want of memory.  That leaves the state
\* as it is, but for the capacity of a vector: hence OutsideBlock, where a call
\* before this one may have failed so.)
AllocateConstant ==
  \/ /\ Building /\ constants < MaxStorage
     /\ constants' = constants + 1
     /\ UNCHANGED <<statics, lirs, labels, pending>>
  \/ MayBuild /\ constants < MaxStorage /\ OutsideBlock

AllocateStatic ==
  /\ Building /\ statics < MaxStorage
  /\ statics' = statics + 1
  /\ UNCHANGED <<constants, lirs, labels, pending>>

AddFunction ==
  /\ Building /\ Len(lirs) < MaxFunctions
  /\ lirs' = Append(lirs, <<>>)
  /\ labels' = Append(labels, <<>>)
  /\ pending' = Append(pending, {})
  /\ UNCHANGED <<constants, statics>>

AllocLabel(f) ==
  /\ Building /\ Len(labels[f]) < MaxLabels
  /\ labels' = [labels EXCEPT ![f] = Append(@, NULL)]
  /\ UNCHANGED <<constants, statics, lirs, pending>>

\* A label that is bound already is refused; one that is pending is not.
Bind(f, l) ==
  \/ /\ Building
     /\ labels[f][l] = NULL
     /\ pending' = [pending EXCEPT ![f] = @ \cup {l}]
     /\ UNCHANGED <<constants, statics, lirs, labels>>
  \/ MayBuild /\ labels[f][l] = NULL /\ OutsideBlock

BindPending(f) ==
  labels' = [labels EXCEPT ![f] = [l \in DOMAIN labels[f] |->
               IF l \in pending[f] /\ labels[f][l] = NULL
                 THEN Len(lirs[f]) + 1
                 ELSE labels[f][l]]]

\* _woort_LIRFunction_append_lir: the labels that wait are bound to the new
\* instruction.
AppendLir(f, lir) ==
  /\ lirs' = [lirs EXCEPT ![f] = Append(@, lir)]
  /\ BindPending(f)
  /\ pending' = [pending EXCEPT ![f] = {}]

\* An instruction names what it loads or stores; index is what its operand
\* holds, which woort_LIR_update_static_storage changes.
Lir(op, name, place) == [op |-> op, name |-> name, index |-> name, place |-> place]

EmitLir(f) ==
  /\ Building
  /\ Cardinality(AllLirs) < MaxLirs
  /\ \/ \E place \in Places :
          \/ \E c \in 0 .. constants - 1 : AppendLir(f, Lir("LOADCONST", c, place))
          \/ \E s \in 0 .. statics - 1, op \in {"LOADGLOBAL", "STORE"} :
               AppendLir(f, Lir(op, s, place))
          \/ AppendLir(f, Lir("PUSH", 0, place))
     \/ \E l \in DOMAIN labels[f] : AppendLir(f, Lir("JMP", l, "argument"))
  /\ UNCHANGED <<constants, statics>>

-----------------------------------------------------------------------------
\* woort_LIR_ir_length_exclude_jmp: one word, and one more for a register far
\* away; but LOAD and STORE take one in every case.  (WordOf emits one word for a
\* PUSH of a far register all the same.)
TakesTwoWords(lir) == lir.op = "PUSH" /\ lir.place \in {"far", "far_argument"}

\* The m_fact_bytecode_offset of each instruction of s, from base on.
Offsets(s, base) ==
  [k \in DOMAIN s |-> base + k - 1 + Cardinality({j \in 1 .. k - 1 : TakesTwoWords(s[j])})]

\* Bug: every index is moved, that of a constant too.
WithStaticsAll(s) == [k \in DOMAIN s |-> [s[k] EXCEPT !.index = @ + constants]]

\* woort_LIR_update_static_storage: the statics lie behind the constants.
WithStatics(s) ==
  [k \in DOMAIN s |-> IF s[k].op \in {"LOADGLOBAL", "STORE"}
                        THEN [s[k] EXCEPT !.index = @ + constants]
                        ELSE s[k]]

\* Bug: the distances are taken the wrong way round.
DisplacementSwapped(from, to) ==
  IF to <= from THEN [op |-> "JMPGC", arg |-> to - from]
                ELSE [op |-> "JMP", arg |-> from - to]

\* Bug: the distance is counted from the next instruction.
DisplacementNext(from, to) ==
  IF to <= from THEN [op |-> "JMPGC", arg |-> from + 1 - to]
                ELSE [op |-> "JMP", arg |-> to - from - 1]

Displacement(from, to) ==
  IF to <= from THEN [op |-> "JMPGC", arg |-> from - to]
                ELSE [op |-> "JMP", arg |-> to - from]

\* woort_LIR_emit_to_lir_compiler, for instruction k of s at offsets at.
WordOf(f, s, at, k) ==
  CASE s[k].op = "JMP" -> Displacement(at[k], at[labels[f][s[k].name]])
    [] s[k].op \in {"LOADCONST", "LOADGLOBAL"} ->
         [op |-> "LOAD", arg |-> s[k].index % (UINT18_MAX + 1)]
    [] s[k].op = "STORE" -> [op |-> "STORE", arg |-> s[k].index % (UINT18_MAX + 1)]
    [] s[k].op = "PUSH" -> [op |-> "PUSHC", arg |-> 0]

\* A function that uses a register of its own has a frame; its code begins with
\* a word that asks for it.
HasFrame(s) == \E k \in DOMAIN s : s[k].op # "JMP" /\ s[k].place \in {"near", "far"}

Reserve(s) == IF HasFrame(s) THEN <<[op |-> "ASSURESSZ", arg |-> 0]>> ELSE <<>>

LabelsBound(f) ==
  \A k \in DOMAIN lirs[f] : lirs[f][k].op = "JMP" => labels[f][lirs[f][k].name] # NULL

-----------------------------------------------------------------------------
\* Bug: the first function is passed over.
BeginCommitSecond ==
  /\ pc = "build" /\ commits < MaxCommits
  /\ pc' = "commit"
  /\ current' = 2
  /\ began' = Len(code)
  /\ commits' = commits + 1
  /\ UNCHANGED <<client, code, origin, raised, env>>

BeginCommit ==
  /\ pc = "build" /\ commits < MaxCommits
  /\ pc' = "commit"
  /\ current' = 1
  /\ began' = Len(code)
  /\ commits' = commits + 1
  /\ UNCHANGED <<client, code, origin, raised, env>>

\* The commit gives up at this function: a label is not bound, or the register
\* allocation fails.
CommitRefused ==
  /\ pc = "commit" /\ current \in Functions
  /\ pc' = "build"
  /\ UNCHANGED <<client, code, origin, raised, current, began, commits, env>>

\* _woort_LIRCompiler_commit_function: it lays the function out and emits the
\* words, all of them unless memory runs out.  After that the words of the next
\* try are written outside the block.
CommitFunction ==
  /\ pc = "commit" /\ current \in Functions
  /\ LabelsBound(current)
  /\ LET s     == WithStatics(lirs[current])
         at    == Offsets(s, Len(code))
         words == Reserve(s) \o [k \in DOMAIN s |-> WordOf(current, s, at, k)]
         from  == [k \in DOMAIN words |-> <<current, k - Len(Reserve(s))>>]
     IN
       /\ lirs' = [lirs EXCEPT ![current] = s]
       /\ \/ /\ raised => words = <<>>
             /\ code' = code \o words
             /\ origin' = origin \o from
             /\ current' = current + 1
             /\ UNCHANGED <<raised, pc>>
          \/ /\ ~raised
             /\ \E n \in 0 .. Len(words) - 1 :
                  /\ code' = code \o SubSeq(words, 1, n)
                  /\ origin' = origin \o SubSeq(from, 1, n)
             /\ raised' = TRUE
             /\ pc' = "build"
             /\ UNCHANGED current
          \/ /\ raised /\ words # <<>>
             /\ pc' = "wild"
             /\ UNCHANGED <<code, origin, raised, current>>
  /\ UNCHANGED <<constants, statics, labels, pending, began, commits, env>>

\* Every function is committed, and woort_CodeEnv_create takes the code and the
\* data.  It may fail before it has changed anything, after it has added the
\* statics to the constants, or at the registration, when it has moved both out;
\* and when the constants have failed to grow before, it clears the statics
\* outside their block.
CreateEnv ==
  /\ pc = "commit" /\ current \notin Functions
  /\ UNCHANGED <<statics, lirs, labels, pending, raised, current, began, commits>>
  /\ \/ /\ pc' = "done"
        /\ env' = [code |-> code, origin |-> origin,
                   constants |-> constants, statics |-> statics]
        /\ code' = <<>> /\ origin' = <<>> /\ constants' = 0
     \/ /\ pc' = "build"
        /\ constants' \in {constants, constants + statics}
        /\ UNCHANGED <<code, origin, env>>
     \/ /\ pc' = "build"
        /\ code' = <<>> /\ origin' = <<>> /\ constants' = 0
        /\ UNCHANGED env
     \/ /\ pc' = "wild" /\ statics > 0
        /\ UNCHANGED <<code, origin, constants, env>>

-----------------------------------------------------------------------------
Next ==
  \/ AllocateConstant \/ AllocateStatic \/ AddFunction
  \/ \E f \in Functions :
       \/ AllocLabel(f)
       \/ \E l \in DOMAIN labels[f] : Bind(f, l)
       \/ EmitLir(f)
  \/ BeginCommit \/ CommitRefused \/ CommitFunction \/ CreateEnv

Spec == Init /\ [][Next]_vars

-----------------------------------------------------------------------------
LirType ==
  [op : {"LOADCONST", "LOADGLOBAL", "STORE", "PUSH", "JMP"}, name : Nat, index : Nat,
   place : AllPlaces]

WordType ==
  [op : {"LOAD", "STORE", "PUSHC", "JMP", "JMPGC", "ASSURESSZ"}, arg : Nat]

TypeOK ==
  /\ {constants, statics, current, began, commits} \subseteq Nat
  /\ lirs \in Seq(Seq(LirType))
  /\ labels \in Seq(Seq(Nat)) /\ Len(labels) = Len(lirs)
  /\ pending \in Seq(SUBSET Nat) /\ Len(pending) = Len(lirs)
  /\ \A f \in Functions :
       /\ \A l \in DOMAIN labels[f] : labels[f][l] <= Len(lirs[f])
       /\ pending[f] \subseteq DOMAIN labels[f]
  /\ code \in Seq(WordType)
  /\ origin \in [DOMAIN code -> Functions \X Nat]
  /\ raised \in BOOLEAN
  /\ pc \in {"build", "commit", "done", "wild"}

\* The instructions whose words a jump from k to l passes.
Passed(k, l) == IF l <= k THEN l .. k - 1 ELSE k .. l - 1

\* Whatever the functions around it, what stands before it and what is reserved
\* at its entry: a jump in a function that was committed arrives at the first
\* word of the instruction its label is bound to, unless it passes a PUSH of a
\* far register, which is counted as two words and emitted as one
\* (woort_lir.c:189 and 362: such a jump goes too far).
JumpsLand ==
  pc = "commit" =>
    \A p \in began + 1 .. Len(code) :
      LET f == origin[p][1]
          k == origin[p][2]
          l == labels[f][lirs[f][k].name]
          to == IF code[p].op = "JMP" THEN p + code[p].arg ELSE p - code[p].arg
      IN /\ code[p].op \in {"JMP", "JMPGC"}
         /\ \A m \in Passed(k, l) : ~TakesTwoWords(lirs[f][m])
         => to \in DOMAIN code /\ origin[to] = <<f, l>>

\* In an environment made by the first commit, every LOAD and STORE names the
\* constant or the static its client named, in the data as they are laid out,
\* also when storage was allocated after the instruction was emitted; provided
\* that the operands of these instructions can hold every index.
LoadsWhatIsMeant ==
  pc = "done" /\ commits = 1 /\ env.constants + env.statics <= UINT18_MAX + 1 =>
    \A p \in DOMAIN env.code :
      LET lir == lirs[env.origin[p][1]][env.origin[p][2]]
          data == IF lir.op = "LOADCONST" THEN lir.name ELSE env.constants + lir.name
      IN env.code[p].op \in {"LOAD", "STORE"} =>
           env.code[p].arg = data /\ data < env.constants + env.statics

Before(o, q) ==
  \/ o[1] < q[1]
  \/ o[1] = q[1] /\ o[2] < q[2]

\* The environment made by the first commit has every instruction once, in
\* order, and one word more for each function that has a frame.
EveryLirOnce ==
  pc = "done" /\ commits = 1 =>
    /\ \A p, q \in DOMAIN env.origin : p < q => Before(env.origin[p], env.origin[q])
    /\ ToSet(env.origin) =
         AllLirs \cup {<<f, NULL>> : f \in {g \in Functions : HasFrame(lirs[g])}}
=============================================================================
