------------------------- MODULE LIRCompilerProofs --------------------------
(***************************************************************************)
(* What a commit makes of any number of functions, instructions, labels    *)
(* and storage.                                                            *)
(*                                                                         *)
(* FirstTry is the time before the first commit and in it: only then do    *)
(* the operands of the instructions and the code hold nothing that an      *)
(* earlier commit has left.                                                *)
(***************************************************************************)
EXTENDS LIRCompiler, FiniteSetTheorems, TLAPS

FirstTry == commits = 0 \/ (commits = 1 /\ pc = "commit")

Committed(f) == pc = "commit" /\ f < current

LoadsData == {"LOADCONST", "LOADGLOBAL", "STORE"}

\* The words have an instruction each, which knows its label.
Structured ==
  /\ origin \in Seq(Functions \X Nat) /\ Len(origin) = Len(code)
  /\ \A p \in DOMAIN code :
       /\ origin[p][2] <= Len(lirs[origin[p][1]])
       /\ origin[p][2] = NULL => code[p].op = "ASSURESSZ"
  /\ \A f \in Functions : \A k \in DOMAIN lirs[f] :
       lirs[f][k].op = "JMP" => lirs[f][k].name \in DOMAIN labels[f]

\* Where a commit is, and that none is behind it while the first has not begun.
Progressing ==
  /\ current \in Nat \ {0}
  /\ pc = "commit" => began <= Len(code) /\ commits # 0
  /\ commits = 0 => code = <<>> /\ pc \in {"build", "wild"}

\* During the first commit each operand is the name, or what the name became.
OperandsKnown ==
  FirstTry =>
    \A f \in Functions : \A k \in DOMAIN lirs[f] :
      LET lir == lirs[f][k] IN
        /\ lir.op = "LOADCONST" => lir.name < constants
        /\ lir.op \in {"LOADGLOBAL", "STORE"} => lir.name < statics
        /\ lir.index = IF lir.op \in {"LOADGLOBAL", "STORE"} /\ Committed(f)
                         THEN lir.name + constants ELSE lir.name

\* What the words that load and store will find.
WordsKnown ==
  FirstTry =>
    \A p \in DOMAIN code :
      LET lir == lirs[origin[p][1]][origin[p][2]]
          data == IF lir.op = "LOADCONST" THEN lir.name ELSE constants + lir.name
      IN code[p].op \in {"LOAD", "STORE"} =>
           lir.op \in LoadsData /\ code[p].arg = data % (UINT18_MAX + 1)

\* What the first commit has emitted is in order and complete.
OrderedSoFar ==
  FirstTry =>
    /\ \A p \in DOMAIN code : Committed(origin[p][1])
    /\ \A p, q \in DOMAIN code : p < q => Before(origin[p], origin[q])

CompleteSoFar ==
  FirstTry /\ pc = "commit" =>
    ToSet(origin) =
      (UNION {LirsOf(f) : f \in {g \in Functions : g < current}})
        \cup {<<f, NULL>> : f \in {g \in Functions : g < current /\ HasFrame(lirs[g])}}

\* The word of a jump that spans k - label instructions.
JumpBetween(k, label) ==
  IF label <= k THEN [op |-> "JMPGC", arg |-> k - label]
                ELSE [op |-> "JMP", arg |-> label - k]

\* A jump of s from k to label passes only instructions of one word.
ShortBetween(s, k, label) == \A m \in Passed(k, label) : ~TakesTwoWords(s[m])

\* The word at p belongs to a function of this commit, which stands in the code as
\* a whole, and if it jumps over instructions of one word, it does with the
\* distance between its place and that of the label.
StandsAt(p) ==
  LET f == origin[p][1]
      k == origin[p][2]
      label == labels[f][lirs[f][k].name]
  IN
    /\ f < current
    /\ k # NULL => \A j \in DOMAIN lirs[f] :
                     /\ p - k + j \in DOMAIN code
                     /\ origin[p - k + j] = <<f, j>>
    /\ code[p].op \in {"JMP", "JMPGC"} =>
         /\ k # NULL
         /\ label \in DOMAIN lirs[f]
         /\ ShortBetween(lirs[f], k, label) => code[p] = JumpBetween(k, label)

StandsWhole == pc = "commit" => \A p \in began + 1 .. Len(code) : StandsAt(p)

IInv ==
  /\ TypeOK
  /\ Structured
  /\ Progressing
  /\ OperandsKnown
  /\ WordsKnown
  /\ OrderedSoFar
  /\ CompleteSoFar
  /\ StandsWhole

LEMMA InitIInv == Init => IInv
<1> SUFFICES ASSUME Init PROVE IInv
  OBVIOUS
<1> USE DEF Init
<1>1. TypeOK
  <2>1. {constants, statics, current, began, commits} \subseteq Nat
    OBVIOUS
  <2>4. raised \in BOOLEAN /\ pc \in {"build", "commit", "done", "wild"}
    OBVIOUS
  <2>2. /\ lirs \in Seq(Seq(LirType)) /\ labels \in Seq(Seq(Nat)) /\ Len(labels) = Len(lirs)
        /\ pending \in Seq(SUBSET Nat) /\ Len(pending) = Len(lirs)
        /\ code \in Seq(WordType) /\ Functions = {}
    BY DEF Functions
  <2>3. origin \in [DOMAIN code -> Functions \X Nat]
    OBVIOUS
  <2> HIDE DEF Init
  <2> QED  BY <2>1, <2>2, <2>3, <2>4 DEF TypeOK
<1>2. Structured /\ Progressing
  BY DEF Structured, Progressing, Functions
<1>3. OperandsKnown /\ WordsKnown
  BY DEF OperandsKnown, WordsKnown, Functions
<1>4. OrderedSoFar /\ CompleteSoFar /\ StandsWhole
  BY DEF OrderedSoFar, CompleteSoFar, StandsWhole
<1> QED  BY <1>1, <1>2, <1>3, <1>4 DEF IInv

-----------------------------------------------------------------------------
\* As long as functions are built, the code matters only to its own types.
LEMMA WhileBuilding ==
  ASSUME IInv, pc = "build", pc' \in {"build", "wild"},
         UNCHANGED <<code, origin, current, began, commits>>
  PROVE  Progressing' /\ WordsKnown' /\ OrderedSoFar' /\ CompleteSoFar' /\ StandsWhole'
<1>1. Progressing'
  BY DEF IInv, Progressing
<1>2. FirstTry' => code' = <<>>
  BY DEF FirstTry, IInv, Progressing
<1>3. WordsKnown' /\ OrderedSoFar'
  BY <1>2 DEF WordsKnown, OrderedSoFar
<1>4. CompleteSoFar' /\ StandsWhole'
  BY DEF CompleteSoFar, StandsWhole
<1> QED  BY <1>1, <1>3, <1>4

LEMMA Appended ==
  ASSUME NEW S, NEW s \in Seq(S), NEW x \in S
  PROVE  /\ Append(s, x) \in Seq(S) /\ Len(Append(s, x)) = Len(s) + 1
         /\ DOMAIN s = 1 .. Len(s) /\ DOMAIN Append(s, x) = 1 .. Len(s) + 1
         /\ Len(s) \in Nat
         /\ \A k \in DOMAIN s : Append(s, x)[k] = s[k]
         /\ Append(s, x)[Len(s) + 1] = x
  OBVIOUS

LEMMA LirsTyped ==
  ASSUME TypeOK, NEW f \in Functions
  PROVE  /\ f \in 1 .. Len(lirs) /\ f \in Nat
         /\ lirs[f] \in Seq(LirType) /\ DOMAIN lirs[f] = 1 .. Len(lirs[f])
         /\ labels[f] \in Seq(Nat) /\ DOMAIN labels[f] = 1 .. Len(labels[f])
         /\ Len(lirs[f]) \in Nat /\ Len(labels[f]) \in Nat
         /\ pending[f] \in SUBSET Nat
         /\ \A k \in DOMAIN lirs[f] :
              /\ lirs[f][k] \in LirType
              /\ lirs[f][k].name \in Nat /\ lirs[f][k].index \in Nat
              /\ lirs[f][k].place \in AllPlaces
              /\ lirs[f][k].op \in {"LOADCONST", "LOADGLOBAL", "STORE", "PUSH", "JMP"}
<1>1. f \in 1 .. Len(lirs)
  <2>1. lirs \in Seq(Seq(LirType))
    BY DEF TypeOK
  <2> QED  BY <2>1 DEF Functions
<1>2. lirs[f] \in Seq(LirType)
  BY <1>1 DEF TypeOK
<1>3. labels[f] \in Seq(Nat) /\ pending[f] \in SUBSET Nat
  BY <1>1 DEF TypeOK
<1>4. \A k \in DOMAIN lirs[f] : lirs[f][k] \in LirType
  BY <1>2
<1> QED  BY <1>1, <1>2, <1>3, <1>4 DEF LirType

\* No instruction and no word changes, and no label is lost.
LEMMA StructuredKept ==
  ASSUME TypeOK, Structured, UNCHANGED <<lirs, code, origin>>,
         \A f \in Functions : DOMAIN labels[f] \subseteq DOMAIN labels'[f]
  PROVE  Structured'
<1>1. Functions' = Functions
  BY DEF Functions
<1>2. \A f \in Functions : \A k \in DOMAIN lirs[f] :
        lirs[f][k].op = "JMP" => lirs[f][k].name \in DOMAIN labels'[f]
  BY DEF Structured
<1>3. /\ origin \in Seq(Functions \X Nat) /\ Len(origin) = Len(code)
      /\ \A p \in DOMAIN code :
           /\ origin[p][2] <= Len(lirs[origin[p][1]])
           /\ origin[p][2] = NULL => code[p].op = "ASSURESSZ"
  BY DEF Structured
<1> QED  BY <1>1, <1>2, <1>3 DEF Structured

LEMMA OperandsKept ==
  ASSUME OperandsKnown, UNCHANGED <<constants, statics, lirs, pc, current, commits>>
  PROVE  OperandsKnown'
<1>1. Functions' = Functions /\ FirstTry' = FirstTry /\ \A f : Committed(f)' = Committed(f)
  BY DEF Functions, FirstTry, Committed
<1> QED  BY <1>1 DEF OperandsKnown

\* While functions are built, storage may be added but no operand changes.
LEMMA StorageGrows ==
  ASSUME IInv, pc = "build", UNCHANGED <<lirs, pc, current, commits>>,
         constants' \in Nat, constants <= constants',
         statics' \in Nat, statics <= statics'
  PROVE  OperandsKnown'
<1> SUFFICES ASSUME FirstTry, NEW f \in Functions, NEW k \in DOMAIN lirs[f]
             PROVE  LET lir == lirs[f][k] IN
                      /\ lir.op = "LOADCONST" => lir.name < constants'
                      /\ lir.op \in {"LOADGLOBAL", "STORE"} => lir.name < statics'
                      /\ lir.index = lir.name
  BY DEF OperandsKnown, FirstTry, Functions, Committed
<1>1. lirs[f][k].name \in Nat /\ constants \in Nat /\ statics \in Nat
  BY LirsTyped DEF IInv, TypeOK
<1> QED  BY <1>1 DEF IInv, OperandsKnown, Committed

\* Neither does any of the counters' values matter to the types of the rest.
LEMMA CountersTyped ==
  ASSUME TypeOK, {constants', statics', current', began', commits'} \subseteq Nat,
         pc' \in {"build", "commit", "done", "wild"}, raised' \in BOOLEAN,
         UNCHANGED <<lirs, labels, pending, code, origin>>
  PROVE  TypeOK'
<1>1. Functions' = Functions
  BY DEF Functions
<1>2. /\ lirs \in Seq(Seq(LirType))
      /\ labels \in Seq(Seq(Nat)) /\ Len(labels) = Len(lirs)
      /\ pending \in Seq(SUBSET Nat) /\ Len(pending) = Len(lirs)
      /\ code \in Seq(WordType) /\ origin \in [DOMAIN code -> Functions \X Nat]
  BY DEF TypeOK
<1>3. \A f \in Functions :
        /\ \A l \in DOMAIN labels[f] : labels[f][l] <= Len(lirs[f])
        /\ pending[f] \subseteq DOMAIN labels[f]
  BY DEF TypeOK
<1> QED  BY <1>1, <1>2, <1>3 DEF TypeOK

LEMMA StorageTyped ==
  ASSUME TypeOK, constants' \in Nat, statics' \in Nat,
         UNCHANGED <<lirs, labels, pending, code, origin, raised, pc, current, began, commits>>
  PROVE  TypeOK'
<1>1. /\ {constants', statics', current', began', commits'} \subseteq Nat
      /\ pc' \in {"build", "commit", "done", "wild"} /\ raised' \in BOOLEAN
  BY DEF TypeOK
<1> QED  BY <1>1, CountersTyped

\* A write outside a block ends what is known of the code.
LEMMA OutsideBlockStep ==
  ASSUME IInv, MayBuild, OutsideBlock
  PROVE  IInv'
<1>1. /\ pc = "build" /\ pc' = "wild"
      /\ UNCHANGED <<constants, statics, lirs, labels, pending, code, origin, raised,
                      current, began, commits>>
  BY DEF MayBuild, OutsideBlock, client
<1>2. TypeOK'
  <2>1. {constants', statics', current', began', commits'} \subseteq Nat /\ raised' \in BOOLEAN
    BY <1>1 DEF IInv, TypeOK
  <2> QED  BY <1>1, <2>1, CountersTyped DEF IInv
<1>3. Structured'
  BY <1>1, StructuredKept DEF IInv
<1>4. OperandsKnown'
  <2>1. /\ Functions' = Functions /\ (FirstTry' => FirstTry)
        /\ \A f : ~Committed(f) /\ ~Committed(f)'
    BY <1>1 DEF Functions, FirstTry, Committed
  <2>2. OperandsKnown
    BY DEF IInv
  <2> QED  BY <1>1, <2>1, <2>2 DEF OperandsKnown
<1> QED  BY <1>1, <1>2, <1>3, <1>4, WhileBuilding DEF IInv

LEMMA AllocateConstantStep ==
  ASSUME IInv, AllocateConstant
  PROVE  IInv'
<1> SUFFICES ASSUME Building, constants' = constants + 1,
                    UNCHANGED <<statics, lirs, labels, pending>>
             PROVE  IInv'
  BY OutsideBlockStep DEF AllocateConstant
<1> USE DEF Building, MayBuild
<1>1. TypeOK'
  <2>1. constants' \in Nat /\ statics' \in Nat
    BY DEF IInv, TypeOK
  <2> QED  BY <2>1, StorageTyped DEF IInv
<1>2. Structured'
  BY StructuredKept DEF IInv
<1>3. OperandsKnown'
  BY StorageGrows DEF IInv, TypeOK
<1> QED  BY <1>1, <1>2, <1>3, WhileBuilding DEF IInv

LEMMA AllocateStaticStep ==
  ASSUME IInv, AllocateStatic
  PROVE  IInv'
<1> USE DEF AllocateStatic, Building, MayBuild
<1>1. TypeOK'
  <2>1. constants' \in Nat /\ statics' \in Nat
    BY DEF IInv, TypeOK
  <2> QED  BY <2>1, StorageTyped DEF IInv
<1>2. Structured'
  BY StructuredKept DEF IInv
<1>3. OperandsKnown'
  BY StorageGrows DEF IInv, TypeOK
<1> QED  BY <1>1, <1>2, <1>3, WhileBuilding DEF IInv

LEMMA AddFunctionStep ==
  ASSUME IInv, AddFunction
  PROVE  IInv'
<1> USE DEF AddFunction, Building, MayBuild
<1>0. /\ Functions' = Functions \cup {Len(lirs) + 1}
      /\ lirs'[Len(lirs) + 1] = <<>> /\ labels'[Len(lirs) + 1] = <<>>
      /\ pending'[Len(lirs) + 1] = {}
      /\ \A f \in Functions :
           lirs'[f] = lirs[f] /\ labels'[f] = labels[f] /\ pending'[f] = pending[f]
  BY DEF IInv, TypeOK, Functions
<1>1. TypeOK'
  <2>1. lirs' \in Seq(Seq(LirType)) /\ Len(lirs') = Len(lirs) + 1
    BY DEF IInv, TypeOK
  <2>2. labels' \in Seq(Seq(Nat)) /\ Len(labels') = Len(lirs) + 1
    BY DEF IInv, TypeOK
  <2>3. pending' \in Seq(SUBSET Nat) /\ Len(pending') = Len(lirs) + 1
    <3> DEFINE T == SUBSET Nat
    <3>1. {} \in T /\ pending \in Seq(T) /\ Len(pending) = Len(lirs)
      BY DEF IInv, TypeOK
    <3> HIDE DEF T
    <3>2. Append(pending, {}) \in Seq(T) /\ Len(Append(pending, {})) = Len(lirs) + 1
      BY <3>1
    <3> QED  BY <3>2 DEF T
  <2>4. ASSUME NEW f \in Functions'
        PROVE  /\ \A l \in DOMAIN labels'[f] : labels'[f][l] <= Len(lirs'[f])
               /\ pending'[f] \subseteq DOMAIN labels'[f]
    <3>1. CASE f \in Functions
      BY <1>0, <3>1 DEF IInv, TypeOK
    <3>2. CASE f = Len(lirs) + 1
      <4>1. labels'[f] = <<>> /\ pending'[f] = {}
        BY <1>0, <3>2
      <4> HIDE DEF AddFunction, Building
      <4>2. DOMAIN labels'[f] = {}
        BY <4>1
      <4> QED  BY <4>1, <4>2
    <3> QED  BY <1>0, <3>1, <3>2
  <2>5. origin' \in [DOMAIN code' -> Functions' \X Nat]
    BY <1>0 DEF IInv, TypeOK
  <2> QED  BY <2>1, <2>2, <2>3, <2>4, <2>5 DEF IInv, TypeOK
<1>2. Structured'
  <2>1. \A f \in Functions' : \A k \in DOMAIN lirs'[f] :
          f \in Functions /\ lirs'[f] = lirs[f] /\ labels'[f] = labels[f]
    <3>1. DOMAIN lirs'[Len(lirs) + 1] = {}
      BY <1>0
    <3> QED  BY <1>0, <3>1
  <2>2. \A p \in DOMAIN code : origin[p][1] \in Functions
    BY DEF IInv, TypeOK
  <2>3. origin' \in Seq(Functions' \X Nat) /\ Len(origin') = Len(code')
    <3>1. origin \in Seq(Functions \X Nat) /\ Len(origin) = Len(code)
      BY DEF IInv, Structured
    <3> QED  BY <1>0, <3>1
  <2>4. \A p \in DOMAIN code : /\ lirs'[origin[p][1]] = lirs[origin[p][1]]
                               /\ origin[p][2] <= Len(lirs[origin[p][1]])
                               /\ origin[p][2] = NULL => code[p].op = "ASSURESSZ"
    BY <1>0, <2>2 DEF IInv, Structured
  <2>5. \A f \in Functions : \A k \in DOMAIN lirs[f] :
          lirs[f][k].op = "JMP" => lirs[f][k].name \in DOMAIN labels[f]
    BY DEF IInv, Structured
  <2>6. code' = code /\ origin' = origin
    OBVIOUS
  <2> HIDE DEF AddFunction, Building
  <2> QED  BY <2>1, <2>3, <2>4, <2>5, <2>6 DEF Structured
<1>3. OperandsKnown'
  <2>1. \A f \in Functions' : \A k \in DOMAIN lirs'[f] :
          f \in Functions /\ lirs'[f] = lirs[f]
    <3>1. DOMAIN lirs'[Len(lirs) + 1] = {}
      BY <1>0
    <3> QED  BY <1>0, <3>1
  <2>2. UNCHANGED <<constants, statics, pc, current, commits>>
    OBVIOUS
  <2> HIDE DEF AddFunction, Building
  <2>3. FirstTry' = FirstTry /\ \A f : Committed(f)' = Committed(f)
    BY <2>2 DEF FirstTry, Committed
  <2> QED  BY <2>1, <2>2, <2>3 DEF IInv, OperandsKnown
<1>4. /\ pc = "build" /\ pc' = "build"
      /\ UNCHANGED <<code, origin, current, began, commits>>
  OBVIOUS
<1> HIDE DEF AddFunction, Building
<1> QED  BY <1>1, <1>2, <1>3, <1>4, WhileBuilding DEF IInv

LEMMA AllocLabelStep ==
  ASSUME IInv, NEW f \in Functions, AllocLabel(f)
  PROVE  IInv'
<1> USE DEF AllocLabel, Building, MayBuild
<1>0. /\ f \in 1 .. Len(labels) /\ labels[f] \in Seq(Nat)
      /\ Len(labels') = Len(labels) /\ labels' \in Seq(Seq(Nat))
      /\ labels'[f] = Append(labels[f], NULL)
      /\ \A g \in Functions \ {f} : labels'[g] = labels[g]
  <2>1. /\ f \in 1 .. Len(labels) /\ labels \in Seq(Seq(Nat)) /\ Functions = 1 .. Len(labels)
    BY DEF IInv, TypeOK, Functions
  <2>2. labels' = [labels EXCEPT ![f] = Append(labels[f], NULL)]
    OBVIOUS
  <2> HIDE DEF AllocLabel, Building
  <2>3. labels[f] \in Seq(Nat) /\ Append(labels[f], NULL) \in Seq(Nat)
    BY <2>1 DEF NULL
  <2> QED  BY <2>1, <2>2, <2>3
<1>1. TypeOK'
  <2>1. \A g \in Functions :
          /\ DOMAIN labels[g] \subseteq DOMAIN labels'[g]
          /\ \A l \in DOMAIN labels'[g] : labels'[g][l] <= Len(lirs[g])
    <3> TAKE g \in Functions
    <3>1. \A l \in DOMAIN labels[g] : labels[g][l] <= Len(lirs[g])
      BY DEF IInv, TypeOK
    <3>2. Len(lirs[g]) \in Nat
      BY LirsTyped DEF IInv
    <3>3. CASE g = f
      <4>1. /\ DOMAIN labels[f] = 1 .. Len(labels[f])
            /\ DOMAIN labels'[f] = 1 .. Len(labels[f]) + 1
            /\ \A k \in DOMAIN labels[f] : labels'[f][k] = labels[f][k]
            /\ labels'[f][Len(labels[f]) + 1] = 0
            /\ Len(labels[f]) \in Nat
        BY <1>0, Appended DEF NULL
      <4> QED  BY <3>1, <3>2, <3>3, <4>1
    <3>4. CASE g # f
      BY <1>0, <3>1, <3>4
    <3> QED  BY <3>3, <3>4
  <2> QED  BY <1>0, <2>1 DEF IInv, TypeOK, Functions
<1>2. Structured'
  <2>1. \A g \in Functions : DOMAIN labels[g] \subseteq DOMAIN labels'[g]
    <3>1. DOMAIN labels[f] \subseteq DOMAIN labels'[f]
      BY <1>0, Appended DEF NULL
    <3> QED  BY <1>0, <3>1
  <2> QED  BY <2>1, StructuredKept DEF IInv
<1>3. OperandsKnown'
  BY OperandsKept DEF IInv
<1> QED  BY <1>1, <1>2, <1>3, WhileBuilding DEF IInv

LEMMA BindStep ==
  ASSUME IInv, NEW f \in Functions, NEW l \in DOMAIN labels[f], Bind(f, l)
  PROVE  IInv'
<1> SUFFICES ASSUME Building, pending' = [pending EXCEPT ![f] = pending[f] \cup {l}],
                    UNCHANGED <<constants, statics, lirs, labels>>
             PROVE  IInv'
  BY OutsideBlockStep DEF Bind
<1> USE DEF Building, MayBuild
<1>0. /\ pending' \in Seq(SUBSET Nat) /\ Len(pending') = Len(pending)
      /\ pending'[f] = pending[f] \cup {l}
      /\ \A g \in Functions \ {f} : pending'[g] = pending[g]
  <2>1. /\ f \in 1 .. Len(pending) /\ pending \in Seq(SUBSET Nat)
        /\ Functions = 1 .. Len(pending)
    BY DEF IInv, TypeOK, Functions
  <2>2. pending' = [pending EXCEPT ![f] = pending[f] \cup {l}]
    OBVIOUS
  <2>3. l \in Nat
    BY LirsTyped DEF IInv
  <2> HIDE DEF Building
  <2>4. pending[f] \cup {l} \in SUBSET Nat
    BY <2>1, <2>3
  <2> QED  BY <2>1, <2>2, <2>4
<1>1. TypeOK'
  BY <1>0 DEF IInv, TypeOK, Functions
<1>2. Structured'
  BY StructuredKept DEF IInv
<1>3. OperandsKnown'
  BY OperandsKept DEF IInv
<1> QED  BY <1>1, <1>2, <1>3, WhileBuilding DEF IInv

\* An instruction that may be appended to the function f.
Emittable(f, lir) ==
  /\ lir \in LirType
  /\ lir.index = lir.name
  /\ lir.op = "LOADCONST" => lir.name < constants
  /\ lir.op \in {"LOADGLOBAL", "STORE"} => lir.name < statics
  /\ lir.op = "JMP" => lir.name \in DOMAIN labels[f]

LEMMA AppendLirStep ==
  ASSUME IInv, Building, UNCHANGED <<constants, statics>>,
         NEW f \in Functions, NEW lir, Emittable(f, lir), AppendLir(f, lir)
  PROVE  IInv'
<1> DEFINE s == lirs[f]
           t == Append(s, lir)
           bound == [l \in DOMAIN labels[f] |->
                       IF l \in pending[f] /\ labels[f][l] = NULL
                         THEN Len(s) + 1 ELSE labels[f][l]]
<1>1. /\ f \in 1 .. Len(lirs) /\ s \in Seq(LirType) /\ labels[f] \in Seq(Nat)
      /\ pending[f] \in SUBSET Nat
      /\ Len(labels) = Len(lirs) /\ Len(pending) = Len(lirs)
      /\ \A l \in DOMAIN labels[f] : labels[f][l] <= Len(s)
  BY LirsTyped DEF IInv, TypeOK
<1>2. /\ t \in Seq(LirType) /\ Len(t) = Len(s) + 1 /\ Len(s) \in Nat
      /\ DOMAIN s = 1 .. Len(s) /\ DOMAIN t = 1 .. Len(s) + 1
      /\ \A k \in DOMAIN s : t[k] = s[k]
      /\ t[Len(s) + 1] = lir
  BY <1>1, Appended DEF Emittable
<1>3. /\ bound \in Seq(Nat) /\ DOMAIN bound = DOMAIN labels[f]
      /\ \A l \in DOMAIN bound : bound[l] <= Len(s) + 1
  <2>1. \A l \in DOMAIN labels[f] : labels[f][l] \in Nat
    BY <1>1
  <2>2. \A l \in DOMAIN bound : bound[l] \in Nat /\ bound[l] <= Len(s) + 1
    BY <1>1, <1>2, <2>1
  <2>3. DOMAIN bound = 1 .. Len(labels[f]) /\ Len(labels[f]) \in Nat
    BY <1>1
  <2>4. bound = [l \in DOMAIN bound |-> bound[l]]
    OBVIOUS
  <2> HIDE DEF bound
  <2>5. bound \in [1 .. Len(labels[f]) -> Nat]
    BY <2>2, <2>3, <2>4
  <2>6. bound \in Seq(Nat)
    BY <2>3, <2>5
  <2> QED  BY <2>2, <2>3, <2>6, LirsTyped DEF IInv
<1>4. /\ lirs' = [lirs EXCEPT ![f] = t]
      /\ labels' = [labels EXCEPT ![f] = bound]
      /\ pending' = [pending EXCEPT ![f] = {}]
      /\ UNCHANGED <<code, origin, raised, pc, current, began, commits, constants, statics>>
      /\ pc = "build"
  BY DEF AppendLir, BindPending, Building, MayBuild
<1> HIDE DEF s, t, bound
<1>5. /\ lirs' \in Seq(Seq(LirType)) /\ Len(lirs') = Len(lirs)
      /\ lirs'[f] = t /\ \A g \in Functions \ {f} : lirs'[g] = lirs[g]
      /\ Functions' = Functions
  BY <1>1, <1>2, <1>4 DEF IInv, TypeOK, Functions
<1>6. /\ labels' \in Seq(Seq(Nat)) /\ Len(labels') = Len(lirs)
      /\ labels'[f] = bound /\ \A g \in Functions \ {f} : labels'[g] = labels[g]
  BY <1>1, <1>3, <1>4 DEF IInv, TypeOK, Functions
<1>7. /\ pending' \in Seq(SUBSET Nat) /\ Len(pending') = Len(lirs)
      /\ pending'[f] = {} /\ \A g \in Functions \ {f} : pending'[g] = pending[g]
  <2> DEFINE T == SUBSET Nat
  <2>1. {} \in T /\ pending \in Seq(T)
    BY DEF IInv, TypeOK
  <2> HIDE DEF T
  <2>2. pending \in [1 .. Len(pending) -> T] /\ Len(pending) \in Nat
    BY <2>1
  <2>3. pending' \in [1 .. Len(pending) -> T]
    BY <1>4, <2>1, <2>2
  <2>4. pending' \in Seq(T)
    BY <2>2, <2>3
  <2> QED  BY <1>1, <1>4, <2>4 DEF T, IInv, TypeOK, Functions
<1>8. TypeOK'
  <2>1. ASSUME NEW g \in Functions
        PROVE  /\ \A l \in DOMAIN labels'[g] : labels'[g][l] <= Len(lirs'[g])
               /\ pending'[g] \subseteq DOMAIN labels'[g]
    <3>1. CASE g = f
      BY <1>2, <1>3, <1>5, <1>6, <1>7, <3>1
    <3>2. CASE g # f
      BY <1>5, <1>6, <1>7, <3>2 DEF IInv, TypeOK
    <3> QED  BY <3>1, <3>2
  <2>2. /\ {constants, statics, current, began, commits}' \subseteq Nat
        /\ code' \in Seq(WordType)
        /\ origin' \in [DOMAIN code' -> Functions' \X Nat]
        /\ pc' \in {"build", "commit", "done", "wild"} /\ raised' \in BOOLEAN
    BY <1>4, <1>5 DEF IInv, TypeOK
  <2> QED  BY <1>5, <1>6, <1>7, <2>1, <2>2 DEF TypeOK
<1>9. Structured'
  <2>1. \A g \in Functions :
          /\ Len(lirs[g]) \in Nat /\ Len(lirs'[g]) \in Nat
          /\ Len(lirs[g]) <= Len(lirs'[g])
    <3> TAKE g \in Functions
    <3>1. Len(lirs[g]) \in Nat
      BY LirsTyped DEF IInv
    <3>2. CASE g = f
      BY <1>2, <1>5, <3>2 DEF s
    <3>3. CASE g # f
      BY <1>5, <3>1, <3>3
    <3> QED  BY <3>2, <3>3
  <2>2. origin' \in Seq(Functions' \X Nat) /\ Len(origin') = Len(code')
    BY <1>4, <1>5 DEF IInv, Structured
  <2>3. ASSUME NEW p \in DOMAIN code
        PROVE  /\ origin[p][2] <= Len(lirs'[origin[p][1]])
               /\ origin[p][2] = NULL => code[p].op = "ASSURESSZ"
    <3>1. /\ origin[p][1] \in Functions /\ origin[p][2] \in Nat
          /\ origin[p][2] <= Len(lirs[origin[p][1]])
          /\ origin[p][2] = NULL => code[p].op = "ASSURESSZ"
      BY DEF IInv, TypeOK, Structured
    <3>2. /\ Len(lirs[origin[p][1]]) \in Nat /\ Len(lirs'[origin[p][1]]) \in Nat
          /\ Len(lirs[origin[p][1]]) <= Len(lirs'[origin[p][1]])
      BY <2>1, <3>1
    <3> QED  BY <3>1, <3>2
  <2>4. ASSUME NEW g \in Functions, NEW k \in DOMAIN lirs'[g], lirs'[g][k].op = "JMP"
        PROVE  lirs'[g][k].name \in DOMAIN labels'[g]
    <3>1. CASE g = f /\ k \in DOMAIN s
      BY <1>2, <1>3, <1>5, <1>6, <2>4, <3>1 DEF IInv, Structured, s
    <3>2. CASE g = f /\ k = Len(s) + 1
      BY <1>2, <1>3, <1>5, <1>6, <2>4, <3>2 DEF Emittable
    <3>3. CASE g # f
      BY <1>5, <1>6, <2>4, <3>3 DEF IInv, Structured
    <3> QED  BY <1>2, <1>5, <3>1, <3>2, <3>3
  <2> QED  BY <1>4, <1>5, <2>2, <2>3, <2>4 DEF Structured
<1>10. OperandsKnown'
  <2> SUFFICES ASSUME FirstTry, NEW g \in Functions, NEW k \in DOMAIN lirs'[g]
               PROVE  LET now == lirs'[g][k] IN
                        /\ now.op = "LOADCONST" => now.name < constants
                        /\ now.op \in {"LOADGLOBAL", "STORE"} => now.name < statics
                        /\ now.index = now.name
    BY <1>4, <1>5 DEF OperandsKnown, FirstTry, Committed
  <2>1. CASE g = f /\ k \in DOMAIN s
    <3>1. lirs'[g][k] = lirs[f][k]
      BY <1>2, <1>5, <2>1 DEF s
    <3>2. /\ lirs[f][k].op = "LOADCONST" => lirs[f][k].name < constants
          /\ lirs[f][k].op \in {"LOADGLOBAL", "STORE"} => lirs[f][k].name < statics
          /\ lirs[f][k].index = lirs[f][k].name
      BY <1>4, <2>1 DEF IInv, OperandsKnown, Committed, s
    <3> QED  BY <3>1, <3>2
  <2>2. CASE g = f /\ k = Len(s) + 1
    BY <1>2, <1>5, <2>2 DEF Emittable
  <2>3. CASE g # f
    BY <1>4, <1>5, <2>3 DEF IInv, OperandsKnown, Committed
  <2> QED  BY <1>2, <1>5, <2>1, <2>2, <2>3
<1> QED  BY <1>4, <1>8, <1>9, <1>10, WhileBuilding DEF IInv

LEMMA EmitLirStep ==
  ASSUME IInv, NEW f \in Functions, EmitLir(f)
  PROVE  IInv'
<1>0. Building /\ UNCHANGED <<constants, statics>>
  BY DEF EmitLir
<1>1. constants \in Nat /\ statics \in Nat /\ DOMAIN labels[f] \subseteq Nat
  <2>1. DOMAIN labels[f] = 1 .. Len(labels[f]) /\ Len(labels[f]) \in Nat
    BY LirsTyped DEF IInv
  <2> QED  BY <2>1 DEF IInv, TypeOK
<1>2. \E lir : Emittable(f, lir) /\ AppendLir(f, lir)
  <2>1. ASSUME NEW place \in Places, NEW c \in 0 .. constants - 1
        PROVE  Emittable(f, Lir("LOADCONST", c, place))
    BY <1>1, LIRCompilerAssumption DEF Emittable, Lir, LirType
  <2>2. ASSUME NEW place \in Places, NEW n \in 0 .. statics - 1,
               NEW op \in {"LOADGLOBAL", "STORE"}
        PROVE  Emittable(f, Lir(op, n, place))
    BY <1>1, LIRCompilerAssumption DEF Emittable, Lir, LirType
  <2>3. ASSUME NEW place \in Places
        PROVE  Emittable(f, Lir("PUSH", 0, place))
    BY LIRCompilerAssumption DEF Emittable, Lir, LirType
  <2>4. ASSUME NEW l \in DOMAIN labels[f]
        PROVE  Emittable(f, Lir("JMP", l, "argument"))
    BY <1>1 DEF Emittable, Lir, LirType, AllPlaces
  <2> HIDE DEF Emittable
  <2> QED  BY <2>1, <2>2, <2>3, <2>4 DEF EmitLir
<1> QED  BY <1>0, <1>2, AppendLirStep

-----------------------------------------------------------------------------
\* A commit begins behind the code that is there, with the first function.
LEMMA BeginCommitStep ==
  ASSUME IInv, BeginCommit
  PROVE  IInv'
<1> DEFINE c == Len(code)
<1>0. /\ c \in Nat /\ commits \in Nat /\ {constants, statics} \subseteq Nat
      /\ \A f \in Functions : ~(f < 1)
      /\ commits = 0 => code = <<>> /\ origin = <<>>
  BY DEF IInv, TypeOK, Progressing, Structured, Functions
<1>a. /\ pc = "build" /\ pc' = "commit" /\ current' = 1 /\ began' = c
      /\ commits' = commits + 1
      /\ UNCHANGED <<constants, statics, lirs, labels, pending, code, origin, raised>>
  BY DEF BeginCommit, client
<1>b. Functions' = Functions
  BY <1>a DEF Functions
<1>1. TypeOK'
  <2> HIDE DEF c
  <2>1. {constants', statics', current', began', commits'} \subseteq Nat
    BY <1>0, <1>a
  <2>2. raised' \in BOOLEAN
    BY <1>a DEF IInv, TypeOK
  <2> QED  BY <1>a, <2>1, <2>2, CountersTyped DEF IInv
<1>2. Structured'
  BY <1>a, StructuredKept DEF IInv
<1>3. Progressing'
  <2>1. commits' # 0 /\ began' <= Len(code') /\ current' \in Nat \ {0}
    BY <1>0, <1>a
  <2> QED  BY <1>a, <2>1 DEF Progressing
<1>4. FirstTry' => commits = 0 /\ FirstTry /\ code' = <<>> /\ origin' = <<>>
  BY <1>0, <1>a DEF FirstTry
<1>5. OperandsKnown'
  <2>1. \A f \in Functions : ~Committed(f) /\ ~Committed(f)'
    BY <1>0, <1>a DEF Committed
  <2>2. OperandsKnown
    BY DEF IInv
  <2> QED  BY <1>4, <1>a, <1>b, <2>1, <2>2 DEF OperandsKnown
<1>6. WordsKnown' /\ OrderedSoFar'
  BY <1>4 DEF WordsKnown, OrderedSoFar
<1>7. CompleteSoFar'
  <2> SUFFICES ASSUME FirstTry'
               PROVE  ToSet(<<>>) =
                        (UNION {LirsOf(f) : f \in {g \in Functions : g < 1}})
                          \cup {<<f, NULL>> : f \in {g \in Functions : g < 1 /\ HasFrame(lirs[g])}}
    BY <1>4, <1>a DEF CompleteSoFar, LirsOf, Functions
  <2> QED  BY <1>0 DEF ToSet
<1>8. StandsWhole'
  <2>1. ASSUME NEW n \in Nat PROVE n + 1 .. n = {}
    OBVIOUS
  <2>2. (began + 1 .. Len(code))' = {}
    <3>1. (began + 1 .. Len(code))' = c + 1 .. c
      BY <1>a
    <3> QED  BY <1>0, <2>1, <3>1
  <2> QED  BY <2>2 DEF StandsWhole
<1> QED  BY <1>1, <1>2, <1>3, <1>5, <1>6, <1>7, <1>8 DEF IInv

\* Where a commit ends or gives up, nothing is asked of its code any more.
LEMMA LeavingCommit ==
  ASSUME IInv, pc = "commit", pc' # "commit", UNCHANGED <<current, commits>>
  PROVE  /\ Progressing' /\ OperandsKnown' /\ WordsKnown'
         /\ OrderedSoFar' /\ CompleteSoFar' /\ StandsWhole'
<1>1. commits # 0
  BY DEF IInv, Progressing
<1>2. ~FirstTry'
  BY <1>1 DEF FirstTry
<1>3. Progressing'
  BY <1>1 DEF IInv, Progressing
<1>4. OperandsKnown' /\ WordsKnown' /\ OrderedSoFar'
  BY <1>2 DEF OperandsKnown, WordsKnown, OrderedSoFar
<1>5. CompleteSoFar' /\ StandsWhole'
  BY DEF CompleteSoFar, StandsWhole
<1> QED  BY <1>3, <1>4, <1>5

LEMMA CommitRefusedStep ==
  ASSUME IInv, CommitRefused
  PROVE  IInv'
<1>1. TypeOK'
  BY DEF IInv, TypeOK, Functions, CommitRefused, client
<1>2. Structured'
  BY DEF IInv, Structured, Functions, CommitRefused, client
<1>3. pc = "commit" /\ pc' # "commit" /\ UNCHANGED <<current, commits>>
  BY DEF CommitRefused
<1> QED  BY <1>1, <1>2, <1>3, LeavingCommit DEF IInv

LEMMA CreateEnvStep ==
  ASSUME IInv, CreateEnv
  PROVE  IInv'
<1>1. /\ pc = "commit" /\ pc' \in {"build", "done", "wild"}
      /\ UNCHANGED <<statics, lirs, labels, pending, raised, current, began, commits>>
      /\ \/ UNCHANGED <<code, origin>>
         \/ code' = <<>> /\ origin' = <<>>
      /\ constants' \in {0, constants, constants + statics}
  BY DEF CreateEnv
<1>2. TypeOK'
  <2>1. {constants, statics, current, began, commits}' \subseteq Nat
    BY <1>1 DEF IInv, TypeOK
  <2>2. CASE UNCHANGED <<code, origin>>
    BY <1>1, <2>1, <2>2 DEF IInv, TypeOK, Functions
  <2>3. CASE code' = <<>> /\ origin' = <<>>
    <3>1. code' \in Seq(WordType) /\ origin' \in [DOMAIN code' -> Functions' \X Nat]
      BY <2>3
    <3> QED  BY <1>1, <2>1, <3>1 DEF IInv, TypeOK, Functions
  <2> QED  BY <1>1, <2>2, <2>3
<1>3. Structured'
  <2>1. CASE UNCHANGED <<code, origin>>
    BY <1>1, <2>1 DEF IInv, Structured, Functions
  <2>2. CASE code' = <<>> /\ origin' = <<>>
    <3>1. /\ origin' \in Seq(Functions' \X Nat) /\ Len(origin') = Len(code')
          /\ DOMAIN code' = {}
      BY <2>2
    <3> QED  BY <1>1, <3>1 DEF IInv, Structured, Functions
  <2> QED  BY <1>1, <2>1, <2>2
<1>4. pc' # "commit"
  BY <1>1
<1> QED  BY <1>1, <1>2, <1>3, <1>4, LeavingCommit DEF IInv

-----------------------------------------------------------------------------
\* What CommitFunction makes of its function: the instructions with the statics
\* moved, the words, and where they come from.
Moved == WithStatics(lirs[current])

MovedAt == Offsets(Moved, Len(code))

Ahead == Len(Reserve(Moved))

Words == Reserve(Moved) \o [k \in DOMAIN Moved |-> WordOf(current, Moved, MovedAt, k)]

Froms == [k \in DOMAIN Words |-> <<current, k - Ahead>>]

LEMMA MovedIs ==
  ASSUME TypeOK, current \in Functions
  PROVE  /\ Moved \in Seq(LirType)
         /\ DOMAIN Moved = DOMAIN lirs[current] /\ Len(Moved) = Len(lirs[current])
         /\ \A k \in DOMAIN lirs[current] :
              /\ Moved[k].op = lirs[current][k].op
              /\ Moved[k].name = lirs[current][k].name
              /\ Moved[k].place = lirs[current][k].place
              /\ Moved[k].index = IF lirs[current][k].op \in {"LOADGLOBAL", "STORE"}
                                    THEN lirs[current][k].index + constants
                                    ELSE lirs[current][k].index
<1> DEFINE s == lirs[current]
<1>1. s \in Seq(LirType) /\ DOMAIN s = 1 .. Len(s) /\ Len(s) \in Nat /\ constants \in Nat
  BY LirsTyped DEF TypeOK
<1>2. DOMAIN Moved = DOMAIN s
  BY DEF Moved, WithStatics
<1>3. ASSUME NEW k \in DOMAIN s
      PROVE  /\ Moved[k] \in LirType
             /\ Moved[k].op = s[k].op /\ Moved[k].name = s[k].name
             /\ Moved[k].place = s[k].place
             /\ Moved[k].index = IF s[k].op \in {"LOADGLOBAL", "STORE"}
                                   THEN s[k].index + constants ELSE s[k].index
  <2>1. s[k] \in LirType
    BY <1>1
  <2>2. Moved[k] = IF s[k].op \in {"LOADGLOBAL", "STORE"}
                     THEN [s[k] EXCEPT !.index = @ + constants] ELSE s[k]
    BY DEF Moved, WithStatics
  <2> HIDE DEF s
  <2>3. s[k].index \in Nat /\ s[k].index + constants \in Nat
    BY <1>1, <2>1 DEF LirType
  <2>4. CASE s[k].op \in {"LOADGLOBAL", "STORE"}
    <3> DEFINE r == s[k]
    <3>1. r \in LirType /\ Moved[k] = [r EXCEPT !.index = r.index + constants]
      BY <2>1, <2>2, <2>4
    <3> HIDE DEF r
    <3>2. /\ Moved[k] \in LirType
          /\ Moved[k].op = r.op /\ Moved[k].name = r.name
          /\ Moved[k].place = r.place /\ Moved[k].index = r.index + constants
      <4>1. r.index + constants \in Nat
        BY <2>3 DEF r
      <4> QED  BY <3>1, <4>1 DEF LirType
    <3> QED  BY <2>4, <3>2 DEF r
  <2>5. CASE s[k].op \notin {"LOADGLOBAL", "STORE"}
    BY <2>1, <2>2, <2>5
  <2> QED  BY <2>4, <2>5
<1>4. Moved \in [1 .. Len(s) -> LirType]
  <2>1. Moved = [k \in DOMAIN s |-> Moved[k]]
    BY DEF Moved, WithStatics
  <2> HIDE DEF s
  <2> QED  BY <1>1, <1>2, <1>3, <2>1
<1>5. Moved \in Seq(LirType) /\ Len(Moved) = Len(s)
  <2> HIDE DEF s
  <2> QED  BY <1>1, <1>4
<1> QED  BY <1>2, <1>3, <1>5

\* The instructions before k that are counted as two words.
LongBefore(k) == {j \in 1 .. k - 1 : TakesTwoWords(Moved[j])}

\* Offsets grow with the instruction, and by one over a word that is counted once.
LEMMA OffsetsAre ==
  ASSUME TypeOK, current \in Functions, NEW k \in DOMAIN Moved
  PROVE  /\ k \in Nat /\ MovedAt[k] \in Nat
         /\ Cardinality(LongBefore(k)) \in Nat
         /\ MovedAt[k] = Len(code) + k - 1 + Cardinality(LongBefore(k))
<1>1. k \in DOMAIN lirs[current] /\ k \in Nat /\ k # 0 /\ Len(code) \in Nat
  <2>1. DOMAIN lirs[current] = 1 .. Len(lirs[current])
    BY LirsTyped
  <2>2. DOMAIN Moved = DOMAIN lirs[current]
    BY MovedIs
  <2>3. Len(code) \in Nat
    BY DEF TypeOK
  <2> DEFINE m == Len(lirs[current])
  <2>4. m \in Nat /\ k \in 1 .. m
    BY <2>1, <2>2, LirsTyped
  <2> HIDE DEF m
  <2>5. k \in Nat /\ k # 0
    BY <2>4
  <2> QED  BY <2>2, <2>3, <2>5
<1>2. Cardinality(LongBefore(k)) \in Nat
  <2>1. IsFiniteSet(1 .. k - 1)
    BY <1>1, FS_Interval
  <2>2. LongBefore(k) \in SUBSET (1 .. k - 1)
    BY DEF LongBefore
  <2>3. IsFiniteSet(LongBefore(k))
    BY <2>1, <2>2, FS_Subset
  <2> QED  BY <2>3, FS_CardinalityType
<1>3. MovedAt[k] = Len(code) + k - 1 + Cardinality(LongBefore(k))
  BY DEF MovedAt, Offsets, LongBefore
<1>4. MovedAt[k] \in Nat
  <2> DEFINE n == Cardinality(LongBefore(k))
  <2>1. n \in Nat /\ MovedAt[k] = Len(code) + k - 1 + n
    BY <1>2, <1>3
  <2> HIDE DEF n
  <2> QED  BY <1>1, <2>1
<1> QED  BY <1>1, <1>2, <1>3, <1>4

LEMMA LongBeforeSame ==
  ASSUME NEW k \in Nat, NEW label \in Nat, k # 0, label # 0, ShortBetween(Moved, k, label)
  PROVE  LongBefore(k) = LongBefore(label)
<1>1. CASE label <= k
  <2>1. \A j \in label .. k - 1 : ~TakesTwoWords(Moved[j])
    BY <1>1 DEF ShortBetween, Passed
  <2>2. \A j \in 1 .. k - 1 : j \in 1 .. label - 1 \/ j \in label .. k - 1
    OBVIOUS
  <2>3. \A j \in 1 .. label - 1 : j \in 1 .. k - 1
    BY <1>1
  <2> QED  BY <2>1, <2>2, <2>3 DEF LongBefore
<1>2. CASE ~(label <= k)
  <2>1. \A j \in k .. label - 1 : ~TakesTwoWords(Moved[j])
    BY <1>2 DEF ShortBetween, Passed
  <2>2. \A j \in 1 .. label - 1 : j \in 1 .. k - 1 \/ j \in k .. label - 1
    OBVIOUS
  <2>3. \A j \in 1 .. k - 1 : j \in 1 .. label - 1
    BY <1>2
  <2> QED  BY <2>1, <2>2, <2>3 DEF LongBefore
<1> QED  BY <1>1, <1>2

LEMMA WordIs ==
  ASSUME IInv, current \in Functions, LabelsBound(current), NEW k \in DOMAIN Moved
  PROVE  LET w == WordOf(current, Moved, MovedAt, k)
             lir == lirs[current][k]
             label == labels[current][lir.name]
         IN
           /\ w \in WordType
           /\ w.op \in {"LOAD", "STORE"} =>
                lir.op \in LoadsData /\ w.arg = Moved[k].index % (UINT18_MAX + 1)
           /\ w.op \in {"JMP", "JMPGC"} =>
                /\ label \in DOMAIN lirs[current]
                /\ ShortBetween(Moved, k, label) => w = JumpBetween(k, label)
<1> DEFINE w == WordOf(current, Moved, MovedAt, k)
           lir == lirs[current][k]
           label == labels[current][lir.name]
           index == Moved[k].index
<1>1. /\ k \in DOMAIN lirs[current] /\ DOMAIN Moved = DOMAIN lirs[current]
      /\ DOMAIN lirs[current] = 1 .. Len(lirs[current]) /\ Len(lirs[current]) \in Nat
      /\ Moved[k].op = lir.op /\ Moved[k].name = lir.name
      /\ Moved[k] \in LirType
      /\ lir.op \in {"LOADCONST", "LOADGLOBAL", "STORE", "PUSH", "JMP"}
  BY MovedIs, LirsTyped DEF IInv
<1>2. index \in Nat
  BY <1>1 DEF LirType
<1>3. UINT18_MAX + 1 \in Nat /\ UINT18_MAX + 1 > 0
  BY LIRCompilerAssumption
<1>4. index % (UINT18_MAX + 1) \in Nat
  BY <1>2, <1>3
<1>5. CASE lir.op \in {"LOADCONST", "LOADGLOBAL"}
  <2>1. w = [op |-> "LOAD", arg |-> index % (UINT18_MAX + 1)]
    BY <1>1, <1>5 DEF WordOf
  <2> HIDE DEF w, index
  <2> QED  BY <1>4, <1>5, <2>1 DEF WordType, LoadsData, index, w
<1>6. CASE lir.op = "STORE"
  <2>1. w = [op |-> "STORE", arg |-> index % (UINT18_MAX + 1)]
    BY <1>1, <1>6 DEF WordOf
  <2> QED  BY <1>4, <1>6, <2>1 DEF WordType, LoadsData
<1>7. CASE lir.op = "PUSH"
  <2>1. w = [op |-> "PUSHC", arg |-> 0]
    BY <1>1, <1>7 DEF WordOf
  <2> QED  BY <1>7, <2>1 DEF WordType
<1>8. CASE lir.op = "JMP"
  <2>1. w = Displacement(MovedAt[k], MovedAt[label])
    BY <1>1, <1>8 DEF WordOf
  <2>2. label \in DOMAIN lirs[current]
    <3>1. label # 0
      BY <1>1, <1>8 DEF LabelsBound, NULL
    <3>2. lir.name \in DOMAIN labels[current]
      BY <1>1, <1>8 DEF IInv, Structured
    <3>3. label \in Nat /\ label <= Len(lirs[current])
      <4>1. labels[current] \in Seq(Nat)
        BY LirsTyped DEF IInv
      <4>2. label <= Len(lirs[current])
        BY <3>2 DEF IInv, TypeOK
      <4> QED  BY <3>2, <4>1, <4>2
    <3> QED  BY <1>1, <3>1, <3>3
  <2>3. /\ MovedAt[k] \in Nat /\ k \in Nat /\ k # 0
        /\ Cardinality(LongBefore(k)) \in Nat
        /\ MovedAt[k] = Len(code) + k - 1 + Cardinality(LongBefore(k))
    BY <1>1, OffsetsAre DEF IInv
  <2>a. label \in DOMAIN Moved /\ label # 0
    BY <1>1, <2>2
  <2>b. /\ MovedAt[label] \in Nat /\ label \in Nat
        /\ MovedAt[label] = Len(code) + label - 1 + Cardinality(LongBefore(label))
    BY <2>a, OffsetsAre DEF IInv
  <2>4. Len(code) \in Nat
    BY DEF IInv, TypeOK
  <2> DEFINE from == MovedAt[k]
             to == MovedAt[label]
  <2>5. from \in Nat /\ to \in Nat /\ w = Displacement(from, to)
    BY <2>1, <2>3, <2>b
  <2>6. w \in WordType
    <3> HIDE DEF w, from, to
    <3>1. CASE to <= from
      <4>1. from - to \in Nat
        BY <2>5, <3>1
      <4> QED  BY <2>5, <3>1, <4>1 DEF Displacement, WordType
    <3>2. CASE ~(to <= from)
      <4>1. to - from \in Nat
        BY <2>5, <3>2
      <4> QED  BY <2>5, <3>2, <4>1 DEF Displacement, WordType
    <3> QED  BY <3>1, <3>2
  <2>7. ASSUME ShortBetween(Moved, k, label)
        PROVE  w = JumpBetween(k, label)
    <3> DEFINE c == Cardinality(LongBefore(k))
    <3>0. LongBefore(label) = LongBefore(k)
      BY <2>3, <2>7, <2>a, <2>b, LongBeforeSame
    <3> HIDE DEF w, from, to, label
    <3>1. c \in Nat /\ from = Len(code) + k - 1 + c /\ to = Len(code) + label - 1 + c
      BY <2>3, <2>b, <3>0 DEF from, to
    <3> HIDE DEF c
    <3>2. (to <= from) = (label <= k) /\ from - to = k - label /\ to - from = label - k
      <4> DEFINE a == Len(code)
      <4>1. /\ a \in Nat /\ c \in Nat /\ k \in Nat /\ label \in Nat
            /\ from = a + k - 1 + c /\ to = a + label - 1 + c
        BY <2>3, <2>b, <2>4, <3>1
      <4> HIDE DEF a
      <4> QED  BY <4>1
    <3> QED  BY <2>5, <3>2 DEF Displacement, JumpBetween
  <2>8. w.op \in {"JMP", "JMPGC"}
    BY <2>5 DEF Displacement
  <2> HIDE DEF w, label
  <2>9. w.op \notin {"LOAD", "STORE"}
    BY <2>8
  <2> QED  BY <2>2, <2>6, <2>7, <2>9 DEF w, label
<1> QED  BY <1>1, <1>5, <1>6, <1>7, <1>8

\* The words of a function are those of its instructions, behind the one that
\* asks for a frame.
LEMMA WordsAre ==
  ASSUME IInv, current \in Functions, LabelsBound(current)
  PROVE  /\ Ahead \in {0, 1} /\ (Ahead = 1 <=> HasFrame(lirs[current]))
         /\ Words \in Seq(WordType) /\ Len(Words) = Ahead + Len(lirs[current])
         /\ \A p \in 1 .. Ahead : Words[p].op = "ASSURESSZ"
         /\ \A k \in DOMAIN lirs[current] :
              Words[Ahead + k] = WordOf(current, Moved, MovedAt, k)
         /\ Froms \in Seq(Functions \X Nat) /\ Len(Froms) = Len(Words)
         /\ \A p \in DOMAIN Words : Froms[p] = <<current, p - Ahead>>
<1> DEFINE tail == [k \in DOMAIN Moved |-> WordOf(current, Moved, MovedAt, k)]
           n == Len(lirs[current])
           r == Reserve(Moved)
<1>1. /\ DOMAIN Moved = 1 .. n /\ DOMAIN lirs[current] = 1 .. n /\ n \in Nat
  BY MovedIs, LirsTyped DEF IInv
<1>2. tail \in Seq(WordType) /\ Len(tail) = n
  <2>1. \A k \in 1 .. n : tail[k] \in WordType
    BY <1>1, WordIs
  <2>2. DOMAIN tail = 1 .. n /\ tail = [k \in 1 .. n |-> tail[k]]
    BY <1>1
  <2> HIDE DEF tail, n
  <2>3. tail \in [1 .. n -> WordType]
    BY <2>1, <2>2
  <2> QED  BY <1>1, <2>3
<1>3. HasFrame(Moved) <=> HasFrame(lirs[current])
  BY MovedIs DEF HasFrame, IInv
<1>4. /\ r \in Seq(WordType) /\ Len(r) = Ahead /\ Ahead \in {0, 1}
      /\ Ahead = 1 <=> HasFrame(lirs[current])
      /\ \A p \in 1 .. Ahead : r[p].op = "ASSURESSZ"
  <2> DEFINE word == [op |-> "ASSURESSZ", arg |-> 0]
  <2>1. word \in WordType /\ word.op = "ASSURESSZ"
    BY DEF WordType
  <2>2. r = IF HasFrame(Moved) THEN <<word>> ELSE <<>>
    BY DEF Reserve
  <2> HIDE DEF word, r
  <2>3. CASE HasFrame(Moved)
    <3>1. r = <<word>> /\ Len(r) = 1 /\ r[1] = word /\ r \in Seq(WordType)
      BY <2>1, <2>2, <2>3
    <3> QED  BY <1>3, <2>1, <2>3, <3>1 DEF Ahead, r
  <2>4. CASE ~HasFrame(Moved)
    <3>1. r = <<>> /\ Len(r) = 0 /\ r \in Seq(WordType)
      BY <2>2, <2>4
    <3> QED  BY <1>3, <2>4, <3>1 DEF Ahead, r
  <2> QED  BY <2>3, <2>4
<1>5. Words = r \o tail
  BY DEF Words
<1>6. \A k \in 1 .. n : tail[k] = WordOf(current, Moved, MovedAt, k)
  BY <1>1
<1> HIDE DEF tail, n, r
<1>7. /\ Words \in Seq(WordType) /\ Len(Words) = Ahead + n
      /\ \A p \in 1 .. Ahead : Words[p] = r[p]
      /\ \A k \in 1 .. n : Words[Ahead + k] = tail[k]
  <2>1. Words \in Seq(WordType) /\ Len(Words) = Ahead + n
    BY <1>2, <1>4, <1>5
  <2>2. \A p \in 1 .. Ahead : Words[p] = r[p]
    BY <1>2, <1>4, <1>5
  <2>3. \A k \in 1 .. n : Words[Ahead + k] = tail[k]
    <3> TAKE k \in 1 .. n
    <3>1. Ahead + k \in 1 .. Len(r) + Len(tail) /\ ~(Ahead + k <= Len(r))
      BY <1>1, <1>2, <1>4
    <3>2. Words[Ahead + k] = tail[Ahead + k - Len(r)]
      BY <1>2, <1>4, <1>5, <3>1
    <3>3. Ahead + k - Len(r) = k
      BY <1>1, <1>4
    <3> QED  BY <3>2, <3>3
  <2> QED  BY <2>1, <2>2, <2>3
<1>8. /\ Froms \in Seq(Functions \X Nat) /\ Len(Froms) = Len(Words)
      /\ \A p \in DOMAIN Words : Froms[p] = <<current, p - Ahead>>
  <2>1. DOMAIN Words = 1 .. Len(Words) /\ Len(Words) \in Nat
    BY <1>7
  <2>2. \A p \in DOMAIN Words : p - Ahead \in Nat
    BY <1>4, <2>1
  <2>3. Froms \in [1 .. Len(Words) -> Functions \X Nat]
    BY <2>1, <2>2 DEF Froms
  <2>4. Froms \in Seq(Functions \X Nat) /\ Len(Froms) = Len(Words)
    BY <2>1, <2>3
  <2> QED  BY <2>4 DEF Froms
<1> QED  BY <1>1, <1>4, <1>6, <1>7, <1>8 DEF n

LEMMA Joined ==
  ASSUME NEW S, NEW s \in Seq(S), NEW t \in Seq(S), NEW n \in 0 .. Len(t)
  PROVE  LET u == s \o SubSeq(t, 1, n) IN
           /\ u \in Seq(S) /\ Len(u) = Len(s) + n
           /\ Len(s) \in Nat /\ DOMAIN s = 1 .. Len(s) /\ DOMAIN u = 1 .. Len(s) + n
           /\ \A k \in DOMAIN s : u[k] = s[k]
           /\ \A k \in 1 .. n : u[Len(s) + k] = t[k]
<1> DEFINE v == SubSeq(t, 1, n)
<1>1. v \in Seq(S) /\ Len(v) = n /\ \A k \in 1 .. n : v[k] = t[k]
  OBVIOUS
<1> HIDE DEF v
<1>2. /\ s \o v \in Seq(S) /\ Len(s \o v) = Len(s) + n /\ Len(s) \in Nat
      /\ DOMAIN s = 1 .. Len(s) /\ DOMAIN (s \o v) = 1 .. Len(s) + n
      /\ \A k \in DOMAIN s : (s \o v)[k] = s[k]
  BY <1>1
<1>3. \A k \in 1 .. n : (s \o v)[Len(s) + k] = t[k]
  <2> TAKE k \in 1 .. n
  <2>1. (s \o v)[Len(s) + k] = v[Len(s) + k - Len(s)] /\ Len(s) + k - Len(s) = k
    BY <1>1, <1>2
  <2> QED  BY <1>1, <2>1
<1> QED  BY <1>2, <1>3 DEF v

\* A commit that emitted the first n words of its function, none if they lie
\* outside the block.
Emitted(n) ==
  /\ n \in 0 .. Len(Words)
  /\ code' = code \o SubSeq(Words, 1, n)
  /\ origin' = origin \o SubSeq(Froms, 1, n)
  /\ lirs' = [lirs EXCEPT ![current] = Moved]
  /\ UNCHANGED <<constants, statics, labels, pending, began, commits>>
  /\ raised' \in BOOLEAN
  /\ \/ n = Len(Words) /\ pc' = "commit" /\ current' = current + 1
     \/ n < Len(Words) /\ pc' \in {"build", "wild"} /\ current' = current

LEMMA CommitFunctionEmits ==
  ASSUME IInv, CommitFunction
  PROVE  /\ pc = "commit" /\ current \in Functions /\ LabelsBound(current)
         /\ \E n : Emitted(n)
<1>1. pc = "commit" /\ current \in Functions /\ LabelsBound(current)
  BY DEF CommitFunction
<1>2. /\ Words \in Seq(WordType) /\ Froms \in Seq(Functions \X Nat)
      /\ Len(Froms) = Len(Words)
  BY <1>1, WordsAre
<1>3. SubSeq(Words, 1, Len(Words)) = Words /\ SubSeq(Froms, 1, Len(Words)) = Froms
  BY <1>2
<1>4. /\ lirs' = [lirs EXCEPT ![current] = Moved]
      /\ UNCHANGED <<constants, statics, labels, pending, began, commits>>
      /\ \/ /\ code' = code \o Words
            /\ origin' = origin \o Froms
            /\ current' = current + 1
            /\ pc' = pc /\ raised' = raised
         \/ \E n \in 0 .. Len(Words) - 1 :
              /\ code' = code \o SubSeq(Words, 1, n)
              /\ origin' = origin \o SubSeq(Froms, 1, n)
              /\ pc' = "build" /\ raised' = TRUE
              /\ current' = current
         \/ /\ Words # <<>>
            /\ pc' = "wild"
            /\ UNCHANGED <<code, origin, raised, current>>
  BY DEF CommitFunction, Words, Froms, Moved, MovedAt, Ahead
<1>5. Len(Words) \in Nat
  BY <1>2
<1>a. raised \in BOOLEAN /\ code \in Seq(WordType) /\ origin \in Seq(Functions \X Nat)
  BY DEF IInv, TypeOK, Structured
<1>6. CASE code' = code \o Words /\ origin' = origin \o Froms
           /\ current' = current + 1 /\ pc' = pc /\ raised' = raised
  <2> DEFINE m == Len(Words)
  <2>0. m \in 0 .. Len(Words) /\ m = Len(Words)
    BY <1>5
  <2> HIDE DEF m
  <2>1. code' = code \o SubSeq(Words, 1, m) /\ origin' = origin \o SubSeq(Froms, 1, m)
    <3>1. SubSeq(Words, 1, m) = Words /\ SubSeq(Froms, 1, m) = Froms
      BY <1>3, <2>0
    <3> QED  BY <1>6, <3>1
  <2>2. Emitted(m)
    BY <1>1, <1>4, <1>6, <1>a, <2>0, <2>1 DEF Emitted
  <2> QED  BY <1>1, <2>2
<1>7. ASSUME NEW n \in 0 .. Len(Words) - 1,
             code' = code \o SubSeq(Words, 1, n), origin' = origin \o SubSeq(Froms, 1, n),
             pc' = "build", raised' = TRUE, current' = current
      PROVE  Emitted(n)
  BY <1>4, <1>5, <1>7 DEF Emitted
<1>8. CASE Words # <<>> /\ pc' = "wild" /\ UNCHANGED <<code, origin, raised, current>>
  <2>1. SubSeq(Words, 1, 0) = <<>> /\ SubSeq(Froms, 1, 0) = <<>>
    BY <1>2
  <2>2. code \o <<>> = code /\ origin \o <<>> = origin
    BY <1>a
  <2>3. 0 \in 0 .. Len(Words) /\ 0 < Len(Words)
    BY <1>2, <1>5, <1>8
  <2>4. code' = code \o SubSeq(Words, 1, 0) /\ origin' = origin \o SubSeq(Froms, 1, 0)
    BY <1>8, <2>1, <2>2
  <2>5. Emitted(0)
    BY <1>4, <1>8, <1>a, <2>3, <2>4 DEF Emitted
  <2> QED  BY <1>1, <2>5
<1> QED  BY <1>1, <1>4, <1>6, <1>7, <1>8

\* What stood in the code stays, and the words and their origins follow.
LEMMA EmittedIs ==
  ASSUME IInv, current \in Functions, LabelsBound(current), NEW n, Emitted(n)
  PROVE  /\ n \in Nat /\ n <= Ahead + Len(lirs[current]) /\ Len(code) \in Nat
         /\ code' \in Seq(WordType) /\ DOMAIN code' = 1 .. Len(code) + n
         /\ Len(code') = Len(code) + n
         /\ DOMAIN code = 1 .. Len(code)
         /\ origin' \in Seq(Functions \X Nat) /\ Len(origin') = Len(code')
         /\ DOMAIN origin = 1 .. Len(code) /\ DOMAIN origin' = 1 .. Len(code) + n
         /\ \A p \in DOMAIN code : code'[p] = code[p] /\ origin'[p] = origin[p]
         /\ \A i \in 1 .. n : /\ code'[Len(code) + i] = Words[i]
                               /\ origin'[Len(code) + i] = <<current, i - Ahead>>
<1>1. /\ code \in Seq(WordType) /\ origin \in Seq(Functions \X Nat)
      /\ Len(origin) = Len(code)
  BY DEF IInv, TypeOK, Structured
<1>2. /\ Words \in Seq(WordType) /\ Froms \in Seq(Functions \X Nat)
      /\ Len(Froms) = Len(Words) /\ Len(Words) = Ahead + Len(lirs[current])
      /\ DOMAIN Words = 1 .. Len(Words) /\ Len(Words) \in Nat
      /\ \A p \in DOMAIN Words : Froms[p] = <<current, p - Ahead>>
  BY WordsAre
<1>3. /\ code' = code \o SubSeq(Words, 1, n) /\ origin' = origin \o SubSeq(Froms, 1, n)
      /\ n \in 0 .. Len(Words) /\ n \in Nat
  BY <1>2 DEF Emitted
<1>4. /\ code' \in Seq(WordType) /\ Len(code') = Len(code) + n /\ Len(code) \in Nat
      /\ DOMAIN code = 1 .. Len(code) /\ DOMAIN code' = 1 .. Len(code) + n
      /\ \A p \in DOMAIN code : code'[p] = code[p]
      /\ \A i \in 1 .. n : code'[Len(code) + i] = Words[i]
  <2>1. code \in Seq(WordType) /\ Words \in Seq(WordType) /\ n \in 0 .. Len(Words)
    BY <1>1, <1>2, <1>3
  <2> DEFINE u == code \o SubSeq(Words, 1, n)
  <2>2. /\ u \in Seq(WordType) /\ Len(u) = Len(code) + n /\ Len(code) \in Nat
        /\ DOMAIN code = 1 .. Len(code) /\ DOMAIN u = 1 .. Len(code) + n
        /\ \A p \in DOMAIN code : u[p] = code[p]
        /\ \A i \in 1 .. n : u[Len(code) + i] = Words[i]
    BY <2>1, Joined
  <2>3. code' = u
    BY <1>3
  <2> HIDE DEF u
  <2> QED BY <2>2, <2>3
<1>5. /\ origin' \in Seq(Functions \X Nat) /\ Len(origin') = Len(code) + n
      /\ DOMAIN origin = 1 .. Len(code) /\ DOMAIN origin' = 1 .. Len(code) + n
      /\ \A p \in DOMAIN origin : origin'[p] = origin[p]
      /\ \A i \in 1 .. n : origin'[Len(code) + i] = Froms[i]
  <2>1. n \in 0 .. Len(Froms)
    BY <1>2, <1>3
  <2>2. /\ origin' \in Seq(Functions \X Nat) /\ Len(origin') = Len(origin) + n
        /\ DOMAIN origin = 1 .. Len(origin) /\ DOMAIN origin' = 1 .. Len(origin) + n
        /\ \A p \in DOMAIN origin : origin'[p] = origin[p]
        /\ \A i \in 1 .. n : origin'[Len(origin) + i] = Froms[i]
    <3> DEFINE S == Functions \X Nat
    <3>1. origin \in Seq(S) /\ Froms \in Seq(S)
      BY <1>1, <1>2
    <3> HIDE DEF S
    <3>2. /\ origin \o SubSeq(Froms, 1, n) \in Seq(S)
          /\ Len(origin \o SubSeq(Froms, 1, n)) = Len(origin) + n
          /\ DOMAIN origin = 1 .. Len(origin)
          /\ DOMAIN (origin \o SubSeq(Froms, 1, n)) = 1 .. Len(origin) + n
          /\ \A p \in DOMAIN origin : (origin \o SubSeq(Froms, 1, n))[p] = origin[p]
          /\ \A i \in 1 .. n : (origin \o SubSeq(Froms, 1, n))[Len(origin) + i] = Froms[i]
      BY <2>1, <3>1, Joined
    <3> QED  BY <1>3, <3>2 DEF S
  <2> QED  BY <1>1, <2>2
<1>6. \A i \in 1 .. n : Froms[i] = <<current, i - Ahead>>
  <2> TAKE i \in 1 .. n
  <2>1. i \in 1 .. Len(Words)
    <3> DEFINE m == Len(Words)
    <3>1. m \in Nat /\ n \in 0 .. m
      BY <1>2, <1>3
    <3> HIDE DEF m
    <3>2. i \in 1 .. m
      BY <3>1
    <3> QED  BY <3>2 DEF m
  <2>2. i \in DOMAIN Words
    BY <1>2, <2>1
  <2> QED  BY <1>2, <2>2
<1>7. n <= Ahead + Len(lirs[current])
  BY <1>2, <1>3
<1>8. \A p \in DOMAIN code : code'[p] = code[p] /\ origin'[p] = origin[p]
  BY <1>4, <1>5
<1>9. \A i \in 1 .. n : /\ code'[Len(code) + i] = Words[i]
                        /\ origin'[Len(code) + i] = <<current, i - Ahead>>
  BY <1>4, <1>5, <1>6
<1> QED  BY <1>3, <1>4, <1>5, <1>7, <1>8, <1>9

\* The instructions of the other functions stay; those of this one keep all but
\* the operand.
LEMMA LirsAfter ==
  ASSUME IInv, current \in Functions, LabelsBound(current), NEW n, Emitted(n)
  PROVE  /\ lirs' \in Seq(Seq(LirType)) /\ Len(lirs') = Len(lirs) /\ Functions' = Functions
         /\ lirs'[current] = Moved
         /\ \A f \in Functions \ {current} : lirs'[f] = lirs[f]
         /\ \A f \in Functions :
              /\ Len(lirs'[f]) = Len(lirs[f]) /\ DOMAIN lirs'[f] = DOMAIN lirs[f]
              /\ HasFrame(lirs'[f]) <=> HasFrame(lirs[f])
              /\ \A k \in DOMAIN lirs[f] : /\ lirs'[f][k].op = lirs[f][k].op
                                           /\ lirs'[f][k].name = lirs[f][k].name
<1>1. /\ Moved \in Seq(LirType) /\ DOMAIN Moved = DOMAIN lirs[current]
      /\ Len(Moved) = Len(lirs[current])
      /\ \A k \in DOMAIN lirs[current] :
           /\ Moved[k].op = lirs[current][k].op
           /\ Moved[k].name = lirs[current][k].name
           /\ Moved[k].place = lirs[current][k].place
  BY MovedIs DEF IInv
<1>2. lirs' = [lirs EXCEPT ![current] = Moved] /\ lirs \in Seq(Seq(LirType))
  BY DEF Emitted, IInv, TypeOK
<1>3. /\ lirs' \in Seq(Seq(LirType)) /\ Len(lirs') = Len(lirs) /\ Functions' = Functions
      /\ lirs'[current] = Moved
      /\ \A f \in Functions \ {current} : lirs'[f] = lirs[f]
  <2> DEFINE S == Seq(LirType)
  <2>1. lirs \in Seq(S) /\ Moved \in S
    BY <1>1, <1>2
  <2> HIDE DEF S
  <2>2. lirs' \in Seq(S) /\ Len(lirs') = Len(lirs)
    <3>1. lirs \in [1 .. Len(lirs) -> S] /\ Len(lirs) \in Nat
      BY <2>1
    <3>2. lirs' \in [1 .. Len(lirs) -> S]
      BY <1>2, <2>1, <3>1
    <3> QED  BY <3>1, <3>2
  <2>3. DOMAIN lirs' = DOMAIN lirs
    BY <1>2
  <2> QED  BY <1>2, <2>1, <2>2, <2>3 DEF S, Functions
<1>4. HasFrame(Moved) <=> HasFrame(lirs[current])
  BY <1>1 DEF HasFrame
<1>5. ASSUME NEW f \in Functions
      PROVE  /\ Len(lirs'[f]) = Len(lirs[f]) /\ DOMAIN lirs'[f] = DOMAIN lirs[f]
             /\ HasFrame(lirs'[f]) <=> HasFrame(lirs[f])
             /\ \A k \in DOMAIN lirs[f] : /\ lirs'[f][k].op = lirs[f][k].op
                                          /\ lirs'[f][k].name = lirs[f][k].name
  <2>1. CASE f = current
    BY <1>1, <1>3, <1>4, <2>1
  <2>2. CASE f # current
    BY <1>3, <2>2
  <2> QED  BY <2>1, <2>2
<1> QED  BY <1>3, <1>5

LEMMA EmittedType ==
  ASSUME IInv, current \in Functions, LabelsBound(current), NEW n, Emitted(n)
  PROVE  TypeOK' /\ Structured'
<1>1. /\ lirs' \in Seq(Seq(LirType)) /\ Len(lirs') = Len(lirs) /\ Functions' = Functions
      /\ \A f \in Functions :
           /\ Len(lirs'[f]) = Len(lirs[f]) /\ DOMAIN lirs'[f] = DOMAIN lirs[f]
           /\ \A k \in DOMAIN lirs[f] : /\ lirs'[f][k].op = lirs[f][k].op
                                        /\ lirs'[f][k].name = lirs[f][k].name
  BY LirsAfter
<1>2. /\ code' \in Seq(WordType) /\ DOMAIN code' = 1 .. Len(code) + n
      /\ DOMAIN code = 1 .. Len(code) /\ Len(code) \in Nat /\ n \in Nat
      /\ origin' \in Seq(Functions \X Nat) /\ Len(origin') = Len(code')
      /\ \A p \in DOMAIN code : code'[p] = code[p] /\ origin'[p] = origin[p]
      /\ \A i \in 1 .. n : /\ code'[Len(code) + i] = Words[i]
                            /\ origin'[Len(code) + i] = <<current, i - Ahead>>
      /\ n <= Ahead + Len(lirs[current])
  BY EmittedIs
<1>3. /\ UNCHANGED <<constants, statics, labels, pending, began, commits>>
      /\ pc' \in {"commit", "build", "wild"} /\ current' \in {current, current + 1}
      /\ raised' \in BOOLEAN
  BY DEF Emitted
<1>4. TypeOK'
  <2>1. {constants, statics, current, began, commits}' \subseteq Nat
    BY <1>3 DEF IInv, TypeOK
  <2>2. origin' \in [DOMAIN code' -> Functions' \X Nat]
    <3>1. origin' \in [1 .. Len(origin') -> Functions \X Nat] /\ DOMAIN code' = 1 .. Len(code')
      BY <1>2
    <3> QED  BY <1>1, <1>2, <3>1
  <2>3. /\ labels' \in Seq(Seq(Nat)) /\ Len(labels') = Len(lirs')
        /\ pending' \in Seq(SUBSET Nat) /\ Len(pending') = Len(lirs')
        /\ \A f \in Functions :
             /\ \A l \in DOMAIN labels'[f] : labels'[f][l] <= Len(lirs'[f])
             /\ pending'[f] \subseteq DOMAIN labels'[f]
    BY <1>1, <1>3 DEF IInv, TypeOK
  <2> QED  BY <1>1, <1>2, <1>3, <2>1, <2>2, <2>3 DEF TypeOK
<1>5. Structured'
  <2>1. ASSUME NEW p \in DOMAIN code'
        PROVE  /\ origin'[p][2] <= Len(lirs'[origin'[p][1]])
               /\ origin'[p][2] = NULL => code'[p].op = "ASSURESSZ"
    <3>1. CASE p \in DOMAIN code
      <4>1. /\ origin[p][1] \in Functions /\ origin[p][2] <= Len(lirs[origin[p][1]])
            /\ origin[p][2] = NULL => code[p].op = "ASSURESSZ"
        BY <3>1 DEF IInv, TypeOK, Structured
      <4>2. Len(lirs'[origin[p][1]]) = Len(lirs[origin[p][1]])
        BY <1>1, <4>1
      <4>3. code'[p] = code[p] /\ origin'[p] = origin[p]
        BY <1>2, <3>1
      <4> QED  BY <4>1, <4>2, <4>3
    <3>2. CASE p \notin DOMAIN code
      <4>1. PICK i \in 1 .. n : p = Len(code) + i
        <5>1. p - Len(code) \in 1 .. n /\ p = Len(code) + (p - Len(code))
          BY <1>2, <3>2
        <5> QED  BY <5>1
      <4>2. origin'[p] = <<current, i - Ahead>> /\ code'[p] = Words[i]
        BY <1>2, <4>1
      <4>3. /\ Ahead \in {0, 1} /\ Len(lirs[current]) \in Nat
            /\ \A j \in 1 .. Ahead : Words[j].op = "ASSURESSZ"
        BY WordsAre, LirsTyped DEF IInv
      <4>4. i - Ahead <= Len(lirs[current]) /\ (i - Ahead = 0 => i \in 1 .. Ahead)
        <5> DEFINE m == Len(lirs[current])
        <5>1. /\ m \in Nat /\ Ahead \in {0, 1} /\ n \in Nat
              /\ i \in 1 .. n /\ n <= Ahead + m
          BY <1>2, <4>1, <4>3
        <5> HIDE DEF m
        <5>2. i - Ahead <= m /\ (i - Ahead = 0 => i \in 1 .. Ahead)
          BY <5>1
        <5> QED  BY <5>2 DEF m
      <4>5. origin'[p][1] = current /\ origin'[p][2] = i - Ahead
        BY <4>2
      <4>6. Len(lirs'[current]) = Len(lirs[current])
        BY <1>1
      <4>7. i - Ahead = NULL => code'[p].op = "ASSURESSZ"
        BY <4>2, <4>3, <4>4 DEF NULL
      <4> QED  BY <4>4, <4>5, <4>6, <4>7
    <3> QED  BY <3>1, <3>2
  <2>2. \A f \in Functions : \A k \in DOMAIN lirs'[f] :
          lirs'[f][k].op = "JMP" => lirs'[f][k].name \in DOMAIN labels'[f]
    BY <1>1, <1>3 DEF IInv, Structured
  <2>3. origin' \in Seq(Functions' \X Nat) /\ Len(origin') = Len(code')
    BY <1>1, <1>2
  <2> QED  BY <1>1, <2>1, <2>2, <2>3 DEF Structured
<1> QED  BY <1>4, <1>5

\* Where a word of the code after a commit of a function comes from.
LEMMA WordsAfter ==
  ASSUME IInv, current \in Functions, LabelsBound(current), Emitted(Len(Words)),
         NEW p \in DOMAIN code'
  PROVE  \/ p \in DOMAIN code /\ code'[p] = code[p] /\ origin'[p] = origin[p]
         \/ \E k \in 0 .. Len(lirs[current]) :
              /\ p = Len(code) + Ahead + k /\ p > Len(code)
              /\ origin'[p] = <<current, k>>
              /\ code'[p] = Words[Ahead + k]
              /\ k = 0 => Ahead = 1 /\ code'[p].op = "ASSURESSZ"
              /\ k # 0 => code'[p] = WordOf(current, Moved, MovedAt, k)
<1> DEFINE n == Len(Words)
           m == Len(lirs[current])
<1>1. /\ DOMAIN code' = 1 .. Len(code) + n
      /\ DOMAIN code = 1 .. Len(code) /\ Len(code) \in Nat /\ n \in Nat
      /\ \A q \in DOMAIN code : code'[q] = code[q] /\ origin'[q] = origin[q]
      /\ \A i \in 1 .. n : /\ code'[Len(code) + i] = Words[i]
                            /\ origin'[Len(code) + i] = <<current, i - Ahead>>
  BY EmittedIs
<1>2. /\ Ahead \in {0, 1} /\ m \in Nat /\ n = Ahead + m
      /\ \A j \in 1 .. Ahead : Words[j].op = "ASSURESSZ"
      /\ DOMAIN lirs[current] = 1 .. m
      /\ \A k \in 1 .. m : Words[Ahead + k] = WordOf(current, Moved, MovedAt, k)
  BY WordsAre, LirsTyped DEF IInv
<1> HIDE DEF n, m
<1>3. CASE p \in DOMAIN code
  BY <1>1, <1>3
<1>4. CASE p \notin DOMAIN code
  <2> DEFINE i == p - Len(code)
             k == i - Ahead
  <2>1. i \in 1 .. n /\ p = Len(code) + i
    BY <1>1, <1>4
  <2>2. /\ k \in 0 .. m /\ p = Len(code) + Ahead + k /\ p > Len(code)
        /\ i = Ahead + k /\ (k = 0 => Ahead = 1 /\ i = 1) /\ (k # 0 => k \in 1 .. m)
    <3>1. /\ i \in Nat /\ 1 <= i /\ i <= Ahead + m /\ p = Len(code) + i
          /\ Len(code) \in Nat /\ m \in Nat /\ k = i - Ahead
      BY <1>1, <1>2, <2>1
    <3> HIDE DEF i, k
    <3>2. CASE Ahead = 0
      BY <3>1, <3>2
    <3>3. CASE Ahead = 1
      BY <3>1, <3>3
    <3> QED  BY <1>2, <3>2, <3>3
  <2>3. code'[p] = Words[i] /\ origin'[p] = <<current, k>>
    BY <1>1, <2>1
  <2> HIDE DEF i, k
  <2>4. k = 0 => code'[p].op = "ASSURESSZ"
    BY <1>2, <2>2, <2>3
  <2>5. k # 0 => code'[p] = WordOf(current, Moved, MovedAt, k)
    BY <1>2, <2>2, <2>3
  <2> QED  BY <2>2, <2>3, <2>4, <2>5 DEF m
<1> QED  BY <1>3, <1>4

\* The whole function was committed.
Committing ==
  /\ IInv
  /\ pc = "commit" /\ current \in Functions /\ LabelsBound(current)
  /\ Emitted(Len(Words))
  /\ pc' = "commit" /\ current' = current + 1

LEMMA FirstStays ==
  ASSUME Committing
  PROVE  /\ FirstTry' => FirstTry
         /\ current \in Nat /\ ~Committed(current)
         /\ \A f \in Functions : f = current => ~Committed(f) /\ Committed(f)'
         /\ \A f \in Functions : f \in Nat
         /\ \A f \in Functions : Committed(f) => f # current /\ Committed(f)'
         /\ \A f \in Functions \ {current} : Committed(f)' => Committed(f)
<1>1. /\ commits' = commits /\ pc = "commit" /\ pc' = "commit" /\ current' = current + 1
      /\ current \in Nat
  BY DEF Committing, Emitted, IInv, TypeOK
<1>2. \A f \in Functions : f \in Nat
  BY LirsTyped DEF Committing, IInv
<1> QED  BY <1>1, <1>2 DEF FirstTry, Committed

LEMMA OperandsAfter ==
  ASSUME Committing
  PROVE  OperandsKnown'
<1> USE DEF Committing
<1>1. /\ Functions' = Functions /\ lirs'[current] = Moved
      /\ \A f \in Functions \ {current} : lirs'[f] = lirs[f]
      /\ UNCHANGED <<constants, statics>>
  BY LirsAfter DEF Emitted
<1> SUFFICES ASSUME FirstTry', NEW f \in Functions, NEW k \in DOMAIN lirs'[f]
             PROVE  LET lir == lirs'[f][k] IN
                      /\ lir.op = "LOADCONST" => lir.name < constants
                      /\ lir.op \in {"LOADGLOBAL", "STORE"} => lir.name < statics
                      /\ lir.index = IF lir.op \in {"LOADGLOBAL", "STORE"} /\ Committed(f)'
                                       THEN lir.name + constants ELSE lir.name
  BY <1>1 DEF OperandsKnown
<1>2. FirstTry
  BY FirstStays
<1>3. CASE f = current
  <2>1. /\ k \in DOMAIN lirs[f]
        /\ Moved[k].op = lirs[f][k].op /\ Moved[k].name = lirs[f][k].name
        /\ Moved[k].index = IF lirs[f][k].op \in {"LOADGLOBAL", "STORE"}
                              THEN lirs[f][k].index + constants ELSE lirs[f][k].index
    BY <1>1, <1>3, MovedIs DEF IInv
  <2>2. /\ lirs[f][k].op = "LOADCONST" => lirs[f][k].name < constants
        /\ lirs[f][k].op \in {"LOADGLOBAL", "STORE"} => lirs[f][k].name < statics
        /\ lirs[f][k].index = lirs[f][k].name
    BY <1>2, <1>3, <2>1, FirstStays DEF IInv, OperandsKnown
  <2> QED  BY <1>1, <1>3, <2>1, <2>2, FirstStays
<1>4. CASE f # current
  BY <1>1, <1>2, <1>4, FirstStays DEF IInv, OperandsKnown
<1> QED  BY <1>3, <1>4

LEMMA LoadsAfter ==
  ASSUME Committing
  PROVE  WordsKnown'
<1> USE DEF Committing
<1>1. /\ lirs'[current] = Moved
      /\ \A f \in Functions \ {current} : lirs'[f] = lirs[f]
      /\ constants' = constants
  BY LirsAfter DEF Emitted
<1> SUFFICES ASSUME FirstTry', NEW p \in DOMAIN code', code'[p].op \in {"LOAD", "STORE"}
             PROVE  LET lir == lirs'[origin'[p][1]][origin'[p][2]]
                        data == IF lir.op = "LOADCONST" THEN lir.name ELSE constants + lir.name
                    IN lir.op \in LoadsData /\ code'[p].arg = data % (UINT18_MAX + 1)
  BY <1>1 DEF WordsKnown
<1>2. FirstTry
  BY FirstStays
<1>3. CASE p \in DOMAIN code /\ code'[p] = code[p] /\ origin'[p] = origin[p]
  <2>1. origin[p][1] \in Functions /\ Committed(origin[p][1])
    BY <1>2, <1>3 DEF IInv, OrderedSoFar, TypeOK
  <2>2. origin[p][1] # current
    BY <2>1, FirstStays
  <2>3. lirs'[origin'[p][1]] = lirs[origin[p][1]]
    BY <1>1, <1>3, <2>1, <2>2
  <2> QED  BY <1>2, <1>3, <2>3 DEF IInv, WordsKnown
<1>4. ASSUME NEW k \in 0 .. Len(lirs[current]),
             origin'[p] = <<current, k>>,
             k = 0 => code'[p].op = "ASSURESSZ",
             k # 0 => code'[p] = WordOf(current, Moved, MovedAt, k)
      PROVE  LET lir == lirs'[origin'[p][1]][origin'[p][2]]
                 data == IF lir.op = "LOADCONST" THEN lir.name ELSE constants + lir.name
             IN lir.op \in LoadsData /\ code'[p].arg = data % (UINT18_MAX + 1)
  <2>1. k # 0
    BY <1>4
  <2>2. k \in DOMAIN lirs[current] /\ k \in DOMAIN Moved
    <3>1. DOMAIN lirs[current] = 1 .. Len(lirs[current]) /\ Len(lirs[current]) \in Nat
      BY LirsTyped DEF IInv
    <3> QED  BY <2>1, <3>1, MovedIs DEF IInv
  <2> DEFINE lir == lirs[current][k]
  <2>3. lir.op \in LoadsData /\ code'[p].arg = Moved[k].index % (UINT18_MAX + 1)
    BY <1>4, <2>1, <2>2, WordIs
  <2>4. /\ Moved[k].op = lir.op /\ Moved[k].name = lir.name
        /\ Moved[k].index = IF lir.op \in {"LOADGLOBAL", "STORE"}
                              THEN lir.index + constants ELSE lir.index
    BY <2>2, MovedIs DEF IInv
  <2>5. lir.index = lir.name /\ lir.name \in Nat /\ constants \in Nat
    BY <1>2, <2>2, FirstStays, LirsTyped DEF IInv, OperandsKnown, TypeOK
  <2>6. Moved[k].index = IF lir.op = "LOADCONST" THEN lir.name ELSE constants + lir.name
    BY <2>3, <2>4, <2>5 DEF LoadsData
  <2> QED  BY <1>1, <1>4, <2>3, <2>4, <2>6
<1> QED  BY <1>3, <1>4, WordsAfter

LEMMA OrderAfter ==
  ASSUME Committing
  PROVE  OrderedSoFar'
<1> USE DEF Committing
<1> SUFFICES ASSUME FirstTry'
             PROVE  /\ \A p \in DOMAIN code' : origin'[p][1] < current'
                    /\ \A p, q \in DOMAIN code' : p < q => Before(origin'[p], origin'[q])
  BY DEF OrderedSoFar, Committed, Before
<1>1. FirstTry /\ current \in Nat /\ current' = current + 1
  BY FirstStays
<1>2. \A p \in DOMAIN code : origin[p][1] \in Nat /\ origin[p][1] < current
  <2> TAKE p \in DOMAIN code
  <2>1. origin[p][1] \in Functions /\ Committed(origin[p][1])
    BY <1>1 DEF IInv, OrderedSoFar, TypeOK
  <2> QED  BY <2>1, FirstStays DEF Committed
<1>3. Len(code) \in Nat /\ DOMAIN code = 1 .. Len(code) /\ Ahead \in {0, 1}
  BY WordsAre DEF IInv, TypeOK
<1> DEFINE Old(p) == /\ p \in DOMAIN code /\ origin'[p] = origin[p]
                     /\ origin'[p][1] \in Nat /\ origin'[p][1] < current
           New(p, k) == /\ k \in Nat /\ p = Len(code) + Ahead + k /\ p > Len(code)
                        /\ origin'[p] = <<current, k>>
<1>4. \A p \in DOMAIN code' : Old(p) \/ \E k : New(p, k)
  <2> TAKE p \in DOMAIN code'
  <2>1. CASE p \in DOMAIN code /\ origin'[p] = origin[p]
    BY <1>2, <2>1
  <2>2. ASSUME NEW k \in 0 .. Len(lirs[current]),
               p = Len(code) + Ahead + k, p > Len(code), origin'[p] = <<current, k>>
        PROVE  New(p, k)
    BY <2>2
  <2> HIDE DEF Old, New
  <2> QED  BY <2>1, <2>2, WordsAfter
<1>5. \A p \in DOMAIN code' : origin'[p][1] < current'
  BY <1>1, <1>4
<1>6. ASSUME NEW p \in DOMAIN code', NEW q \in DOMAIN code', p < q
      PROVE  Before(origin'[p], origin'[q])
  <2>1. CASE Old(p) /\ Old(q)
    BY <1>1, <1>6, <2>1 DEF IInv, OrderedSoFar
  <2>2. ASSUME NEW k, Old(p), New(q, k)
        PROVE  Before(origin'[p], origin'[q])
    BY <2>2 DEF Before
  <2>3. ASSUME NEW k, New(p, k), Old(q)
        PROVE  FALSE
    BY <1>3, <1>6, <2>3
  <2>4. ASSUME NEW k, NEW j, New(p, k), New(q, j)
        PROVE  Before(origin'[p], origin'[q])
    <3>1. k < j
      BY <1>3, <1>6, <2>4
    <3> QED  BY <2>4, <3>1 DEF Before
  <2> HIDE DEF Old, New
  <2> QED  BY <1>4, <2>1, <2>2, <2>3, <2>4
<1> QED  BY <1>5, <1>6

LEMMA CompleteAfter ==
  ASSUME Committing
  PROVE  CompleteSoFar'
<1> USE DEF Committing
<1> DEFINE Frames(f) == IF HasFrame(lirs[f]) THEN {<<f, NULL>>} ELSE {}
           Of(f) == LirsOf(f) \cup Frames(f)
<1>1. /\ Functions' = Functions
      /\ \A f \in Functions :
           /\ DOMAIN lirs'[f] = DOMAIN lirs[f] /\ (HasFrame(lirs'[f]) <=> HasFrame(lirs[f]))
  BY LirsAfter
<1>2. \A f \in Functions : f \in Nat /\ (f < current + 1 <=> f < current \/ f = current)
  BY FirstStays
<1> SUFFICES ASSUME FirstTry'
             PROVE  ToSet(origin') =
                      (UNION {LirsOf(f) : f \in {g \in Functions : g < current + 1}})
                        \cup {<<f, NULL>> :
                               f \in {g \in Functions : g < current + 1 /\ HasFrame(lirs[g])}}
  <2>1. \A f \in Functions : LirsOf(f)' = LirsOf(f)
    BY <1>1 DEF LirsOf
  <2>2. {g \in Functions : g < current + 1 /\ HasFrame(lirs'[g])}
          = {g \in Functions : g < current + 1 /\ HasFrame(lirs[g])}
    BY <1>1
  <2>3. (UNION {LirsOf(f)' : f \in {g \in Functions : g < current + 1}})
          = (UNION {LirsOf(f) : f \in {g \in Functions : g < current + 1}})
    BY <2>1
  <2>4. current' = current + 1 /\ Functions' = Functions
    BY <1>1
  <2> HIDE DEF Committing
  <2> QED  BY <2>2, <2>3, <2>4 DEF CompleteSoFar
<1>3. ToSet(origin) =
        (UNION {LirsOf(f) : f \in {g \in Functions : g < current}})
          \cup {<<f, NULL>> : f \in {g \in Functions : g < current /\ HasFrame(lirs[g])}}
  BY FirstStays DEF IInv, CompleteSoFar
<1>4. ToSet(origin') = ToSet(origin) \cup Of(current)
  <2>1. /\ DOMAIN origin = 1 .. Len(code) /\ Len(code) \in Nat
        /\ DOMAIN origin' = 1 .. Len(code) + Len(Words)
        /\ \A p \in DOMAIN origin : origin'[p] = origin[p]
        /\ \A i \in 1 .. Len(Words) : origin'[Len(code) + i] = <<current, i - Ahead>>
    BY EmittedIs
  <2>2. /\ Ahead \in {0, 1} /\ (Ahead = 1 <=> HasFrame(lirs[current]))
        /\ Len(Words) = Ahead + Len(lirs[current]) /\ Len(lirs[current]) \in Nat
        /\ DOMAIN lirs[current] = 1 .. Len(lirs[current])
    BY WordsAre, LirsTyped DEF IInv
  <2>3. {<<current, i - Ahead>> : i \in 1 .. Len(Words)} = Of(current)
    <3> DEFINE m == Len(lirs[current])
    <3>1. LirsOf(current) = {<<current, k>> : k \in 1 .. m}
      BY <2>2 DEF LirsOf
    <3>2. CASE Ahead = 0
      <4>1. Of(current) = {<<current, k>> : k \in 1 .. m} /\ Len(Words) = m
        BY <2>2, <3>1, <3>2
      <4> QED  BY <3>2, <4>1, <2>2
    <3>3. CASE Ahead = 1
      <4>1. Of(current) = {<<current, k>> : k \in 1 .. m} \cup {<<current, 0>>}
        BY <2>2, <3>1, <3>3 DEF NULL
      <4>2. Len(Words) = 1 + m
        BY <2>2, <3>3
      <4> DEFINE n == Len(Words)
      <4>3. m \in Nat /\ n = 1 + m
        BY <2>2, <4>2
      <4> HIDE DEF m, n
      <4>4. \A i \in 1 .. n : i - 1 = 0 \/ i - 1 \in 1 .. m
        BY <4>3
      <4>5. \A k \in 1 .. m : k + 1 \in 1 .. n /\ k + 1 - 1 = k
        BY <4>3
      <4>6. 1 \in 1 .. n /\ 1 - 1 = 0
        BY <4>3
      <4>7. {<<current, i - 1>> : i \in 1 .. n}
              = {<<current, k>> : k \in 1 .. m} \cup {<<current, 0>>}
        BY <4>4, <4>5, <4>6
      <4> QED  BY <3>3, <4>1, <4>7 DEF n, m
    <3> QED  BY <2>2, <3>2, <3>3
  <2>4. ToSet(origin') = ToSet(origin) \cup {<<current, i - Ahead>> : i \in 1 .. Len(Words)}
    <3> DEFINE n == Len(Words)
               c == Len(code)
    <3>1. n \in Nat /\ c \in Nat
      BY <2>1, <2>2
    <3>2. /\ DOMAIN origin = 1 .. c /\ DOMAIN origin' = 1 .. c + n
          /\ \A p \in 1 .. c : origin'[p] = origin[p]
          /\ \A i \in 1 .. n : origin'[c + i] = <<current, i - Ahead>>
      BY <2>1
    <3> HIDE DEF n, c
    <3>3. \A p \in 1 .. c + n : p \in 1 .. c \/ \E i \in 1 .. n : p = c + i
      <4> TAKE p \in 1 .. c + n
      <4>1. p \in 1 .. c \/ (p - c \in 1 .. n /\ p = c + (p - c))
        BY <3>1
      <4> QED  BY <4>1
    <3>4. \A i \in 1 .. n : c + i \in 1 .. c + n
      BY <3>1
    <3>5. 1 .. c \subseteq 1 .. c + n
      BY <3>1
    <3>6. ToSet(origin) = {origin[p] : p \in 1 .. c}
          /\ ToSet(origin') = {origin'[p] : p \in 1 .. c + n}
      BY <3>2 DEF ToSet
    <3>7. {origin'[p] : p \in 1 .. c + n}
            = {origin[p] : p \in 1 .. c} \cup {<<current, i - Ahead>> : i \in 1 .. n}
      <4>1. ASSUME NEW p \in 1 .. c + n
            PROVE  \/ \E q \in 1 .. c : origin'[p] = origin[q]
                   \/ \E i \in 1 .. n : origin'[p] = <<current, i - Ahead>>
        BY <3>2, <3>3
      <4>2. \A q \in 1 .. c : q \in 1 .. c + n /\ origin'[q] = origin[q]
        BY <3>2, <3>5
      <4>3. \A i \in 1 .. n : \E p \in 1 .. c + n : origin'[p] = <<current, i - Ahead>>
        BY <3>2, <3>4
      <4> DEFINE A == {origin[q] : q \in 1 .. c}
                 B == {<<current, i - Ahead>> : i \in 1 .. n}
                 C == {origin'[p] : p \in 1 .. c + n}
      <4>4. ASSUME NEW x \in C
            PROVE  x \in A \cup B
        <5>1. PICK p \in 1 .. c + n : x = origin'[p]
          OBVIOUS
        <5>2. CASE \E q \in 1 .. c : origin'[p] = origin[q]
          BY <5>1, <5>2
        <5>3. CASE \E i \in 1 .. n : origin'[p] = <<current, i - Ahead>>
          BY <5>1, <5>3
        <5> QED  BY <4>1, <5>2, <5>3
      <4>5. ASSUME NEW x \in A
            PROVE  x \in C
        <5>1. PICK q \in 1 .. c : x = origin[q]
          OBVIOUS
        <5> QED  BY <4>2, <5>1
      <4>6. ASSUME NEW x \in B
            PROVE  x \in C
        <5>1. PICK i \in 1 .. n : x = <<current, i - Ahead>>
          OBVIOUS
        <5> QED  BY <4>3, <5>1
      <4> HIDE DEF A, B, C
      <4>7. C = A \cup B
        BY <4>4, <4>5, <4>6
      <4> QED  BY <4>7 DEF A, B, C
    <3> QED  BY <3>6, <3>7 DEF n
  <2> QED  BY <2>3, <2>4
<1>5. (UNION {LirsOf(f) : f \in {g \in Functions : g < current + 1}})
        = (UNION {LirsOf(f) : f \in {g \in Functions : g < current}}) \cup LirsOf(current)
  <2>1. {g \in Functions : g < current + 1} = {g \in Functions : g < current} \cup {current}
    BY <1>2
  <2> DEFINE A == {g \in Functions : g < current}
  <2> HIDE DEF A
  <2>2. (UNION {LirsOf(f) : f \in A \cup {current}}) = (UNION {LirsOf(f) : f \in A}) \cup LirsOf(current)
    BY Zenon
  <2> QED  BY <2>1, <2>2 DEF A
<1>6. {<<f, NULL>> : f \in {g \in Functions : g < current + 1 /\ HasFrame(lirs[g])}}
        = {<<f, NULL>> : f \in {g \in Functions : g < current /\ HasFrame(lirs[g])}}
            \cup Frames(current)
  <2>1. {g \in Functions : g < current + 1 /\ HasFrame(lirs[g])}
          = {g \in Functions : g < current /\ HasFrame(lirs[g])}
              \cup (IF HasFrame(lirs[current]) THEN {current} ELSE {})
    BY <1>2
  <2> DEFINE A == {g \in Functions : g < current /\ HasFrame(lirs[g])}
  <2> HIDE DEF A
  <2>2. {<<f, NULL>> : f \in A \cup {current}}
          = {<<f, NULL>> : f \in A} \cup {<<current, NULL>>}
    BY Zenon
  <2>3. CASE HasFrame(lirs[current])
    BY <2>1, <2>2, <2>3 DEF A
  <2>4. CASE ~HasFrame(lirs[current])
    BY <2>1, <2>4
  <2> QED  BY <2>3, <2>4
<1> HIDE DEF Frames
<1> QED  BY <1>3, <1>4, <1>5, <1>6

LEMMA WholeAfter ==
  ASSUME Committing
  PROVE  StandsWhole'
<1> USE DEF Committing
<1>1. /\ Functions' = Functions
      /\ \A f \in Functions \ {current} : lirs'[f] = lirs[f]
      /\ \A f \in Functions :
           /\ DOMAIN lirs'[f] = DOMAIN lirs[f]
           /\ \A k \in DOMAIN lirs[f] : lirs'[f][k].name = lirs[f][k].name
      /\ lirs'[current] = Moved
      /\ labels' = labels /\ began' = began
  BY LirsAfter DEF Emitted
<1>2. /\ DOMAIN code = 1 .. Len(code) /\ Len(code) \in Nat
      /\ DOMAIN code' = 1 .. Len(code) + Len(Words) /\ Len(code') = Len(code) + Len(Words)
      /\ Len(Words) \in Nat
      /\ \A p \in DOMAIN code : code'[p] = code[p] /\ origin'[p] = origin[p]
      /\ \A i \in 1 .. Len(Words) : origin'[Len(code) + i] = <<current, i - Ahead>>
  BY EmittedIs
<1>3. /\ Ahead \in {0, 1} /\ Len(Words) = Ahead + Len(lirs[current])
      /\ DOMAIN lirs[current] = 1 .. Len(lirs[current]) /\ Len(lirs[current]) \in Nat
  BY WordsAre, LirsTyped DEF IInv
<1>4. began \in Nat /\ current \in Nat /\ current' = current + 1
  BY DEF IInv, TypeOK
<1> SUFFICES ASSUME NEW p \in began + 1 .. Len(code')
             PROVE  LET f == origin'[p][1]
                        k == origin'[p][2]
                        label == labels[f][lirs'[f][k].name]
                    IN
                      /\ f < current'
                      /\ k # NULL => \A j \in DOMAIN lirs'[f] :
                                       /\ p - k + j \in DOMAIN code'
                                       /\ origin'[p - k + j] = <<f, j>>
                      /\ code'[p].op \in {"JMP", "JMPGC"} =>
                           /\ k # NULL
                           /\ label \in DOMAIN lirs'[f]
                           /\ ShortBetween(lirs'[f], k, label) => code'[p] = JumpBetween(k, label)
  <2>1. \A s, k, label : /\ ShortBetween(s, k, label)' = ShortBetween(s', k', label')
                         /\ JumpBetween(k, label)' = JumpBetween(k', label')
    BY DEF ShortBetween, Passed, TakesTwoWords, JumpBetween
  <2> QED  BY <1>1, <2>1 DEF StandsWhole, StandsAt
<1>5. p \in DOMAIN code' /\ p \in Nat /\ p > began
  BY <1>2, <1>4
<1>6. CASE p \in DOMAIN code /\ code'[p] = code[p] /\ origin'[p] = origin[p]
  <2> DEFINE f == origin[p][1]
             k == origin[p][2]
             label == labels[f][lirs[f][k].name]
  <2>1. p \in began + 1 .. Len(code)
    <3> DEFINE c == Len(code)
    <3>1. p \in 1 .. c /\ c \in Nat
      BY <1>2, <1>6
    <3> HIDE DEF c
    <3>2. p \in began + 1 .. c
      BY <1>4, <1>5, <3>1
    <3> QED  BY <3>2 DEF c
  <2>2. /\ f < current
        /\ k # NULL => \A j \in DOMAIN lirs[f] :
                         p - k + j \in DOMAIN code /\ origin[p - k + j] = <<f, j>>
        /\ code[p].op \in {"JMP", "JMPGC"} =>
             /\ k # NULL /\ label \in DOMAIN lirs[f]
             /\ ShortBetween(lirs[f], k, label) => code[p] = JumpBetween(k, label)
    BY <2>1 DEF IInv, StandsWhole, StandsAt
  <2>3. f \in Functions /\ f \in Nat
    <3>1. f \in Functions
      <4>1. p \in DOMAIN code /\ origin \in [DOMAIN code -> Functions \X Nat]
        BY <1>6 DEF IInv, TypeOK
      <4>2. origin[p] \in Functions \X Nat
        BY <4>1
      <4> QED  BY <4>2
    <3> QED  BY <3>1, LirsTyped DEF IInv
  <2>4. lirs'[f] = lirs[f] /\ f < current'
    <3>1. f < current
      BY <2>2
    <3>2. f \in Functions /\ f \in Nat
      BY <2>3
    <3> HIDE DEF f
    <3>3. f # current /\ f < current'
      BY <1>4, <3>1, <3>2
    <3> QED  BY <1>1, <3>2, <3>3
  <2>6. ASSUME k # NULL, NEW j \in DOMAIN lirs[f]
        PROVE  p - k + j \in DOMAIN code' /\ origin'[p - k + j] = <<f, j>>
    <3>1. p - k + j \in DOMAIN code /\ origin[p - k + j] = <<f, j>>
      BY <2>2, <2>6
    <3> QED  BY <1>2, <3>1
  <2> HIDE DEF f, k
  <2> QED  BY <1>6, <2>2, <2>4, <2>6 DEF f, k
<1>7. ASSUME NEW k \in 0 .. Len(lirs[current]),
             p = Len(code) + Ahead + k, origin'[p] = <<current, k>>,
             k = 0 => code'[p].op = "ASSURESSZ",
             k # 0 => code'[p] = WordOf(current, Moved, MovedAt, k)
      PROVE  /\ current < current'
             /\ k # NULL => \A j \in DOMAIN lirs'[current] :
                              /\ p - k + j \in DOMAIN code'
                              /\ origin'[p - k + j] = <<current, j>>
             /\ code'[p].op \in {"JMP", "JMPGC"} =>
                  /\ k # NULL
                  /\ labels[current][lirs'[current][k].name] \in DOMAIN lirs'[current]
                  /\ ShortBetween(lirs'[current], k, labels[current][lirs'[current][k].name])
                     => code'[p] = JumpBetween(k, labels[current][lirs'[current][k].name])
  <2>1. current < current'
    BY <1>4
  <2>2. ASSUME NEW j \in DOMAIN lirs'[current]
        PROVE  p - k + j \in DOMAIN code' /\ origin'[p - k + j] = <<current, j>>
    <3>1. j \in 1 .. Len(lirs[current])
      BY <1>1, <1>3
    <3> DEFINE i == Ahead + j
    <3>2. i \in 1 .. Len(Words) /\ i - Ahead = j /\ p - k + j = Len(code) + i
      <4> DEFINE m == Len(lirs[current])
                 n == Len(Words)
                 c == Len(code)
      <4>1. /\ m \in Nat /\ c \in Nat /\ n = Ahead + m /\ k \in 0 .. m /\ j \in 1 .. m
            /\ p = c + Ahead + k
        BY <1>2, <1>3, <1>7, <3>1
      <4> HIDE DEF m, n, c
      <4>2. i \in 1 .. n /\ i - Ahead = j /\ p - k + j = c + i
        <5>1. CASE Ahead = 0
          BY <4>1, <5>1
        <5>2. CASE Ahead = 1
          BY <4>1, <5>2
        <5> QED  BY <1>3, <5>1, <5>2
      <4> QED  BY <4>2 DEF m, n, c
    <3> HIDE DEF i
    <3>3. Len(code) + i \in DOMAIN code' /\ origin'[Len(code) + i] = <<current, i - Ahead>>
      BY <1>2, <3>2
    <3> QED  BY <3>2, <3>3
  <2>3. ASSUME code'[p].op \in {"JMP", "JMPGC"}
        PROVE  /\ k # NULL
               /\ labels[current][lirs'[current][k].name] \in DOMAIN lirs'[current]
               /\ ShortBetween(lirs'[current], k, labels[current][lirs'[current][k].name])
                  => code'[p] = JumpBetween(k, labels[current][lirs'[current][k].name])
    <3>1. k # 0
      BY <1>7, <2>3
    <3>2. k \in DOMAIN lirs[current] /\ k \in DOMAIN Moved
      BY <1>3, <3>1, MovedIs DEF IInv
    <3>3. lirs'[current][k].name = lirs[current][k].name
          /\ DOMAIN lirs'[current] = DOMAIN lirs[current]
      BY <1>1, <3>2
    <3> DEFINE lb == labels[current][lirs[current][k].name]
    <3>4. /\ lb \in DOMAIN lirs[current]
          /\ ShortBetween(Moved, k, lb) => code'[p] = JumpBetween(k, lb)
      <4> HIDE DEF ShortBetween, JumpBetween
      <4> QED  BY <1>7, <2>3, <3>1, <3>2, WordIs
    <3>5. lirs'[current] = Moved
      BY <1>1
    <3> HIDE DEF ShortBetween, JumpBetween, Committing
    <3> QED  BY <3>1, <3>3, <3>4, <3>5 DEF NULL
  <2> QED  BY <2>1, <2>2, <2>3
<1>8. CASE ~(p \in DOMAIN code /\ code'[p] = code[p] /\ origin'[p] = origin[p])
  <2>1. PICK k \in 0 .. Len(lirs[current]) :
             /\ p = Len(code) + Ahead + k
             /\ origin'[p] = <<current, k>>
             /\ k = 0 => code'[p].op = "ASSURESSZ"
             /\ k # 0 => code'[p] = WordOf(current, Moved, MovedAt, k)
    <3> HIDE DEF JumpBetween
    <3> QED  BY <1>5, <1>8, WordsAfter
  <2>2. origin'[p][1] = current /\ origin'[p][2] = k
    BY <2>1
  <2>3. /\ current < current'
        /\ k # NULL => \A j \in DOMAIN lirs'[current] :
                         /\ p - k + j \in DOMAIN code'
                         /\ origin'[p - k + j] = <<current, j>>
        /\ code'[p].op \in {"JMP", "JMPGC"} =>
             /\ k # NULL
             /\ labels[current][lirs'[current][k].name] \in DOMAIN lirs'[current]
             /\ ShortBetween(lirs'[current], k, labels[current][lirs'[current][k].name])
                => code'[p] = JumpBetween(k, labels[current][lirs'[current][k].name])
    <3> HIDE DEF JumpBetween, Committing
    <3> QED  BY <1>7, <2>1
  <2> HIDE DEF JumpBetween, Committing
  <2> QED  BY <2>2, <2>3, Zenon
<1> QED  BY <1>6, <1>8

LEMMA CommitFunctionStep ==
  ASSUME IInv, CommitFunction
  PROVE  IInv'
<1>1. pc = "commit" /\ current \in Functions /\ LabelsBound(current)
  BY CommitFunctionEmits
<1>2. PICK n : Emitted(n)
  BY CommitFunctionEmits
<1>3. TypeOK' /\ Structured'
  BY <1>1, <1>2, EmittedType
<1>4. CASE n = Len(Words) /\ pc' = "commit" /\ current' = current + 1
  <2>1. Committing
    BY <1>1, <1>2, <1>4 DEF Committing
  <2>2. Progressing'
    <3>1. /\ Len(code') = Len(code) + n /\ Len(code) \in Nat /\ n \in Nat
      BY <1>1, <1>2, EmittedIs
    <3>2. began' = began /\ commits' = commits
      BY <1>2 DEF Emitted
    <3> QED  BY <1>1, <1>4, <3>1, <3>2 DEF IInv, Progressing, TypeOK
  <2> QED  BY <1>3, <2>1, <2>2, OperandsAfter, LoadsAfter, OrderAfter, CompleteAfter,
              WholeAfter DEF IInv
<1>5. CASE pc' \in {"build", "wild"} /\ current' = current
  <2>1. pc' # "commit" /\ UNCHANGED <<current, commits>>
    BY <1>2, <1>5 DEF Emitted
  <2> QED  BY <1>1, <1>3, <2>1, LeavingCommit DEF IInv
<1> QED  BY <1>2, <1>4, <1>5 DEF Emitted

-----------------------------------------------------------------------------
LEMMA StutterStep ==
  ASSUME IInv, UNCHANGED vars
  PROVE  IInv'
<1> USE DEF vars, client
<1>1. TypeOK' /\ Structured' /\ Progressing'
  <2>1. /\ {constants', statics', current', began', commits'} \subseteq Nat
        /\ pc' \in {"build", "commit", "done", "wild"} /\ raised' \in BOOLEAN
    BY DEF IInv, TypeOK
  <2>2. TypeOK'
    BY <2>1, CountersTyped DEF IInv
  <2>3. Structured'
    BY StructuredKept DEF IInv
  <2>4. Progressing'
    BY DEF IInv, Progressing
  <2> QED  BY <2>2, <2>3, <2>4
<1>2. OperandsKnown' /\ WordsKnown'
  <2>1. OperandsKnown'
    BY OperandsKept DEF IInv
  <2>2. WordsKnown'
    BY DEF IInv, WordsKnown, FirstTry
  <2> QED  BY <2>1, <2>2
<1>3. OrderedSoFar'
  BY DEF IInv, OrderedSoFar, FirstTry, Committed, Before
<1>4. CompleteSoFar'
  <2>1. Functions' = Functions /\ FirstTry' = FirstTry /\ \A f : LirsOf(f)' = LirsOf(f)
    BY DEF Functions, FirstTry, LirsOf
  <2>2. CompleteSoFar
    BY DEF IInv
  <2> QED  BY <2>1, <2>2 DEF CompleteSoFar
<1>5. StandsWhole'
  <2>1. \A p : StandsAt(p)' = StandsAt(p)
    BY DEF StandsAt, ShortBetween, Passed, TakesTwoWords, JumpBetween
  <2>2. StandsWhole' = StandsWhole
    BY <2>1 DEF StandsWhole
  <2> QED  BY <2>2 DEF IInv
<1> QED  BY <1>1, <1>2, <1>3, <1>4, <1>5 DEF IInv

LEMMA NextIInv == IInv /\ [Next]_vars => IInv'
<1> SUFFICES ASSUME IInv, [Next]_vars PROVE IInv'
  OBVIOUS
<1>1. CASE AllocateConstant
  BY <1>1, AllocateConstantStep
<1>2. CASE AllocateStatic
  BY <1>2, AllocateStaticStep
<1>3. CASE AddFunction
  BY <1>3, AddFunctionStep
<1>4. ASSUME NEW f \in Functions, AllocLabel(f)
      PROVE  IInv'
  BY <1>4, AllocLabelStep
<1>5. ASSUME NEW f \in Functions, NEW l \in DOMAIN labels[f], Bind(f, l)
      PROVE  IInv'
  BY <1>5, BindStep
<1>6. ASSUME NEW f \in Functions, EmitLir(f)
      PROVE  IInv'
  BY <1>6, EmitLirStep
<1>7. CASE BeginCommit
  BY <1>7, BeginCommitStep
<1>8. CASE CommitRefused
  BY <1>8, CommitRefusedStep
<1>9. CASE CommitFunction
  BY <1>9, CommitFunctionStep
<1>10. CASE CreateEnv
  BY <1>10, CreateEnvStep
<1>11. CASE UNCHANGED vars
  BY <1>11, StutterStep
<1> QED  BY <1>1, <1>2, <1>3, <1>4, <1>5, <1>6, <1>7, <1>8, <1>9, <1>10, <1>11 DEF Next

-----------------------------------------------------------------------------
LEMMA TypeOKHolds == IInv => TypeOK
  BY DEF IInv

LEMMA JumpsLandHolds ==
  ASSUME IInv
  PROVE  JumpsLand
<1> SUFFICES ASSUME pc = "commit", NEW p \in began + 1 .. Len(code),
                    code[p].op \in {"JMP", "JMPGC"},
                    ShortBetween(lirs[origin[p][1]], origin[p][2],
                                 labels[origin[p][1]][lirs[origin[p][1]][origin[p][2]].name])
             PROVE  LET f == origin[p][1]
                        lir == lirs[f][origin[p][2]]
                        to == IF code[p].op = "JMP" THEN p + code[p].arg ELSE p - code[p].arg
                    IN to \in DOMAIN code /\ origin[to] = <<f, labels[f][lir.name]>>
  BY DEF JumpsLand, ShortBetween
<1> DEFINE f == origin[p][1]
           k == origin[p][2]
           label == labels[f][lirs[f][k].name]
           to == IF code[p].op = "JMP" THEN p + code[p].arg ELSE p - code[p].arg
<1>1. /\ k # NULL /\ label \in DOMAIN lirs[f]
      /\ \A j \in DOMAIN lirs[f] : p - k + j \in DOMAIN code /\ origin[p - k + j] = <<f, j>>
      /\ code[p] = JumpBetween(k, label)
  <2>1. StandsAt(p)
    BY DEF IInv, StandsWhole
  <2> QED  BY <2>1 DEF StandsAt
<1>2. p \in DOMAIN code /\ p \in Nat
  <2> DEFINE n == Len(code)
  <2>1. began \in Nat /\ code \in Seq(WordType)
    BY DEF IInv, TypeOK
  <2>2. n \in Nat /\ DOMAIN code = 1 .. n /\ p \in began + 1 .. n
    BY <2>1
  <2> HIDE DEF n
  <2> QED  BY <2>1, <2>2
<1>3. f \in Functions /\ k \in Nat
  BY <1>2 DEF IInv, TypeOK
<1>4. label \in Nat
  <2>1. DOMAIN lirs[f] = 1 .. Len(lirs[f]) /\ Len(lirs[f]) \in Nat
    BY <1>3, LirsTyped DEF IInv
  <2>2. label \in DOMAIN lirs[f]
    BY <1>1
  <2> HIDE DEF f, k, label
  <2>3. label \in 1 .. Len(lirs[f])
    BY <2>1, <2>2
  <2> DEFINE n == Len(lirs[f])
  <2>4. n \in Nat /\ label \in 1 .. n
    BY <2>1, <2>3
  <2> HIDE DEF n
  <2> QED  BY <2>4
<1> HIDE DEF f, k, label
<1>5. to = p - k + label
  <2>1. CASE label <= k
    BY <1>1, <1>2, <1>3, <1>4, <2>1 DEF JumpBetween
  <2>2. CASE ~(label <= k)
    BY <1>1, <1>2, <1>3, <1>4, <2>2 DEF JumpBetween
  <2> QED  BY <2>1, <2>2
<1> HIDE DEF to
<1>6. to \in DOMAIN code /\ origin[to] = <<f, label>>
  BY <1>1, <1>5
<1> QED  BY <1>6 DEF to, f, k, label

\* Every type is what TypeOK says, for any number of functions, instructions,
\* labels and storage, also when a commit fails and is tried again.
THEOREM TypeCorrect == Spec => []TypeOK
<1>1. Init => IInv
  BY InitIInv
<1>2. IInv /\ [Next]_vars => IInv'
  BY NextIInv
<1>3. IInv => TypeOK
  BY TypeOKHolds
<1> QED  BY <1>1, <1>2, <1>3, PTL DEF Spec

\* Every jump that a commit emits arrives at the first word of the instruction its
\* label is bound to, whatever stands before its function and at its entry, unless
\* it passes a PUSH of a register that is far away.
THEOREM JumpsAlwaysLand == Spec => []JumpsLand
<1>1. Init => IInv
  BY InitIInv
<1>2. IInv /\ [Next]_vars => IInv'
  BY NextIInv
<1>3. IInv => JumpsLand
  BY JumpsLandHolds
<1> QED  BY <1>1, <1>2, <1>3, PTL DEF Spec

-----------------------------------------------------------------------------
\* The step that ends a commit well is that of CreateEnv, behind every function.
LEMMA DoneByCreateEnv ==
  ASSUME IInv, Next, pc' = "done"
  PROVE  /\ pc = "commit" /\ UNCHANGED <<lirs, commits>>
         /\ env' = [code |-> code, origin |-> origin,
                    constants |-> constants, statics |-> statics]
         /\ \A f \in Functions : f < current
<1>1. CreateEnv
  <2>1. pc = "commit"
    BY DEF Next, AllocateConstant, AllocateStatic, AddFunction, AllocLabel, Bind, EmitLir,
           Building, MayBuild, OutsideBlock, BeginCommit, CommitRefused, CommitFunction,
           CreateEnv
  <2> QED  BY <2>1 DEF Next, AllocateConstant, AllocateStatic, AddFunction, AllocLabel, Bind,
                       EmitLir, Building, MayBuild, OutsideBlock, BeginCommit, CommitRefused,
                       CommitFunction
<1>2. /\ pc = "commit" /\ current \notin Functions /\ UNCHANGED <<lirs, commits>>
      /\ env' = [code |-> code, origin |-> origin,
                 constants |-> constants, statics |-> statics]
  BY <1>1 DEF CreateEnv
<1>3. ASSUME NEW f \in Functions
      PROVE  f < current
  <2>1. current \in Nat \ {0} /\ Functions = 1 .. Len(lirs) /\ Len(lirs) \in Nat
    BY DEF IInv, Progressing, TypeOK, Functions
  <2> QED  BY <1>2, <2>1
<1> QED  BY <1>2, <1>3

LEMMA LoadsWhenDone ==
  ASSUME IInv, Next, pc' = "done"
  PROVE  LoadsWhatIsMeant'
<1>1. /\ pc = "commit" /\ UNCHANGED <<lirs, commits>>
      /\ env'.code = code /\ env'.origin = origin
      /\ env'.constants = constants /\ env'.statics = statics
  BY DoneByCreateEnv
<1> SUFFICES ASSUME commits = 1, constants + statics <= UINT18_MAX + 1,
                    NEW p \in DOMAIN code, code[p].op \in {"LOAD", "STORE"}
             PROVE  LET lir == lirs[origin[p][1]][origin[p][2]]
                        data == IF lir.op = "LOADCONST" THEN lir.name ELSE constants + lir.name
                    IN code[p].arg = data /\ data < constants + statics
  BY <1>1 DEF LoadsWhatIsMeant
<1> DEFINE f == origin[p][1]
           k == origin[p][2]
           lir == lirs[f][k]
           data == IF lir.op = "LOADCONST" THEN lir.name ELSE constants + lir.name
<1>2. FirstTry
  BY <1>1 DEF FirstTry
<1>3. lir.op \in LoadsData /\ code[p].arg = data % (UINT18_MAX + 1)
  BY <1>2 DEF IInv, WordsKnown
<1>4. f \in Functions /\ k \in DOMAIN lirs[f]
  <2>1. f \in Functions /\ k \in Nat /\ k <= Len(lirs[f])
    BY DEF IInv, TypeOK, Structured
  <2>2. k # 0
    BY DEF IInv, Structured, NULL
  <2>3. DOMAIN lirs[f] = 1 .. Len(lirs[f]) /\ Len(lirs[f]) \in Nat
    BY <2>1, LirsTyped DEF IInv
  <2> HIDE DEF f, k
  <2> QED  BY <2>1, <2>2, <2>3
<1>5. lir.name \in Nat /\ constants \in Nat /\ statics \in Nat /\ UINT18_MAX \in Nat
  BY <1>4, LirsTyped, LIRCompilerAssumption DEF IInv, TypeOK
<1>6. /\ lir.op = "LOADCONST" => lir.name < constants
      /\ lir.op \in {"LOADGLOBAL", "STORE"} => lir.name < statics
  BY <1>2, <1>4 DEF IInv, OperandsKnown
<1> HIDE DEF f, k, lir
<1>7. data \in Nat /\ data < constants + statics
  BY <1>3, <1>5, <1>6 DEF LoadsData
<1> HIDE DEF data
<1>8. data % (UINT18_MAX + 1) = data
  <2>1. data \in Nat /\ data < UINT18_MAX + 1
    BY <1>5, <1>7
  <2> DEFINE m == UINT18_MAX + 1
  <2>2. m \in Nat /\ data < m
    BY <1>5, <2>1
  <2> HIDE DEF m
  <2>3. data % m = data
    BY <2>1, <2>2
  <2> QED  BY <2>3 DEF m
<1> QED  BY <1>3, <1>7, <1>8 DEF f, k, lir, data

LEMMA OnceWhenDone ==
  ASSUME IInv, Next, pc' = "done"
  PROVE  EveryLirOnce'
<1>1. /\ pc = "commit" /\ UNCHANGED <<lirs, commits>>
      /\ env'.origin = origin
      /\ \A f \in Functions : f < current
  BY DoneByCreateEnv
<1> SUFFICES ASSUME commits = 1
             PROVE  /\ \A p, q \in DOMAIN origin : p < q => Before(origin[p], origin[q])
                    /\ ToSet(origin) =
                         AllLirs \cup {<<f, NULL>> : f \in {g \in Functions : HasFrame(lirs[g])}}
  BY <1>1 DEF EveryLirOnce, AllLirs, LirsOf, Functions, Before
<1>2. FirstTry
  BY <1>1 DEF FirstTry
<1>3. DOMAIN origin = DOMAIN code
  BY DEF IInv, TypeOK
<1>4. \A p, q \in DOMAIN origin : p < q => Before(origin[p], origin[q])
  BY <1>2, <1>3 DEF IInv, OrderedSoFar
<1>5. /\ {g \in Functions : g < current} = Functions
      /\ {g \in Functions : g < current /\ HasFrame(lirs[g])}
           = {g \in Functions : HasFrame(lirs[g])}
  BY <1>1
<1>6. ToSet(origin) = AllLirs \cup {<<f, NULL>> : f \in {g \in Functions : HasFrame(lirs[g])}}
  <2>1. ToSet(origin) =
          (UNION {LirsOf(f) : f \in {g \in Functions : g < current}})
            \cup {<<f, NULL>> : f \in {g \in Functions : g < current /\ HasFrame(lirs[g])}}
    BY <1>1, <1>2 DEF IInv, CompleteSoFar
  <2> QED  BY <1>5, <2>1 DEF AllLirs
<1> QED  BY <1>4, <1>6

\* What the first commit made of the operands and the instructions stays so.
DoneInv == IInv /\ LoadsWhatIsMeant /\ EveryLirOnce

LEMMA NextDoneInv == DoneInv /\ [Next]_vars => DoneInv'
<1> SUFFICES ASSUME DoneInv, [Next]_vars PROVE DoneInv'
  OBVIOUS
<1>1. IInv'
  BY NextIInv DEF DoneInv
<1>2. CASE pc' # "done"
  <2>1. LoadsWhatIsMeant' /\ EveryLirOnce'
    BY <1>2 DEF LoadsWhatIsMeant, EveryLirOnce
  <2> QED  BY <1>1, <2>1 DEF DoneInv
<1>3. CASE Next /\ pc' = "done"
  BY <1>1, <1>3, LoadsWhenDone, OnceWhenDone DEF DoneInv
<1>4. CASE UNCHANGED vars
  <2>1. LoadsWhatIsMeant'
    BY <1>4 DEF DoneInv, LoadsWhatIsMeant, vars, client
  <2>2. EveryLirOnce'
    BY <1>4 DEF DoneInv, EveryLirOnce, vars, client, AllLirs, LirsOf, Functions, Before
  <2> QED  BY <1>1, <2>1, <2>2 DEF DoneInv
<1> QED  BY <1>2, <1>3, <1>4

LEMMA InitDoneInv == Init => DoneInv
<1> SUFFICES ASSUME Init PROVE LoadsWhatIsMeant /\ EveryLirOnce
  BY InitIInv DEF DoneInv
<1>1. pc # "done"
  BY DEF Init
<1> QED  BY <1>1 DEF LoadsWhatIsMeant, EveryLirOnce

\* In an environment that the first commit made, every LOAD and STORE names the
\* constant or the static that its client named, however much storage was
\* allocated after it, as long as the operand can hold every index.
THEOREM AlwaysLoadsWhatIsMeant == Spec => []LoadsWhatIsMeant
<1>1. Init => DoneInv
  BY InitDoneInv
<1>2. DoneInv /\ [Next]_vars => DoneInv'
  BY NextDoneInv
<1>3. DoneInv => LoadsWhatIsMeant
  BY DEF DoneInv
<1> QED  BY <1>1, <1>2, <1>3, PTL DEF Spec

\* That environment has every instruction once and in order, and one word more
\* for each function with a frame.
THEOREM AlwaysEveryLirOnce == Spec => []EveryLirOnce
<1>1. Init => DoneInv
  BY InitDoneInv
<1>2. DoneInv /\ [Next]_vars => DoneInv'
  BY NextDoneInv
<1>3. DoneInv => EveryLirOnce
  BY DEF DoneInv
<1> QED  BY <1>1, <1>2, <1>3, PTL DEF Spec

=============================================================================
