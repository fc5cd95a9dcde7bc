------------------------------ MODULE Sequence ------------------------------
(***************************************************************************)
(* What woort_vector.h and woort_linklist.h promise: a sequence, changed   *)
(* by the last call as that call says, and by nothing else.  A call that   *)
(* answers false changes nothing.                                          *)
(***************************************************************************)
EXTENDS Integers, Sequences, SequencesExt

CONSTANTS
  Values,
  Chunks,  \* what may be pushed at once: sequences of values
  Sizes    \* what the sequence may be resized to

VARIABLES
  seq,
  call     \* the last call that was made, with its arguments

vars == <<seq, call>>

Init == seq = <<>> /\ call = <<"init">>

PushBack(s) == call' = <<"push_back", s>> /\ seq' = seq \o s

PushFront(s) == call' = <<"push_front", s>> /\ seq' = s \o seq

Erase(k) == call' = <<"erase", k>> /\ seq' = RemoveAt(seq, k)

PopFront == seq # <<>> /\ call' = <<"pop_front">> /\ seq' = Tail(seq)

PopBack == seq # <<>> /\ call' = <<"pop_back">> /\ seq' = Front(seq)

\* What is beyond the old size may be anything.
Resize(n) ==
  /\ call' = <<"resize", n>>
  /\ seq' \in [1 .. n -> Values]
  /\ \A k \in DOMAIN seq \cap DOMAIN seq' : seq'[k] = seq[k]

Clear == call' = <<"clear">> /\ seq' = <<>>

\* The caller gets what was there.
MoveOut == call' = <<"move_out", seq>> /\ seq' = <<>>

Refuse == call' = <<"refused">> /\ UNCHANGED seq

Next ==
  \/ \E s \in Chunks : PushBack(s) \/ PushFront(s)
  \/ \E k \in DOMAIN seq : Erase(k)
  \/ PopFront \/ PopBack
  \/ \E n \in Sizes : Resize(n)
  \/ Clear \/ MoveOut \/ Refuse

Spec == Init /\ [][Next]_vars
=============================================================================
