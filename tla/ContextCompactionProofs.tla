------------------------ MODULE ContextCompactionProofs ------------------------
(***************************************************************************)
(* Proofs about ContextCompaction: lengths stay lengths, and every turn of *)
(* the loop comes nearer to its end although it may make a text longer.    *)
(***************************************************************************)
EXTENDS ContextCompaction, FiniteSetTheorems, TLAPS

(* What a text contributes to the turns that are left.  A text of 33 to 54 *)
(* characters grows by the marker's 22 once, and shrinks ever after.       *)
Measure(len) == IF len <= 54 THEN len + 23 ELSE len

(* One call of _shrink_text by the loop brings the measure down, whatever  *)
(* the length it starts from.                                              *)
LEMMA ShrinkingPays ==
  ASSUME NEW len \in Nat, len > 32
  PROVE  /\ ShrinkText(len, len - 32) \in Nat
         /\ Measure(ShrinkText(len, len - 32)) < Measure(len)
<1>1. CASE len <= 54
  <2>1. ShrinkText(len, len - 32) = 22 + len
    BY <1>1 DEF ShrinkText, Cut
  <2>2. 22 + len > 54
    OBVIOUS
  <2> QED
    BY <1>1, <2>1, <2>2 DEF Measure
<1>2. CASE len > 54
  <2>1. ShrinkText(len, len - 32) = len - 32
    BY <1>2 DEF ShrinkText, Cut
  <2> QED
    BY <1>2, <2>1 DEF Measure
<1> QED
  BY <1>1, <1>2

(* A bounded text has a length, whatever number its marker tells.          *)
LEMMA BoundedIsLength ==
  ASSUME NEW len \in Nat, NEW limit \in Nat
  PROVE  BoundedText(len, limit) \in Nat
<1>1. Digits(len - limit) \in Nat
  <2>1. IsFiniteSet(0..9)
    BY FS_Interval, 0 \in Int, 9 \in Int
  <2>2. \A S : {d \in S : 10^d <= len - limit} \subseteq S
    BY Zenon
  <2>3. IsFiniteSet({d \in 0..9 : 10^d <= len - limit})
    BY <2>1, <2>2, FS_Subset
  <2> QED
    BY <2>3, FS_CardinalityType DEF Digits
<1> QED
  BY <1>1 DEF BoundedText, Cut

(* Texts keep a length that is a natural number through every cut, and the *)
(* loop is in one of its three steps.                                      *)
THEOREM Typing == Spec => []TypeOK
<1>1. Init => TypeOK
  <2> SUFFICES ASSUME Init PROVE TypeOK
    OBVIOUS
  <2>1. PICK raw \in [Capsule -> Lengths] : length = [c \in Capsule |-> BoundedText(raw[c], EvidenceChars)]
    BY DEF Init
  <2>2. \A c \in Capsule : BoundedText(raw[c], EvidenceChars) \in Nat
    BY <2>1, BoundedIsLength, CompactionAssumption
  <2> QED
    BY <2>1, <2>2 DEF Init, TypeOK
<1>2. TypeOK /\ [Next]_vars => TypeOK'
  <2> SUFFICES ASSUME TypeOK, [Next]_vars PROVE TypeOK'
    OBVIOUS
  <2>1. CASE Shrink
    <3>1. PICK c \in Capsule : /\ length[c] > 32
                             /\ length' = [length EXCEPT ![c] = ShrinkText(length[c], length[c] - 32)]
      BY <2>1 DEF Shrink, Shortest
    <3>2. ShrinkText(length[c], length[c] - 32) \in Nat
      BY <3>1, ShrinkingPays DEF TypeOK
    <3> QED
      BY <2>1, <3>1, <3>2 DEF Shrink, TypeOK
  <2>2. CASE Fits
    BY <2>2 DEF Fits, TypeOK
  <2>3. CASE GiveUp
    BY <2>3 DEF GiveUp, TypeOK
  <2>4. CASE UNCHANGED vars
    BY <2>4 DEF vars, TypeOK
  <2> QED
    BY <2>1, <2>2, <2>3, <2>4 DEF Next
<1> QED
  BY <1>1, <1>2, PTL DEF Spec

TurnPays ==
  \E c \in Capsule :
    /\ Measure(length'[c]) < Measure(length[c])
    /\ \A d \in Capsule \ {c} : length'[d] = length[d]

(* No turn of the shrinking loop is wasted: it brings the measure of one   *)
(* text down and leaves all others.  With finitely many texts, measures    *)
(* that are natural numbers allow only so many turns, for any settings and *)
(* any texts.                                                              *)
THEOREM TurnsPay == Spec => [][Shrink => TurnPays]_vars
<1>1. TypeOK /\ [Next]_vars => [Shrink => TurnPays]_vars
  <2> SUFFICES ASSUME TypeOK, Shrink PROVE TurnPays
    OBVIOUS
  <2>1. PICK c \in Capsule : /\ length[c] > 32
                           /\ length' = [length EXCEPT ![c] = ShrinkText(length[c], length[c] - 32)]
    BY DEF Shrink, Shortest
  <2>2. Measure(length'[c]) < Measure(length[c])
    BY <2>1, ShrinkingPays DEF TypeOK
  <2>3. \A d \in Capsule \ {c} : length'[d] = length[d]
    BY <2>1 DEF TypeOK
  <2> QED
    BY <2>2, <2>3 DEF TurnPays
<1> QED
  BY <1>1, Typing, PTL DEF Spec
===============================================================================
