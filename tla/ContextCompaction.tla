--------------------------- MODULE ContextCompaction --------------------------
(***************************************************************************)
(* compact_evidence (context_compaction.py): every evidence content        *)
(* becomes a capsule of bounded text, and while the capsules together are  *)
(* over the budget the longest text is cut again.  Only lengths are        *)
(* modelled.                                                               *)
(*                                                                         *)
(* A cut keeps head and tail around a marker.  When the limit leaves no    *)
(* room beside the marker, the tail's slice [-0:] is the whole text and    *)
(* the text grows by the marker.                                           *)
(***************************************************************************)
EXTENDS Integers, FiniteSets, FiniteSetsExt

CONSTANTS
  Capsule,
  Lengths,       \* the lengths that texts may have before
  TotalChars,    \* settings.context_total_chars
  EvidenceChars, \* settings.context_evidence_chars
  Overhead       \* the characters of all capsules' metadata

ASSUME CompactionAssumption ==
  /\ IsFiniteSet(Capsule)
  /\ Lengths \subseteq Nat
  /\ TotalChars \in Nat /\ EvidenceChars \in Nat /\ Overhead \in Nat

VARIABLES
  length,        \* per capsule: len(item["content"])
  step           \* "loop", "done", or "failed" with ContextBudgetError

vars == <<length, step>>

(* text[:head] + marker + text[-(available - head):]                       *)
Cut(len, limit, marker) ==
  IF limit > marker THEN limit ELSE marker + len

(* The decimal digits of a positive number below 10^10.                    *)
Digits(n) == Cardinality({d \in 0..9 : 10^d <= n})

(* The marker "...<truncated:" + number + ">..." is 18 and its digits.     *)
BoundedText(len, limit) ==
  IF len <= limit THEN len ELSE Cut(len, limit, 18 + Digits(len - limit))

(* The marker "...<context-budget>..." has 22 characters.                  *)
ShrinkText(len, limit) == IF len <= limit THEN len ELSE Cut(len, limit, 22)

TypeOK == length \in [Capsule -> Nat] /\ step \in {"loop", "done", "failed"}

Init ==
  /\ \E raw \in [Capsule -> Lengths] : length = [c \in Capsule |-> BoundedText(raw[c], EvidenceChars)]
  /\ step = "loop"

(* The size of the encoded capsules.  The texts are JSON themselves: any   *)
(* of their characters may be escaped, by one more.                        *)
Text == MapThenSumSet(LAMBDA c : length[c], Capsule)
MayFit == Overhead + Text <= TotalChars
MayExceed == Overhead + 2 * Text > TotalChars

Fits ==
  /\ step = "loop" /\ MayFit
  /\ step' = "done"
  /\ UNCHANGED length

(* Mutated operation: texts are cut as long as 16 characters would stay.   *)
ShortestLower == 16

(* A candidate no longer than this is not cut, and the loop gives up.      *)
Shortest == 32

Longest(c) == \A d \in Capsule : length[d] <= length[c]

Shrink ==
  /\ step = "loop" /\ MayExceed
  /\ \E c \in Capsule :
       /\ Longest(c) /\ length[c] > Shortest
       /\ length' = [length EXCEPT ![c] = ShrinkText(@, @ - 32)]
  /\ UNCHANGED step

GiveUp ==
  /\ step = "loop" /\ MayExceed
  /\ \A c \in Capsule : length[c] <= Shortest
  /\ step' = "failed"
  /\ UNCHANGED length

Next == Fits \/ Shrink \/ GiveUp

(* The loop waits for nothing.                                             *)
Spec == Init /\ [][Next]_vars /\ WF_vars(Next)

(* The loop ends although a cut can make a text longer, with capsules that *)
(* fit; and it gives up only when the budget leaves less than 64           *)
(* characters for each text beside the metadata.  The error's message      *)
(* speaks of the metadata alone; but texts are not cut below 32, which     *)
(* escapes may double.                                                     *)
EndsWithinBudget ==
  <>(\/ step = "done" /\ MayFit
     \/ step = "failed" /\ TotalChars < Overhead + 64 * Cardinality(Capsule))
===============================================================================
