-------------------------- MODULE MCOutboxDispatch ---------------------------
(* OutboxDispatch on a small instance.                                     *)
EXTENDS OutboxDispatch, TLC

(* Processes, uuids and keys are interchangeable.                          *)
Symmetry ==
  Permutations(Relay) \cup Permutations(Consumer) \cup Permutations(Incident) \cup Permutations(Key)
=============================================================================
