----------------------------- MODULE MCRecovery ------------------------------
(* Recovery on a small instance.                                           *)
EXTENDS Recovery, TLC

(* Users, incidents, uuids and calls are interchangeable.                  *)
Symmetry ==
  Permutations(User) \cup Permutations(Incident) \cup Permutations(Approval)
    \cup Permutations(Execution) \cup Permutations(Call)
=============================================================================
