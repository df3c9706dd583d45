-------------------------- MODULE MCIncidentIntake ---------------------------
(* IncidentIntake on a small instance.                                     *)
EXTENDS IncidentIntake, TLC

(* Callers, uuids, keys and bodies are interchangeable.                    *)
Symmetry ==
  Permutations(Caller) \cup Permutations(Incident) \cup Permutations(Key) \cup Permutations(Body)
=============================================================================
