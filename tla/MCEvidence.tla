------------------------------- MODULE MCEvidence ------------------------------
(* Two calls over one incident, the first three of the six kinds.          *)
EXTENDS Evidence, TLC

CONSTANTS i1, e1, e2, e3, c1, c2, x1, x2

FirstDesired == <<"FAULT_STATE", "ORDER_FLOW_PROBE", "METRIC_SNAPSHOT">>
EvidenceSymmetry == Permutations(Id) \cup Permutations(Call) \cup Permutations(Content)
===============================================================================
