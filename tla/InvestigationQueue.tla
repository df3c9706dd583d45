------------------------- MODULE InvestigationQueue --------------------------
(***************************************************************************)
(* What the incident path promises its users, with no relay, broker,       *)
(* consumer or retry in sight: a submitted incident is queued for          *)
(* investigation exactly once, its request is settled once, and neither is *)
(* taken back.                                                             *)
(***************************************************************************)
EXTENDS Naturals

CONSTANT Incident

VARIABLES
  stage,      \* the status a reader of the incident sees
  entries,    \* how many audit entries the incident has
  settled     \* the incidents whose investigation request is published

vars == <<stage, entries, settled>>

Init ==
  /\ stage = [i \in Incident |-> "ABSENT"]
  /\ entries = [i \in Incident |-> 0]
  /\ settled = {}

Submit(i) ==
  /\ stage[i] = "ABSENT"
  /\ stage' = [stage EXCEPT ![i] = "RECEIVED"]
  /\ entries' = [entries EXCEPT ![i] = 1]
  /\ UNCHANGED settled

Queue(i) ==
  /\ stage[i] = "RECEIVED"
  /\ stage' = [stage EXCEPT ![i] = "INVESTIGATION_QUEUED"]
  /\ entries' = [entries EXCEPT ![i] = 2]
  /\ UNCHANGED settled

Settle(i) ==
  /\ stage[i] # "ABSENT"
  /\ settled' = settled \cup {i}
  /\ UNCHANGED <<stage, entries>>

Next == \E i \in Incident : Submit(i) \/ Queue(i) \/ Settle(i)

Fairness == \A i \in Incident : WF_vars(Queue(i)) /\ WF_vars(Settle(i))

Safety == Init /\ [][Next]_vars
Spec == Safety /\ Fairness
=============================================================================
