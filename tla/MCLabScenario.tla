----------------------------- MODULE MCLabScenario -----------------------------
(* The three scenarios of ops-lab/scenarios with two orders each; others   *)
(* set an error rate of a half, or a latency the order service times out.  *)
EXTENDS LabScenario

File(mode, delay, rate, status, latency) ==
  [fault |-> [mode |-> mode, delay |-> delay, rate |-> rate], count |-> 2,
   statuses |-> {status}, latency |-> latency]

Scenarios ==
  {File("error_rate", 0, 100, 503, 0), File("latency", 800, 0, 200, 700),
   File("unavailable", 0, 0, 503, 0)}

SomeFaults ==
  {[mode |-> "error_rate", delay |-> 0, rate |-> 50], [mode |-> "latency", delay |-> 3000, rate |-> 0]}
===============================================================================
