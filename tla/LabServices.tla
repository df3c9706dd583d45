----------------------------- MODULE LabServices -----------------------------
(***************************************************************************)
(* The lab: an inventory service with one process-wide fault state         *)
(* (lab/faults.py), an order service that calls it (lab/app.py), and       *)
(* Prometheus, which scrapes the two each at its own time.                 *)
(*                                                                         *)
(* Each service is one asyncio process.  The lock of FaultState is never   *)
(* held across an await of something else, so configure and next_request   *)
(* are atomic; an order under latency sleeps after it has read its fault.  *)
(* Durations are the milliseconds a fault adds, rates are percents as      *)
(* next_request rounds them.  The buffers of traces and changes are left   *)
(* out: nothing here reads them.                                           *)
(***************************************************************************)
EXTENDS Integers, Sequences

CONSTANTS
  OtherFaults, \* the faults that other users of the lab set
  None,
  MaxOthers    \* how often others set the fault, order, or restart a service

VARIABLES
  config,      \* FaultState._config; the gauge fault_mode always shows it
  count,       \* FaultState._request_count
  failures,    \* downstream_requests with a status other than success
  duration,    \* sum of http_request_duration of orders, None before any
  scraped,     \* what Prometheus answers
  others

lab == <<config, count, failures, duration>>

FaultMode == {"none", "latency", "error_rate", "unavailable"}
FaultConfig == [mode : FaultMode, delay : 0..10000, rate : 0..100]
NoFault == [mode |-> "none", delay |-> 0, rate |-> 0]

ASSUME LabAssumption ==
  /\ OtherFaults \subseteq FaultConfig
  /\ MaxOthers \in Nat
  /\ None \notin Nat \cup FaultMode

LabTypeOK ==
  /\ config \in FaultConfig
  /\ count \in Nat
  /\ failures \in Nat
  /\ duration \in Nat \cup {None}
  /\ scraped \in [mode : FaultMode \cup {None}, failures : Nat, duration : Nat \cup {None}]
  /\ others \in 0..MaxOthers

LabInit ==
  /\ config = NoFault
  /\ count = 0
  /\ failures = 0
  /\ duration = None
  /\ scraped = [mode |-> None, failures |-> 0, duration |-> None]
  /\ others = 0

(* POST /admin/faults and /admin/faults/reset.                             *)
Configure(fault) ==
  /\ config' = fault
  /\ count' = 0
  /\ UNCHANGED <<failures, duration>>

Bucket(n) == (n * 37) % 100

(* next_request under error_rate: whether the n-th request since configure *)
(* fails.                                                                  *)
ShouldFail(fault, n) == fault.mode = "error_rate" /\ Bucket(n) < fault.rate

DownstreamTimeout == 2000

(* What an order comes to that inventory took as its n-th request under    *)
(* the fault: too late, refused, or well after the fault's delay.          *)
Order(fault, n) ==
  IF fault.mode = "latency" /\ fault.delay > DownstreamTimeout
  THEN [under |-> fault.mode, status |-> 503, ms |-> DownstreamTimeout]
  ELSE [under |-> fault.mode,
        status |-> IF fault.mode = "unavailable" \/ ShouldFail(fault, n) THEN 503 ELSE 200,
        ms |-> IF fault.mode = "latency" THEN fault.delay ELSE 0]

(* An order while inventory is restarting: a connection error.             *)
Unreached == [under |-> None, status |-> 503, ms |-> 0]

(* The inventory service takes the request of an order.                    *)
NextRequest ==
  /\ count' = count + 1
  /\ UNCHANGED <<config, failures, duration>>

(* The order service answers: it counts a failure downstream, and its      *)
(* middleware observes the duration.                                       *)
CountDownstream(order) == failures' = IF order.status = 503 THEN failures + 1 ELSE failures
ObserveRequest(order) == duration' = (IF duration = None THEN 0 ELSE duration) + order.ms
AnswerOrder(order) ==
  /\ CountDownstream(order) /\ ObserveRequest(order)
  /\ UNCHANGED <<config, count>>

(* Prometheus scrapes a target; a series of no sample yet is absent.       *)
ScrapeInventory ==
  /\ scraped' = [scraped EXCEPT !.mode = config.mode]
  /\ UNCHANGED <<lab, others>>
ScrapeOrder ==
  /\ scraped' = [scraped EXCEPT !.failures = failures, !.duration = duration]
  /\ UNCHANGED <<lab, others>>

(* The rest of the lab's users: another scenario, a recovery, a container  *)
(* that restarts.                                                          *)
Other == others < MaxOthers /\ others' = others + 1 /\ UNCHANGED scraped
OtherConfigures == Other /\ \E fault \in OtherFaults \cup {NoFault} : Configure(fault)
OtherOrders ==
  /\ Other
  /\ CountDownstream(Order(config, count + 1)) /\ ObserveRequest(Order(config, count + 1))
  /\ count' = count + 1
  /\ UNCHANGED config
InventoryRestarts == Other /\ Configure(NoFault)
OrderRestarts == Other /\ failures' = 0 /\ duration' = None /\ UNCHANGED <<config, count>>
===============================================================================
