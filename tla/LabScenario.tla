----------------------------- MODULE LabScenario -----------------------------
(***************************************************************************)
(* run_scenario (lab/scenario_runner.py): reset the lab, check that it is  *)
(* healthy, inject the scenario's fault, order, wait until Prometheus      *)
(* shows the fault, reset, order again, and judge what was observed.  Runs *)
(* follow one another; other users of the lab act at any point between two *)
(* requests of the runner.  Every request is a step of its own, an order   *)
(* two: the inventory service takes it, the order service answers.  A      *)
(* request may raise with or without having taken effect, and the runner   *)
(* may be killed.                                                          *)
(***************************************************************************)
EXTENDS LabServices, Functions

CONSTANTS
  Scenario,    \* the scenario definitions
  MaxRuns, MaxFaults

(* What collect_requests records of an order, and wait_for_fault_metrics   *)
(* of the metrics.                                                         *)
Observation == [under : FaultMode \cup {None}, status : {200, 503}, ms : Nat]
Metrics == [active : BOOLEAN, delta : Int]

ASSUME ScenarioAssumption ==
  /\ \A s \in Scenario :
       /\ s.fault \in FaultConfig
       /\ s.count \in 1..100          \* request_count
       /\ s.statuses \subseteq {200, 503}
       /\ s.latency \in Nat           \* minimum_average_latency_ms
  /\ None \notin Metrics
  /\ MaxRuns \in Nat /\ MaxFaults \in Nat

VARIABLES
  runner,      \* the locals of run_scenario
  result,      \* the result.json of the last run, once written
  alone,       \* history: only the runner has touched the services in this run
  runs, faults

vars == <<lab, scraped, others, runner, result, alone, runs, faults>>

Ordering == {"baseline", "fault", "recovery"}
Polling == {"series", "before", "pollFault", "pollSignal"}

(* before: the signal's baseline; orders: the observations of this round   *)
(* of orders; fault: fault_requests; metrics: None until collected.        *)
Runner ==
  [step : Ordering \cup Polling \cup {"idle", "reset", "inject", "cleanup", "evaluate"},
   scenario : Scenario \cup {None}, order : Observation \cup {None},
   orders : Seq(Observation), fault : Seq(Observation), before : Nat, active : BOOLEAN,
   metrics : Metrics \cup {None}, error : BOOLEAN]
Idle ==
  [step |-> "idle", scenario |-> None, order |-> None, orders |-> <<>>, fault |-> <<>>,
   before |-> 0, active |-> FALSE, metrics |-> None, error |-> FALSE]

Wanted(step) == CASE step = "baseline" -> 2 [] step = "fault" -> runner.scenario.count
                  [] step = "recovery" -> 3

(* The runner has its shape: rounds of orders are never longer than asked  *)
(* for, and complete where the next step relies on it.                     *)
TypeOK ==
  /\ LabTypeOK
  /\ runner \in Runner
  /\ runner.step # "idle" => runner.scenario \in Scenario
  /\ runner.step \in Ordering => Len(runner.orders) < Wanted(runner.step)
  /\ runner.step \in {"pollFault", "pollSignal"} => Len(runner.fault) = runner.scenario.count
  /\ runner.step = "evaluate" => Len(runner.orders) = 3 \/ (runner.error /\ runner.orders = <<>>)
  /\ alone \in BOOLEAN
  /\ runs \in 0..MaxRuns /\ faults \in 0..MaxFaults

Init ==
  /\ LabInit
  /\ runner = Idle
  /\ result = None
  /\ alone = TRUE
  /\ runs = 0
  /\ faults = 0

Keep == UNCHANGED <<scraped, others, result, alone, runs, faults>>
Go(step) == runner' = [runner EXCEPT !.step = step]

Start(s) ==
  /\ runner = Idle
  /\ runs < MaxRuns
  /\ runs' = runs + 1
  /\ runner' = [Idle EXCEPT !.step = "reset", !.scenario = s]
  /\ alone' = TRUE
  /\ result' = None
  /\ UNCHANGED <<lab, scraped, others, faults>>

(* The first reset, the injection, and the reset of the finally clause.    *)
Post ==
  /\ \/ runner.step = "reset" /\ Configure(NoFault) /\ Go("baseline")
     \/ runner.step = "inject" /\ Configure(runner.scenario.fault) /\ Go("fault")
     \/ runner.step = "cleanup" /\ Configure(NoFault) /\ Go("recovery")
  /\ Keep

(* collect_requests, one order after the other.                            *)
SendOrder ==
  /\ runner.step \in Ordering /\ runner.order = None
  /\ runner' = [runner EXCEPT !.order = Order(config, count + 1)]
  /\ NextRequest
  /\ Keep

(* After the last order of a round: a baseline with a failure raises.      *)
Collected(orders) ==
  IF Len(orders) < Wanted(runner.step)
  THEN [runner EXCEPT !.order = None, !.orders = orders]
  ELSE LET next == [runner EXCEPT !.order = None, !.orders = <<>>] IN
       CASE runner.step = "baseline" ->
              IF \A i \in 1..Len(orders) : orders[i].status = 200
              THEN [next EXCEPT !.step = "series"]
              ELSE [next EXCEPT !.step = "cleanup", !.error = TRUE]
         [] runner.step = "fault" -> [next EXCEPT !.step = "pollFault", !.fault = orders]
         [] runner.step = "recovery" -> [next EXCEPT !.step = "evaluate", !.orders = orders]

ReceiveOrder ==
  /\ runner.step \in Ordering /\ runner.order # None
  /\ AnswerOrder(runner.order)
  /\ runner' = Collected(Append(runner.orders, runner.order))
  /\ Keep

(* The signal that the scenario's mode is judged by.                       *)
Latency == runner.scenario.fault.mode = "latency"
Signal == IF Latency THEN IF scraped.duration = None THEN 0 ELSE scraped.duration
                     ELSE scraped.failures
SignalWanted == IF Latency THEN runner.scenario.latency * runner.scenario.count
                           ELSE runner.scenario.count

(* wait_for_prometheus_series, then the baseline query.                    *)
SeriesThere ==
  /\ runner.step = "series" /\ scraped.duration # None
  /\ Go("before")
  /\ UNCHANGED lab /\ Keep
NoSeriesInTime ==
  /\ runner.step = "series" /\ scraped.duration = None
  /\ runner' = [runner EXCEPT !.step = "cleanup", !.error = TRUE]
  /\ UNCHANGED lab /\ Keep
QueryBaseline ==
  /\ runner.step = "before"
  /\ runner' = [runner EXCEPT !.step = "inject", !.before = Signal]
  /\ UNCHANGED lab /\ Keep

(* wait_for_fault_metrics: the gauge and then the signal, until both are   *)
(* there or the time is over; either way the last observation counts.      *)
QueryFault ==
  /\ runner.step = "pollFault"
  /\ runner' = [runner EXCEPT !.step = "pollSignal",
                              !.active = scraped.mode = runner.scenario.fault.mode]
  /\ UNCHANGED lab /\ Keep
QuerySignal ==
  /\ runner.step = "pollSignal"
  /\ LET delta == Signal - runner.before IN
     \/ runner' = [runner EXCEPT !.step = "cleanup",
                                 !.metrics = [active |-> runner.active, delta |-> delta]]
     \/ ~(runner.active /\ delta >= SignalWanted) /\ Go("pollFault")
  /\ UNCHANGED lab /\ Keep

(* Mutated operation: a round that raises keeps what it had collected.     *)
RaisedKeepsOrders ==
  [runner EXCEPT !.step = IF @ \in {"cleanup", "recovery"} THEN "evaluate" ELSE "cleanup",
                 !.order = None, !.error = TRUE]

(* The except clause, and the one in finally: what a round had collected   *)
(* is dropped, and after the finally clause's own failure nothing is       *)
(* retried.                                                                *)
Raised ==
  [runner EXCEPT !.step = IF @ \in {"cleanup", "recovery"} THEN "evaluate" ELSE "cleanup",
                 !.order = None, !.orders = <<>>, !.error = TRUE]

Fault == faults < MaxFaults /\ faults' = faults + 1

(* A request raises before it took effect, or its answer is lost after it. *)
RequestFails ==
  /\ Fault
  /\ runner.step \notin {"idle", "evaluate"}
  /\ runner.order = None
  /\ runner' = Raised
  /\ UNCHANGED <<lab, scraped, others, result, alone, runs>>
AnswerLost ==
  /\ Fault
  /\ \/ runner.step \in {"reset", "cleanup"} /\ Configure(NoFault)
     \/ runner.step = "inject" /\ Configure(runner.scenario.fault)
     \/ runner.step \in Ordering /\ runner.order # None /\ AnswerOrder(runner.order)
  /\ runner' = Raised
  /\ UNCHANGED <<scraped, others, result, alone, runs>>

(* The order service does not reach inventory for once.                    *)
OrderUnreached ==
  /\ Fault
  /\ runner.step \in Ordering /\ runner.order = None
  /\ runner' = [runner EXCEPT !.order = Unreached]
  /\ alone' = FALSE
  /\ UNCHANGED <<lab, scraped, others, result, runs>>

(* The runner's process is killed: no finally clause, no result.  After    *)
(* Ctrl-C there is no result either, and the reset and the orders of the   *)
(* finally clause find the services as those of another user do            *)
(* (OthersAct, before the next Start).                                     *)
Killed ==
  /\ Fault
  /\ runner # Idle
  /\ runner' = Idle
  /\ UNCHANGED <<lab, scraped, others, result, alone, runs>>

TotalMs(orders) == FoldFunction(LAMBDA order, ms : order.ms + ms, 0, orders)

(* evaluate_observations: metrics that were never collected do not count   *)
(* against the scenario.                                                   *)
StatusMatch(s, orders) == orders # <<>> /\ \A i \in 1..Len(orders) : orders[i].status \in s.statuses
LatencyMatch(s, orders) == TotalMs(orders) >= s.latency * Len(orders) /\ (orders = <<>> => s.latency = 0)
RecoveryMatch(orders) == orders # <<>> /\ \A i \in 1..Len(orders) : orders[i].status = 200
MetricsMatch(metrics) == metrics = None \/ (metrics.active /\ metrics.delta >= SignalWanted)

Evaluation ==
  /\ StatusMatch(runner.scenario, runner.fault) /\ LatencyMatch(runner.scenario, runner.fault)
  /\ RecoveryMatch(runner.orders) /\ MetricsMatch(runner.metrics)

(* Mutated operation: an execution error does not fail the scenario.       *)
PassedDespiteError == Evaluation

Passed == Evaluation /\ ~runner.error

(* result.json is written; alone and left are history.                     *)
WriteResult ==
  /\ runner.step = "evaluate"
  /\ result' = [scenario |-> runner.scenario, fault |-> runner.fault, recovery |-> runner.orders,
                metrics |-> runner.metrics, error |-> runner.error, passed |-> Passed,
                alone |-> alone, left |-> config.mode]
  /\ runner' = Idle
  /\ UNCHANGED <<lab, scraped, others, alone, runs, faults>>

Scrape == (ScrapeInventory \/ ScrapeOrder) /\ UNCHANGED <<runner, result, alone, runs, faults>>

(* Others' orders do not disturb a run: they set nothing.                  *)
OthersAct ==
  /\ \/ (OtherConfigures \/ InventoryRestarts \/ OrderRestarts) /\ alone' = FALSE
     \/ OtherOrders /\ UNCHANGED alone
  /\ UNCHANGED <<runner, result, runs, faults>>

Next ==
  \/ \E s \in Scenario : Start(s)
  \/ Post \/ SendOrder \/ ReceiveOrder
  \/ SeriesThere \/ NoSeriesInTime \/ QueryBaseline \/ QueryFault \/ QuerySignal
  \/ RequestFails \/ AnswerLost \/ OrderUnreached \/ Killed
  \/ WriteResult
  \/ Scrape \/ OthersAct

Spec == Init /\ [][Next]_vars

(* A result says what happened.  A pass had no error on the way and was    *)
(* seen by Prometheus, as an injection answered with the whole effect; and *)
(* when nobody else touched the services, every one of its fault orders    *)
(* met the scenario's fault and every recovery order met none.  A result   *)
(* without error leaves the lab without fault.  Scrapes may be arbitrarily *)
(* old, answers lost, and others may order meanwhile.                      *)
ResultTruthful ==
  result # None =>
    /\ result.passed =>
         /\ ~result.error
         /\ Len(result.fault) = result.scenario.count /\ Len(result.recovery) = 3
         /\ result.metrics # None /\ result.metrics.active
         /\ result.alone =>
              /\ \A i \in 1..Len(result.fault) : result.fault[i].under = result.scenario.fault.mode
              /\ \A i \in 1..Len(result.recovery) : result.recovery[i].under = "none"
    /\ ~result.error /\ result.alone => result.left = "none"
===============================================================================
