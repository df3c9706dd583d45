------------------------------ MODULE LabProofs ------------------------------
(***************************************************************************)
(* The deterministic error rate of lab/faults.py: 37 has the inverse 73    *)
(* modulo 100, so a hundred requests in a row visit every bucket once.     *)
(***************************************************************************)
EXTENDS LabScenario, FiniteSetTheorems, TLAPS

(* The hundred requests after the m-th since the last configure.           *)
Round(m) == (m + 1)..(m + 100)

(* There are a hundred buckets.                                             *)
LEMMA BucketRange == ASSUME NEW n \in Nat PROVE Bucket(n) \in 0..99
BY DEF Bucket

(* A remainder is known by its range.                                       *)
LEMMA ModUnique ==
  ASSUME NEW a \in Int, NEW b \in Int, NEW q \in Int, a = b + 100 * q, b \in 0..99
  PROVE  a % 100 = b
OBVIOUS

(* A number is its remainder and so many hundreds.                          *)
LEMMA ModQuotient ==
  ASSUME NEW a \in Int
  PROVE  \E q \in Int : a = (a % 100) + 100 * q
<1>1. a = (a % 100) + 100 * (a \div 100) /\ a \div 100 \in Int
  OBVIOUS
<1> QED
  BY <1>1

(* No bucket is met twice within a round.                                  *)
LEMMA BucketsDiffer ==
  ASSUME NEW m \in Nat, NEW n \in Round(m), NEW k \in Round(m), Bucket(n) = Bucket(k)
  PROVE  n = k
<1>1. n \in Int /\ k \in Int /\ -100 < n - k /\ n - k < 100
  BY DEF Round
<1>2. PICK p \in Int : n * 37 = Bucket(n) + 100 * p
  BY <1>1, ModQuotient DEF Bucket
<1>3. PICK q \in Int : k * 37 = Bucket(k) + 100 * q
  BY <1>1, ModQuotient DEF Bucket
<1>4. (n - k) * 37 = 100 * (p - q)
  BY <1>1, <1>2, <1>3, BucketRange DEF Round
<1>5. n - k = 100 * (27 * (n - k) - 73 * (p - q)) * (-1)
  BY <1>1, <1>4
<1> QED
  BY <1>1, <1>5

(* Every bucket is met within a round.                                     *)
LEMMA BucketsMet ==
  ASSUME NEW m \in Nat, NEW b \in 0..99
  PROVE  \E n \in Round(m) : Bucket(n) = b
<1> DEFINE r == (73 * b - (m + 1)) % 100
           n == m + 1 + r
<1>1. PICK q \in Int : 73 * b - (m + 1) = r + 100 * q
  <2>1. 73 * b - (m + 1) \in Int
    OBVIOUS
  <2> QED
    BY <2>1, ModQuotient, Zenon
<1>2. r \in 0..99
  OBVIOUS
<1>3. n \in Round(m)
  BY <1>2 DEF Round
<1>4. n = 73 * b - 100 * q
  BY <1>1, <1>2
<1>5. n * 37 = b + 100 * (27 * b - 37 * q)
  BY <1>4
<1>6. Bucket(n) = b
  BY <1>5, <1>3, ModUnique DEF Bucket, Round
<1> QED
  BY <1>3, <1>6

(* How many buckets are below the rate.                                     *)
LEMMA BucketsBelow == ASSUME NEW rate \in Nat PROVE Cardinality(0..(rate - 1)) = rate
<1> DEFINE last == rate - 1
<1>1. last \in Int /\ 0 \in Int
  OBVIOUS
<1>2. Cardinality(0..last) = IF 0 > last THEN 0 ELSE last - 0 + 1
  BY <1>1, FS_Interval
<1> QED
  BY <1>2

(* Under an error rate of so many percent exactly so many of any hundred   *)
(* requests in a row fail, wherever the hundred begins: the sequence of    *)
(* buckets has no bias that a long run would show.                         *)
THEOREM ErrorRateExact ==
  ASSUME NEW fault \in FaultConfig, fault.mode = "error_rate", NEW m \in Nat
  PROVE  Cardinality({n \in Round(m) : ShouldFail(fault, n)}) = fault.rate
<1> DEFINE failing == {n \in Round(m) : ShouldFail(fault, n)}
           low == 0..(fault.rate - 1)
           bucket == [n \in failing |-> Bucket(n)]
<1>1. fault.rate \in 0..100
  BY DEF FaultConfig
<1>2. \A n \in failing : n \in Nat /\ Bucket(n) \in low
  BY <1>1, BucketRange DEF ShouldFail, Round
<1>3. bucket \in Bijection(failing, low)
  <2>1. bucket \in Injection(failing, low)
    <3>1. bucket \in [failing -> low]
      BY <1>2
    <3>2. \A n, k \in failing : bucket[n] = bucket[k] => n = k
      BY BucketsDiffer
    <3> QED
      BY <3>1, <3>2 DEF Injection, IsInjective
  <2>2. \A b \in low : \E n \in failing : bucket[n] = b
    <3> SUFFICES ASSUME NEW b \in low PROVE \E n \in failing : bucket[n] = b
      OBVIOUS
    <3>1. b \in 0..99 /\ b < fault.rate
      BY <1>1
    <3>2. PICK n \in Round(m) : Bucket(n) = b
      BY <3>1, BucketsMet
    <3>3. n \in failing
      BY <3>1, <3>2 DEF ShouldFail
    <3> QED
      BY <3>2, <3>3
  <2> QED
    BY <2>1, <2>2 DEF Bijection, Surjection, Injection
<1>4. IsFiniteSet(failing)
  <2>1. IsFiniteSet(Round(m))
    BY FS_Interval DEF Round
  <2> QED
    BY <2>1, FS_Subset
<1>5. Cardinality(low) = fault.rate
  <2>1. fault.rate \in Nat
    BY <1>1
  <2> QED
    BY <2>1, BucketsBelow, Zenon
<1> QED
  BY <1>3, <1>4, <1>5, FS_Bijection DEF ExistsBijection
-----------------------------------------------------------------------------
(* run_scenario.  What is asked of the runner's shape,                     *)
Rounds(w) == CASE w.step = "baseline" -> 2 [] w.step = "fault" -> w.scenario.count
               [] w.step = "recovery" -> 3

WellFormed(w) ==
  /\ w \in Runner
  /\ w.step # "idle" => w.scenario \in Scenario
  /\ w.step \in Ordering => Len(w.orders) < Rounds(w)
  /\ w.step \in {"pollFault", "pollSignal"} => Len(w.fault) = w.scenario.count
  /\ w.step = "evaluate" => Len(w.orders) = 3 \/ (w.error /\ w.orders = <<>>)

(* that nothing is left over from another stage, an error leads to the     *)
(* reset, and who gets there without one has orders and metrics,           *)
Early == {"reset", "baseline", "series", "before", "inject", "fault"}
Late == {"cleanup", "recovery", "evaluate"}
Honest(w) ==
  /\ w.step \notin Ordering => w.order = None
  /\ w.step \notin Ordering \cup {"evaluate"} => w.orders = <<>>
  /\ w.step \in Early => w.fault = <<>>
  /\ w.error => w.step \in Late
  /\ w.step \in Late /\ ~w.error => w.metrics # None /\ Len(w.fault) = w.scenario.count

(* and what holds of the lab while nobody else touches the services: it    *)
(* has the fault that the runner has set, and every order met that fault.  *)
AllUnder(orders, mode) == \A i \in 1..Len(orders) : orders[i].under = mode
Undisturbed(w) ==
  /\ w.step = "fault" =>
       /\ config = w.scenario.fault
       /\ AllUnder(w.orders, w.scenario.fault.mode)
       /\ w.order # None => w.order.under = w.scenario.fault.mode
  /\ w.step = "recovery" \/ (w.step = "evaluate" /\ ~w.error) =>
       /\ config = NoFault
       /\ AllUnder(w.orders, "none")
       /\ w.order # None => w.order.under = "none"
  /\ w.step # "idle" => AllUnder(w.fault, w.scenario.fault.mode)

IInv == TypeOK /\ Honest(runner) /\ (alone => Undisturbed(runner)) /\ ResultTruthful

-----------------------------------------------------------------------------
(* TypeOK, taken apart.                                                    *)
LEMMA TypeParts ==
  TypeOK <=> /\ LabTypeOK /\ WellFormed(runner)
             /\ alone \in BOOLEAN /\ runs \in 0..MaxRuns /\ faults \in 0..MaxFaults
BY DEF TypeOK, WellFormed, Rounds, Wanted, Ordering

(* A round that has not begun.                                             *)
LEMMA NoOrders == <<>> \in Seq(Observation) /\ Len(<<>>) = 0 /\ \A mode : AllUnder(<<>>, mode)
<1>1. <<>> \in Seq(Observation) /\ Len(<<>>) = 0
  OBVIOUS
<1> QED
  BY <1>1 DEF AllUnder

(* What an order comes to says which fault it met.                         *)
LEMMA OrderMeets ==
  ASSUME NEW fault \in FaultConfig, NEW n \in Nat
  PROVE  Order(fault, n) \in Observation /\ Order(fault, n).under = fault.mode
<1>1. fault.mode \in FaultMode /\ fault.delay \in 0..10000
  BY DEF FaultConfig
<1>2. PICK delay \in 0..10000 : delay = fault.delay
  BY <1>1
<1>3. PICK status \in {200, 503} :
        status = IF fault.mode = "unavailable" \/ ShouldFail(fault, n) THEN 503 ELSE 200
  OBVIOUS
<1>4. PICK ms \in Nat : ms = IF fault.mode = "latency" THEN delay ELSE 0
  OBVIOUS
<1>5. \/ Order(fault, n) = [under |-> fault.mode, status |-> 503, ms |-> 2000]
      \/ Order(fault, n) = [under |-> fault.mode, status |-> status, ms |-> ms]
  BY <1>2, <1>3, <1>4 DEF Order, DownstreamTimeout
<1>6. 2000 \in Nat
  OBVIOUS
<1> QED
  BY <1>1, <1>3, <1>4, <1>5, <1>6 DEF Observation

(* No fault is a setting like others.                                       *)
LEMMA NoFaultIsFault == NoFault \in FaultConfig /\ NoFault.mode = "none"
BY DEF NoFault, FaultConfig, FaultMode

(* Each thing that happens to the services leaves them in a state.         *)
LEMMA LabConfigured ==
  ASSUME LabTypeOK, NEW fault \in FaultConfig, Configure(fault), scraped' = scraped,
         others' \in 0..MaxOthers
  PROVE  LabTypeOK'
BY DEF LabTypeOK, Configure

(* An order that is answered.                                               *)
LEMMA LabAnswered ==
  ASSUME LabTypeOK, NEW order \in Observation, AnswerOrder(order), scraped' = scraped,
         others' \in 0..MaxOthers
  PROVE  LabTypeOK'
<1>1. order.ms \in Nat
  BY DEF Observation
<1>2. failures' \in Nat
  BY DEF LabTypeOK, AnswerOrder, CountDownstream
<1>3. duration' \in Nat
  BY <1>1 DEF LabTypeOK, AnswerOrder, ObserveRequest
<1> QED
  BY <1>2, <1>3 DEF LabTypeOK, AnswerOrder

(* A step that leaves the services alone.                                   *)
LEMMA LabStays ==
  ASSUME LabTypeOK, UNCHANGED <<lab, scraped, others>>
  PROVE  LabTypeOK' /\ config' = config
BY DEF LabTypeOK, lab

(* Prometheus and the other users.                                         *)
LEMMA LabOthers ==
  ASSUME LabTypeOK, Scrape \/ OthersAct
  PROVE  /\ LabTypeOK'
         /\ UNCHANGED <<runner, result, runs, faults>>
         /\ (alone' = alone /\ config' = config) \/ alone' = FALSE
<1>1. CASE Scrape
  <2>1. /\ UNCHANGED <<lab, others, runner, result, alone, runs, faults>>
        /\ \/ scraped' = [scraped EXCEPT !.mode = config.mode]
           \/ scraped' = [scraped EXCEPT !.failures = failures, !.duration = duration]
    BY <1>1 DEF Scrape, ScrapeInventory, ScrapeOrder
  <2>2. config.mode \in FaultMode
    BY DEF LabTypeOK, FaultConfig
  <2>3. scraped' \in [mode : FaultMode \cup {None}, failures : Nat, duration : Nat \cup {None}]
    BY <2>1, <2>2 DEF LabTypeOK
  <2> QED
    BY <2>1, <2>3 DEF LabTypeOK, lab
<1>2. CASE OthersAct
  <2>1. Other => scraped' = scraped /\ others' \in 0..MaxOthers
    BY LabAssumption DEF Other, LabTypeOK
  <2>2. /\ UNCHANGED <<runner, result, runs, faults>>
        /\ \/ (OtherConfigures \/ InventoryRestarts \/ OrderRestarts) /\ alone' = FALSE
           \/ OtherOrders /\ UNCHANGED alone
    BY <1>2 DEF OthersAct
  <2>3. CASE OtherConfigures
    <3>1. PICK fault \in OtherFaults \cup {NoFault} : Configure(fault)
      BY <2>3 DEF OtherConfigures
    <3>2. fault \in FaultConfig
      BY NoFaultIsFault, LabAssumption
    <3> QED
      BY <2>1, <2>2, <2>3, <3>1, <3>2, LabConfigured DEF OtherConfigures, OtherOrders, Configure
  <2>4. CASE InventoryRestarts
    BY <2>1, <2>2, <2>4, NoFaultIsFault, LabConfigured DEF InventoryRestarts, OtherOrders, Configure
  <2>5. CASE OrderRestarts
    BY <2>1, <2>2, <2>5 DEF OrderRestarts, OtherOrders, LabTypeOK
  <2>6. CASE OtherOrders
    <3>1. config \in FaultConfig /\ count + 1 \in Nat
      BY DEF LabTypeOK
    <3>2. PICK order \in Observation : order = Order(config, count + 1)
      BY <3>1, OrderMeets
    <3>3. CountDownstream(order) /\ ObserveRequest(order) /\ order.ms \in Nat
      BY <2>6, <3>2 DEF OtherOrders, Observation
    <3>4. failures' \in Nat /\ duration' \in Nat
      <4>1. failures' \in Nat
        BY <3>3 DEF LabTypeOK, CountDownstream
      <4>2. duration' \in Nat
        BY <3>3 DEF LabTypeOK, ObserveRequest
      <4> QED
        BY <4>1, <4>2
    <3>5. config' = config /\ count' \in Nat
      BY <2>6, <3>1 DEF OtherOrders
    <3> QED
      BY <2>1, <2>2, <2>6, <3>4, <3>5 DEF OtherOrders, LabTypeOK
  <2> QED
    BY <2>2, <2>3, <2>4, <2>5, <2>6
<1> QED
  BY <1>1, <1>2

(* The runner goes on to another step.                                     *)
LEMMA StepOnly ==
  ASSUME NEW w \in Runner, NEW step \in Ordering \cup Polling \cup {"reset", "inject", "cleanup", "evaluate"},
         NEW v, v = [w EXCEPT !.step = step]
  PROVE  /\ v \in Runner /\ v.step = step
         /\ v.scenario = w.scenario /\ v.order = w.order /\ v.orders = w.orders /\ v.fault = w.fault
         /\ v.before = w.before /\ v.active = w.active /\ v.metrics = w.metrics /\ v.error = w.error
BY DEF Runner, Ordering, Polling

(* Wherever it raises, the runner goes to the reset, or if that was over   *)
(* to the evaluation, with an error and no orders.                         *)
LEMMA RaisedFields ==
  ASSUME runner \in Runner
  PROVE  /\ Raised \in Runner /\ Raised.step \in {"cleanup", "evaluate"}
         /\ Raised.scenario = runner.scenario /\ Raised.fault = runner.fault
         /\ Raised.order = None /\ Raised.orders = <<>> /\ Raised.error = TRUE
<1>1. PICK q \in Seq(Observation) : q = <<>>
  BY NoOrders
<1>2. Raised = [runner EXCEPT !.step = IF runner.step \in {"cleanup", "recovery"} THEN "evaluate" ELSE "cleanup",
                              !.order = None, !.orders = q, !.error = TRUE]
  BY <1>1 DEF Raised, Runner
<1> QED
  BY <1>1, <1>2 DEF Runner

(* There, with an error, nothing more is asked of the run.                  *)
LEMMA RaisedIsSound ==
  ASSUME WellFormed(runner), runner.step # "idle", runner' = Raised
  PROVE  /\ WellFormed(runner)' /\ Honest(runner)'
         /\ Undisturbed(runner) => Undisturbed(runner)'
<1>1. /\ runner' \in Runner /\ runner'.step \in {"cleanup", "evaluate"}
      /\ runner'.scenario = runner.scenario /\ runner'.fault = runner.fault
      /\ runner'.order = None /\ runner'.orders = <<>> /\ runner'.error = TRUE
  BY RaisedFields DEF WellFormed
<1>2. WellFormed(runner)'
  BY <1>1 DEF WellFormed, Ordering
<1>3. Honest(runner)'
  BY <1>1 DEF Honest, Ordering, Early, Late
<1>4. Undisturbed(runner) => Undisturbed(runner)'
  BY <1>1 DEF Undisturbed, AllUnder
<1> QED
  BY <1>2, <1>3, <1>4

(* One order more.                                                         *)
LEMMA OneMore ==
  ASSUME NEW S, NEW p \in Seq(S), NEW x \in S
  PROVE  /\ Append(p, x) \in Seq(S) /\ Len(Append(p, x)) = Len(p) + 1
         /\ \A i \in 1..Len(p) + 1 : Append(p, x)[i] = IF i <= Len(p) THEN p[i] ELSE x
OBVIOUS

(* A round stays under one fault when the next order meets it.              *)
LEMMA AllUnderMore ==
  ASSUME NEW p \in Seq(Observation), NEW x \in Observation, NEW mode,
         AllUnder(p, mode), x.under = mode
  PROVE  AllUnder(Append(p, x), mode)
<1>1. PICK q : q = Append(p, x)
  OBVIOUS
<1>2. /\ Len(q) = Len(p) + 1 /\ Len(p) \in Nat
      /\ \A i \in 1..Len(p) + 1 : q[i] = IF i <= Len(p) THEN p[i] ELSE x
  BY <1>1, OneMore
<1>3. ASSUME NEW i \in 1..Len(q) PROVE q[i].under = mode
  BY <1>2 DEF AllUnder
<1>4. AllUnder(q, mode)
  BY <1>3 DEF AllUnder
<1> QED
  BY <1>1, <1>4

(* The runner's locals after an order has been answered: the round goes    *)
(* on, or is over.                                                         *)
LEMMA CollectedFields ==
  ASSUME runner \in Runner, runner.step \in Ordering, NEW q \in Seq(Observation),
         NEW v, v = Collected(q)
  PROVE  /\ v \in Runner
         /\ v.scenario = runner.scenario /\ v.order = None /\ v.metrics = runner.metrics
         /\ Len(q) < Wanted(runner.step) =>
              v.step = runner.step /\ v.orders = q /\ v.fault = runner.fault /\ v.error = runner.error
         /\ ~(Len(q) < Wanted(runner.step)) =>
              \/ /\ runner.step = "baseline" /\ v.orders = <<>> /\ v.fault = runner.fault
                 /\ \/ v.step = "series" /\ v.error = runner.error
                    \/ v.step = "cleanup" /\ v.error = TRUE
              \/ /\ runner.step = "fault" /\ v.step = "pollFault" /\ v.orders = <<>>
                 /\ v.fault = q /\ v.error = runner.error
              \/ /\ runner.step = "recovery" /\ v.step = "evaluate" /\ v.orders = q
                 /\ v.fault = runner.fault /\ v.error = runner.error
<1>1. CASE Len(q) < Wanted(runner.step)
  <2>1. v = [runner EXCEPT !.order = None, !.orders = q]
    BY <1>1 DEF Collected
  <2> QED
    BY <1>1, <2>1 DEF Runner
<1>2. CASE ~(Len(q) < Wanted(runner.step))
  <2>1. PICK none \in Seq(Observation) : none = <<>>
    BY NoOrders
  <2>2. PICK next : next = [runner EXCEPT !.order = None, !.orders = none]
    OBVIOUS
  <2>3. /\ next \in Runner /\ next.scenario = runner.scenario /\ next.order = None
        /\ next.metrics = runner.metrics /\ next.orders = none /\ next.fault = runner.fault
        /\ next.error = runner.error
    BY <2>2 DEF Runner
  <2>4. CASE runner.step = "baseline"
    <3>1. v = [next EXCEPT !.step = "series"] \/ v = [next EXCEPT !.step = "cleanup", !.error = TRUE]
      BY <1>2, <2>1, <2>2, <2>4 DEF Collected
    <3> QED
      BY <1>2, <2>1, <2>3, <2>4, <3>1 DEF Runner, Polling
  <2>5. CASE runner.step = "fault"
    <3>1. v = [next EXCEPT !.step = "pollFault", !.fault = q]
      BY <1>2, <2>1, <2>2, <2>5 DEF Collected
    <3> QED
      BY <1>2, <2>1, <2>3, <2>5, <3>1 DEF Runner, Polling
  <2>6. CASE runner.step = "recovery"
    <3>1. v = [next EXCEPT !.step = "evaluate", !.orders = q]
      BY <1>2, <2>1, <2>2, <2>6 DEF Collected
    <3> QED
      BY <1>2, <2>1, <2>3, <2>6, <3>1 DEF Runner
  <2> QED
    BY <2>4, <2>5, <2>6 DEF Ordering
<1> QED
  BY <1>1, <1>2

-----------------------------------------------------------------------------
(* What every step keeps of the runner.                                    *)
RunnerInv == WellFormed(runner) /\ Honest(runner) /\ (alone => Undisturbed(runner))

(* The scenario's own numbers and the empty round.                         *)
LEMMA ScenarioFacts ==
  ASSUME WellFormed(runner), runner.step # "idle"
  PROVE  /\ runner.scenario \in Scenario /\ runner.scenario.fault \in FaultConfig
         /\ runner.scenario.count \in 1..100
BY ScenarioAssumption DEF WellFormed

(* The runner is another one, or the lab is.                               *)
LEMMA RunnerStays ==
  ASSUME RunnerInv, runner' = runner,
         (alone' = alone /\ config' = config) \/ alone' = FALSE
  PROVE  RunnerInv'
<1>1. WellFormed(runner)' /\ Honest(runner)'
  BY DEF RunnerInv, WellFormed, Honest, Rounds
<1>2. alone' => Undisturbed(runner)'
  BY DEF RunnerInv, Undisturbed
<1> QED
  BY <1>1, <1>2 DEF RunnerInv

(* The resets and the injection.                                            *)
LEMMA PostSteps ==
  ASSUME RunnerInv, Post
  PROVE  RunnerInv'
<1>0. runner \in Runner /\ runner.step # "idle" /\ alone' = alone
  BY DEF RunnerInv, WellFormed, Post, Keep
<1>1. PICK step \in Ordering :
        /\ Go(step)
        /\ \/ runner.step = "reset" /\ config' = NoFault /\ step = "baseline"
           \/ runner.step = "inject" /\ config' = runner.scenario.fault /\ step = "fault"
           \/ runner.step = "cleanup" /\ config' = NoFault /\ step = "recovery"
  BY DEF Post, Configure, Ordering
<1>2. /\ runner' \in Runner /\ runner'.step = step
      /\ runner'.scenario = runner.scenario /\ runner'.order = runner.order
      /\ runner'.orders = runner.orders /\ runner'.fault = runner.fault
      /\ runner'.metrics = runner.metrics /\ runner'.error = runner.error
  BY <1>0, <1>1, StepOnly DEF Go
<1>3. runner.orders = <<>> /\ runner.order = None /\ Len(runner'.orders) = 0
  BY <1>1, <1>2, NoOrders DEF RunnerInv, Honest, Ordering
<1>4. WellFormed(runner)'
  <2>1. runner'.scenario \in Scenario /\ runner'.scenario.count \in 1..100
    BY <1>0, <1>2, ScenarioFacts DEF RunnerInv
  <2>2. 0 < Rounds(runner')
    BY <1>1, <1>2, <2>1, ScenarioFacts DEF Rounds
  <2> QED
    BY <1>1, <1>2, <1>3, <2>1, <2>2 DEF WellFormed, Ordering
<1>5. Honest(runner)'
  BY <1>1, <1>2, <1>3 DEF RunnerInv, Honest, Ordering, Early, Late
<1>6. alone' => Undisturbed(runner)'
  BY <1>0, <1>1, <1>2, <1>3 DEF RunnerInv, Undisturbed, AllUnder
<1> QED
  BY <1>4, <1>5, <1>6 DEF RunnerInv

(* An order that inventory takes, or does not reach it.                     *)
LEMMA SendSteps ==
  ASSUME LabTypeOK, RunnerInv, SendOrder \/ OrderUnreached
  PROVE  RunnerInv'
<1>0. runner \in Runner /\ runner.step \in Ordering /\ runner.step # "idle"
  BY DEF RunnerInv, WellFormed, SendOrder, OrderUnreached, Ordering
<1>1. /\ config \in FaultConfig /\ count + 1 \in Nat
  BY DEF LabTypeOK
<1>2. PICK order \in Observation :
        /\ runner' = [runner EXCEPT !.order = order]
        /\ \/ alone' = FALSE
           \/ alone' = alone /\ config' = config /\ order.under = config.mode
  <2>1. CASE SendOrder
    BY <1>1, <2>1, OrderMeets DEF SendOrder, NextRequest, Keep
  <2>2. CASE OrderUnreached
    <3>1. Unreached \in Observation
      BY DEF Unreached, Observation
    <3> QED
      BY <2>2, <3>1 DEF OrderUnreached
  <2> QED
    BY <2>1, <2>2
<1>3. /\ runner' \in Runner /\ runner'.step = runner.step
      /\ runner'.scenario = runner.scenario /\ runner'.order = order
      /\ runner'.orders = runner.orders /\ runner'.fault = runner.fault
      /\ runner'.metrics = runner.metrics /\ runner'.error = runner.error
  BY <1>0, <1>2 DEF Runner
<1>4. WellFormed(runner)'
  BY <1>0, <1>3 DEF RunnerInv, WellFormed, Rounds, Ordering
<1>5. Honest(runner)'
  BY <1>0, <1>3 DEF RunnerInv, Honest
<1>6. alone' => Undisturbed(runner)'
  BY <1>0, <1>2, <1>3, NoFaultIsFault DEF RunnerInv, Undisturbed, AllUnder, Ordering
<1> QED
  BY <1>4, <1>5, <1>6 DEF RunnerInv

(* An order that is answered, and with the last one the round.              *)
LEMMA ReceiveSteps ==
  ASSUME RunnerInv, ReceiveOrder
  PROVE  RunnerInv'
<1>0. /\ runner \in Runner /\ runner.step \in Ordering /\ runner.step # "idle"
      /\ runner.order \in Observation /\ runner.orders \in Seq(Observation)
      /\ alone' = alone /\ config' = config
  BY DEF RunnerInv, WellFormed, ReceiveOrder, Ordering, Runner, Keep, AnswerOrder
<1>1. PICK q : q = Append(runner.orders, runner.order)
  OBVIOUS
<1>2. q \in Seq(Observation) /\ Len(q) = Len(runner.orders) + 1 /\ Len(runner.orders) \in Nat
  BY <1>0, <1>1, OneMore
<1>3. \A mode : AllUnder(runner.orders, mode) /\ runner.order.under = mode => AllUnder(q, mode)
  BY <1>0, <1>1, AllUnderMore
<1>4. runner' = Collected(q)
  BY <1>1 DEF ReceiveOrder
<1>5. /\ Wanted(runner.step) = Rounds(runner) /\ Len(runner.orders) < Rounds(runner)
      /\ Rounds(runner) \in Nat
  <2>1. runner.scenario.count \in 1..100
    BY <1>0, ScenarioFacts DEF RunnerInv
  <2>2. Wanted(runner.step) = Rounds(runner) /\ Rounds(runner) \in Nat
    <3>1. Wanted(runner.step) = Rounds(runner)
      BY DEF Rounds, Wanted
    <3>2. runner.step \in {"baseline", "fault", "recovery"}
      BY <1>0 DEF Ordering
    <3>3. Rounds(runner) \in Nat
      BY <2>1, <3>2 DEF Rounds
    <3> QED
      BY <3>1, <3>3
  <2> QED
    BY <1>0, <2>2 DEF RunnerInv, WellFormed
<1>6. ~(Len(q) < Wanted(runner.step)) => Len(q) = Rounds(runner)
  BY <1>2, <1>5
<1>7. runner.fault \in Seq(Observation) /\ Len(<<>>) = 0
  BY <1>0 DEF Runner
<1>8. CASE Len(q) < Wanted(runner.step)
  <2>1. /\ runner' \in Runner /\ runner'.step = runner.step
        /\ runner'.scenario = runner.scenario /\ runner'.order = None
        /\ runner'.orders = q /\ runner'.fault = runner.fault
        /\ runner'.metrics = runner.metrics /\ runner'.error = runner.error
    BY <1>0, <1>2, <1>4, <1>8, CollectedFields
  <2>2. WellFormed(runner)'
    BY <1>0, <1>5, <1>8, <2>1 DEF RunnerInv, WellFormed, Rounds, Ordering
  <2>3. Honest(runner)'
    BY <1>0, <2>1 DEF RunnerInv, Honest
  <2>4. alone' => Undisturbed(runner)'
    BY <1>0, <1>3, <2>1 DEF RunnerInv, Undisturbed, Ordering, ReceiveOrder
  <2> QED
    BY <2>2, <2>3, <2>4 DEF RunnerInv
<1>9. CASE ~(Len(q) < Wanted(runner.step))
  <2>1. /\ runner' \in Runner
        /\ runner'.scenario = runner.scenario /\ runner'.order = None
        /\ runner'.metrics = runner.metrics
        /\ \/ /\ runner.step = "baseline" /\ runner'.orders = <<>> /\ runner'.fault = runner.fault
              /\ \/ runner'.step = "series" /\ runner'.error = runner.error
                 \/ runner'.step = "cleanup" /\ runner'.error = TRUE
           \/ /\ runner.step = "fault" /\ runner'.step = "pollFault" /\ runner'.orders = <<>>
              /\ runner'.fault = q /\ runner'.error = runner.error
           \/ /\ runner.step = "recovery" /\ runner'.step = "evaluate" /\ runner'.orders = q
              /\ runner'.fault = runner.fault /\ runner'.error = runner.error
    BY <1>0, <1>2, <1>4, <1>9, CollectedFields
  <2>2. WellFormed(runner)'
    BY <1>0, <1>6, <1>9, <2>1 DEF RunnerInv, WellFormed, Rounds, Ordering
  <2>3. Honest(runner)'
    BY <1>0, <2>1 DEF RunnerInv, Honest, Ordering, Early, Late
  <2>4. alone' => Undisturbed(runner)'
    <3>1. runner.order # None
      BY DEF ReceiveOrder
    <3> QED
      BY <1>0, <1>3, <2>1, <3>1 DEF RunnerInv, Undisturbed, Honest, Late
  <2> QED
    BY <2>2, <2>3, <2>4 DEF RunnerInv
<1> QED
  BY <1>8, <1>9

(* What the runner asks Prometheus.                                         *)
LEMMA PollSteps ==
  ASSUME LabTypeOK, RunnerInv, SeriesThere \/ NoSeriesInTime \/ QueryBaseline \/ QueryFault \/ QuerySignal
  PROVE  RunnerInv'
<1>0. /\ runner \in Runner /\ runner.step \in Polling /\ runner.step # "idle"
      /\ alone' = alone /\ config' = config
  BY DEF RunnerInv, WellFormed, SeriesThere, NoSeriesInTime, QueryBaseline, QueryFault, QuerySignal,
         Keep, Polling, lab
<1>1. Signal \in Nat
  BY DEF LabTypeOK, Signal
<1>2. /\ runner' \in Runner
      /\ runner'.scenario = runner.scenario /\ runner'.order = runner.order
      /\ runner'.orders = runner.orders /\ runner'.fault = runner.fault
      /\ \/ /\ runner'.error = runner.error /\ runner'.metrics = runner.metrics
            /\ \/ runner.step = "series" /\ runner'.step = "before"
               \/ runner.step = "before" /\ runner'.step = "inject"
               \/ runner.step = "pollFault" /\ runner'.step = "pollSignal"
               \/ runner.step = "pollSignal" /\ runner'.step = "pollFault"
         \/ runner.step = "series" /\ runner'.step = "cleanup" /\ runner'.error = TRUE
         \/ /\ runner.step = "pollSignal" /\ runner'.step = "cleanup"
            /\ runner'.error = runner.error /\ runner'.metrics # None
  <2>1. CASE SeriesThere
    BY <1>0, <2>1, StepOnly DEF SeriesThere, Go, Polling
  <2>2. CASE NoSeriesInTime
    BY <1>0, <2>2 DEF NoSeriesInTime, Runner
  <2>3. CASE QueryBaseline
    BY <1>0, <1>1, <2>3 DEF QueryBaseline, Runner
  <2>4. CASE QueryFault
    BY <1>0, <2>4 DEF QueryFault, Runner, Polling
  <2>5. CASE QuerySignal
    <3>1. CASE Go("pollFault")
      BY <1>0, <2>5, <3>1, StepOnly DEF QuerySignal, Go, Polling
    <3>2. CASE ~Go("pollFault")
      <4>1. PICK m : m = [active |-> runner.active, delta |-> Signal - runner.before]
        OBVIOUS
      <4>2. m \in Metrics /\ m # None
        <5>1. m \in Metrics
          BY <1>0, <1>1, <4>1 DEF Metrics, Runner
        <5> QED
          BY <5>1, ScenarioAssumption
      <4>3. runner' = [runner EXCEPT !.step = "cleanup", !.metrics = m]
        BY <2>5, <3>2, <4>1 DEF QuerySignal
      <4>4. runner.step = "pollSignal"
        BY <2>5 DEF QuerySignal
      <4> QED
        BY <1>0, <4>2, <4>3, <4>4 DEF Runner
    <3> QED
      BY <3>1, <3>2
  <2> QED
    BY <2>1, <2>2, <2>3, <2>4, <2>5
<1>3. WellFormed(runner)'
  BY <1>0, <1>2 DEF RunnerInv, WellFormed, Ordering, Polling
<1>4. Honest(runner)'
  BY <1>0, <1>2 DEF RunnerInv, WellFormed, Honest, Ordering, Early, Late
<1>5. alone' => Undisturbed(runner)'
  BY <1>0, <1>2 DEF RunnerInv, Undisturbed
<1> QED
  BY <1>3, <1>4, <1>5 DEF RunnerInv

(* A runner that starts, or is idle.                                       *)
LEMMA IdleFields ==
  /\ Idle \in Runner /\ Idle.step = "idle" /\ Idle.order = None /\ Idle.orders = <<>>
  /\ Idle.fault = <<>> /\ Idle.error = FALSE
<1>1. PICK q \in Seq(Observation) : q = <<>>
  BY NoOrders
<1>2. Idle = [step |-> "idle", scenario |-> None, order |-> None, orders |-> q, fault |-> q,
              before |-> 0, active |-> FALSE, metrics |-> None, error |-> FALSE]
  BY <1>1 DEF Idle
<1> QED
  BY <1>1, <1>2 DEF Runner

(* A run that begins, or ends.                                              *)
LEMMA StartSteps ==
  ASSUME \/ runner' = Idle
         \/ \E s \in Scenario : runner' = [Idle EXCEPT !.step = "reset", !.scenario = s]
  PROVE  RunnerInv'
<1>1. /\ runner' \in Runner /\ runner'.step \in {"idle", "reset"}
      /\ runner'.step = "reset" => runner'.scenario \in Scenario
      /\ runner'.order = None /\ runner'.orders = <<>> /\ runner'.fault = <<>> /\ runner'.error = FALSE
  <2>1. CASE runner' = Idle
    BY <2>1, IdleFields
  <2>2. ASSUME NEW s \in Scenario, runner' = [Idle EXCEPT !.step = "reset", !.scenario = s]
        PROVE  /\ runner' \in Runner /\ runner'.step = "reset" /\ runner'.scenario = s
               /\ runner'.order = None /\ runner'.orders = <<>> /\ runner'.fault = <<>>
               /\ runner'.error = FALSE
    <3>1. PICK w \in Runner : w = Idle
      BY IdleFields
    <3>2. runner' = [w EXCEPT !.step = "reset", !.scenario = s]
      BY <2>2, <3>1
    <3> QED
      BY <3>1, <3>2, IdleFields DEF Runner
  <2> QED
    BY <2>1, <2>2
<1>2. WellFormed(runner)'
  BY <1>1 DEF WellFormed, Ordering
<1>3. Honest(runner)'
  BY <1>1 DEF Honest, Ordering, Early, Late
<1>4. Undisturbed(runner)'
  BY <1>1, NoOrders DEF Undisturbed
<1> QED
  BY <1>2, <1>3, <1>4 DEF RunnerInv


(* A request that raises.                                                  *)
LEMMA RaisedSteps ==
  ASSUME RunnerInv, RequestFails \/ AnswerLost
  PROVE  RunnerInv'
<1>1. runner.step # "idle" /\ runner' = Raised /\ alone' = alone
  BY DEF RequestFails, AnswerLost, Ordering
<1> QED
  BY <1>1, RaisedIsSound DEF RunnerInv

-----------------------------------------------------------------------------
(* What a step leaves of the lab, of the counters and of the last result.  *)
Counters == alone \in BOOLEAN /\ runs \in 0..MaxRuns /\ faults \in 0..MaxFaults

(* Every step leaves the services typed.                                    *)
LEMMA LabTyped ==
  ASSUME LabTypeOK, RunnerInv, [Next]_vars
  PROVE  LabTypeOK'
<1>1. NoFault \in FaultConfig
  BY NoFaultIsFault
<1>2. others \in 0..MaxOthers
  BY DEF LabTypeOK
<1>3. ASSUME \E s \in Scenario : Start(s) PROVE LabTypeOK'
  BY <1>3, LabStays DEF Start
<1>4. ASSUME runner.step # "idle" PROVE runner.scenario.fault \in FaultConfig
  BY <1>4, ScenarioFacts DEF RunnerInv
<1>5. ASSUME runner.order # None PROVE runner.order \in Observation
  BY <1>5 DEF RunnerInv, WellFormed, Runner
<1>6. CASE Post
  <2>1. scraped' = scraped /\ others' \in 0..MaxOthers
    BY <1>2, <1>6 DEF Post, Keep
  <2>2. Configure(NoFault) \/ (runner.step # "idle" /\ Configure(runner.scenario.fault))
    BY <1>6 DEF Post
  <2> QED
    BY <1>1, <1>4, <2>1, <2>2, LabConfigured
<1>7. CASE SendOrder
  BY <1>7 DEF SendOrder, NextRequest, Keep, LabTypeOK
<1>8. CASE ReceiveOrder
  <2>1. scraped' = scraped /\ others' \in 0..MaxOthers /\ runner.order # None /\ AnswerOrder(runner.order)
    BY <1>2, <1>8 DEF ReceiveOrder, Keep
  <2> QED
    BY <1>5, <2>1, LabAnswered
<1>9. CASE SeriesThere \/ NoSeriesInTime \/ QueryBaseline \/ QueryFault \/ QuerySignal
  BY <1>9, LabStays DEF SeriesThere, NoSeriesInTime, QueryBaseline, QueryFault, QuerySignal, Keep
<1>10. CASE AnswerLost
  <2>1. scraped' = scraped /\ others' \in 0..MaxOthers
    BY <1>2, <1>10 DEF AnswerLost
  <2>2. \/ Configure(NoFault)
        \/ runner.step # "idle" /\ Configure(runner.scenario.fault)
        \/ runner.order # None /\ AnswerOrder(runner.order)
    BY <1>10 DEF AnswerLost
  <2> QED
    BY <1>1, <1>4, <1>5, <2>1, <2>2, LabConfigured, LabAnswered
<1>11. CASE RequestFails \/ OrderUnreached \/ Killed \/ WriteResult \/ UNCHANGED vars
  BY <1>11, LabStays DEF RequestFails, OrderUnreached, Killed, WriteResult, vars
<1>12. CASE Scrape \/ OthersAct
  BY <1>12, LabOthers
<1> QED
  BY <1>3, <1>6, <1>7, <1>8, <1>9, <1>10, <1>11, <1>12 DEF Next

(* Every step leaves the runner as it should be.                            *)
LEMMA RunnerSteps ==
  ASSUME LabTypeOK, RunnerInv, [Next]_vars
  PROVE  RunnerInv'
<1>1. CASE \E s \in Scenario : Start(s)
  BY <1>1, StartSteps DEF Start
<1>2. CASE Killed \/ WriteResult
  BY <1>2, StartSteps DEF Killed, WriteResult
<1>3. CASE Scrape \/ OthersAct
  BY <1>3, LabOthers, RunnerStays
<1>4. CASE UNCHANGED vars
  BY <1>4, RunnerStays DEF vars, lab
<1> QED
  BY <1>1, <1>2, <1>3, <1>4, PostSteps, SendSteps, ReceiveSteps, PollSteps, RaisedSteps DEF Next

(* Every step keeps the bounds of the model.                                *)
LEMMA CountersStay ==
  ASSUME LabTypeOK, Counters, [Next]_vars
  PROVE  Counters'
<1>1. Fault => faults' \in 0..MaxFaults
  BY ScenarioAssumption DEF Fault, Counters
<1>2. CASE \E s \in Scenario : Start(s)
  BY <1>2, ScenarioAssumption DEF Start, Counters
<1>3. CASE Post \/ SendOrder \/ ReceiveOrder \/ SeriesThere \/ NoSeriesInTime
           \/ QueryBaseline \/ QueryFault \/ QuerySignal
  BY <1>3 DEF Post, SendOrder, ReceiveOrder, SeriesThere, NoSeriesInTime, QueryBaseline, QueryFault,
              QuerySignal, Keep, Counters
<1>4. CASE RequestFails \/ AnswerLost \/ OrderUnreached \/ Killed
  BY <1>1, <1>4 DEF RequestFails, AnswerLost, OrderUnreached, Killed, Counters
<1>5. CASE WriteResult \/ UNCHANGED vars
  BY <1>5 DEF WriteResult, vars, Counters
<1>6. CASE Scrape \/ OthersAct
  BY <1>6, LabOthers DEF Counters
<1> QED
  BY <1>2, <1>3, <1>4, <1>5, <1>6 DEF Next

(* A result is judged by what the runner has then: the fault orders and    *)
(* the metrics of a run without error are there, the recovery is complete, *)
(* and what the orders met is known if nobody disturbed the run.           *)
LEMMA WrittenIsTruthful ==
  ASSUME RunnerInv, Counters, WriteResult
  PROVE  ResultTruthful'
<1>1. PICK p \in BOOLEAN : p = Passed
  BY DEF Passed
<1>2. p => Evaluation /\ ~runner.error
  BY <1>1 DEF Passed
<1>3. PICK r : /\ r = result'
               /\ r.scenario = runner.scenario /\ r.fault = runner.fault /\ r.recovery = runner.orders
               /\ r.metrics = runner.metrics /\ r.error = runner.error /\ r.passed = p
               /\ r.alone = alone /\ r.left = config.mode
  <2>1. result' = [scenario |-> runner.scenario, fault |-> runner.fault, recovery |-> runner.orders,
                   metrics |-> runner.metrics, error |-> runner.error, passed |-> p,
                   alone |-> alone, left |-> config.mode]
    BY <1>1 DEF WriteResult
  <2> QED
    BY <2>1
<1>4. ~runner.error => /\ runner.metrics # None
                       /\ Len(runner.fault) = runner.scenario.count /\ Len(runner.orders) = 3
  BY DEF WriteResult, RunnerInv, WellFormed, Honest, Late
<1>5. Evaluation => runner.metrics = None \/ runner.metrics.active
  BY DEF Evaluation, MetricsMatch
<1>6. alone /\ ~runner.error =>
        /\ config.mode = "none"
        /\ AllUnder(runner.orders, "none")
        /\ AllUnder(runner.fault, runner.scenario.fault.mode)
  BY NoFaultIsFault DEF WriteResult, RunnerInv, Undisturbed
<1>7. r.passed => /\ ~r.error
                  /\ Len(r.fault) = r.scenario.count /\ Len(r.recovery) = 3
                  /\ r.metrics # None /\ r.metrics.active
                  /\ r.alone =>
                       /\ \A i \in 1..Len(r.fault) : r.fault[i].under = r.scenario.fault.mode
                       /\ \A i \in 1..Len(r.recovery) : r.recovery[i].under = "none"
  BY <1>2, <1>3, <1>4, <1>5, <1>6 DEF AllUnder
<1>8. ~r.error /\ r.alone => r.left = "none"
  BY <1>3, <1>6
<1> QED
  BY <1>3, <1>7, <1>8 DEF ResultTruthful

(* No step but the writing of a result makes one.                           *)
LEMMA ResultSteps ==
  ASSUME LabTypeOK, RunnerInv, Counters, ResultTruthful, [Next]_vars
  PROVE  ResultTruthful'
<1>1. CASE WriteResult
  BY <1>1, WrittenIsTruthful
<1>2. CASE \E s \in Scenario : Start(s)
  BY <1>2 DEF Start, ResultTruthful
<1>3. CASE result' = result
  BY <1>3 DEF ResultTruthful
<1>4. Scrape \/ OthersAct => result' = result
  BY LabOthers
<1>5. Post \/ SendOrder \/ ReceiveOrder \/ SeriesThere \/ NoSeriesInTime \/ QueryBaseline
      \/ QueryFault \/ QuerySignal => result' = result
  BY DEF Post, SendOrder, ReceiveOrder, SeriesThere, NoSeriesInTime, QueryBaseline, QueryFault,
         QuerySignal, Keep
<1>6. RequestFails \/ AnswerLost \/ OrderUnreached \/ Killed \/ UNCHANGED vars => result' = result
  BY DEF RequestFails, AnswerLost, OrderUnreached, Killed, vars
<1> QED
  BY <1>1, <1>2, <1>3, <1>4, <1>5, <1>6 DEF Next

-----------------------------------------------------------------------------
(* The invariant holds before the first run.                                *)
LEMMA Begins == Init => IInv
<1> SUFFICES ASSUME Init PROVE IInv
  OBVIOUS
<1>1. RunnerInv
  <2>1. /\ runner \in Runner /\ runner.step = "idle" /\ runner.order = None
        /\ runner.orders = <<>> /\ runner.fault = <<>> /\ runner.error = FALSE
    BY IdleFields DEF Init
  <2> QED
    BY <2>1 DEF RunnerInv, WellFormed, Honest, Undisturbed, AllUnder, Ordering, Early, Late
<1>2. LabTypeOK
  BY NoFaultIsFault, LabAssumption DEF Init, LabInit, LabTypeOK
<1>3. Counters /\ ResultTruthful
  BY ScenarioAssumption DEF Init, Counters, ResultTruthful
<1> QED
  BY <1>1, <1>2, <1>3, TypeParts DEF RunnerInv, Counters, IInv

(* The invariant that carries the result: nothing left over between the    *)
(* stages of a run, and while nobody disturbs it the lab under the fault   *)
(* that the runner set last.                                               *)
THEOREM ScenarioInductive == Spec => []IInv
<1>1. IInv /\ [Next]_vars => IInv'
  <2> SUFFICES ASSUME IInv, [Next]_vars PROVE IInv'
    OBVIOUS
  <2>1. LabTypeOK /\ RunnerInv /\ Counters /\ ResultTruthful
    BY TypeParts DEF IInv, RunnerInv, Counters
  <2>2. LabTypeOK' /\ RunnerInv' /\ Counters' /\ ResultTruthful'
    BY <2>1, LabTyped, RunnerSteps, CountersStay, ResultSteps
  <2>3. TypeOK'
    BY <2>2 DEF RunnerInv, Counters, TypeOK, WellFormed, Rounds, Wanted, Ordering
  <2> QED
    BY <2>2, <2>3 DEF IInv, RunnerInv
<1> QED
  BY <1>1, Begins, PTL DEF Spec

(* The runner's rounds are never longer than asked for and complete where  *)
(* evaluate_observations relies on it, whatever raises in between.         *)
THEOREM ScenarioTyping == Spec => []TypeOK
<1>1. IInv => TypeOK
  BY DEF IInv
<1> QED
  BY <1>1, ScenarioInductive, PTL

(* A written result says what happened in the run: a pass saw the fault in *)
(* Prometheus and, undisturbed, met it with every fault order and with no  *)
(* recovery order; a result without error leaves the lab without fault.    *)
THEOREM ResultsAreTruthful == Spec => []ResultTruthful
<1>1. IInv => ResultTruthful
  BY DEF IInv
<1> QED
  BY <1>1, ScenarioInductive, PTL
===============================================================================
