--------------------------- MODULE OutboxDispatch ----------------------------
(***************************************************************************)
(* From an accepted incident to a queued investigation: the relay          *)
(* processes that move outbox events to the broker (relay.py), the broker  *)
(* topic, and the consumer processes that apply them (consumer.py), around *)
(* the tables of IncidentStore.                                            *)
(*                                                                         *)
(* The broker is known only by how the code uses it: an accepted message   *)
(* has an id of its own, is delivered in any order, and is delivered again *)
(* until it is acknowledged (at least once).                               *)
(*                                                                         *)
(* Everything that may go wrong takes one of MaxFaults faults: a publish   *)
(* that fails or whose answer is lost, a failed transaction, a process     *)
(* that stops, a lease that runs out under a relay still working on the    *)
(* event.  A transaction that commits but whose answer is lost is the      *)
(* committed step followed by a stop of the process.                       *)
(***************************************************************************)
EXTENDS IncidentStore

CONSTANTS
  Consumer,      \* consumer processes of the one consumer group
  ReceiveLimit,  \* the most messages one receive() returns
  MaxFaults      \* how many faults a behaviour may contain

Message == Incident \X (Nat \ {0})

ASSUME DispatchAssumption ==
  /\ IsFiniteSet(Relay)
  /\ None \notin Message
  /\ ReceiveLimit \in Nat \ {0}
  /\ MaxFaults \in Nat

VARIABLES
  relay,     \* per relay: where its loop is, and the batch it holds
  copies,    \* per event: how many messages the broker has accepted
  queue,     \* the messages accepted and not yet acknowledged
  consumer,  \* per consumer: the messages received, and the one to acknowledge
  faults     \* faults so far

processVars == <<relay, copies, queue, consumer>>
vars == <<storeVars, processVars, faults>>

(* step: "start" - publisher is None; "poll" - about to claim; "publish" - *)
(* in the for loop; "mark" - published, about to mark; "failed" - in the   *)
(* except branch.  receipt is the broker's message id for event.           *)
RelayState ==
  [step : {"start", "poll", "publish", "mark", "failed"},
   batch : SUBSET Incident, event : Incident \cup {None}, receipt : Nat]
ConsumerState == [inbox : SUBSET Message, acking : Message \cup {None}]

Stopped == [step |-> "start", batch |-> {}, event |-> None, receipt |-> 0]
Disconnected == [inbox |-> {}, acking |-> None]

(* Every variable has the shape the tables and loops give it; a relay has  *)
(* an event in hand exactly while it is marking it.                        *)
TypeOK ==
  /\ StoreTypeOK
  /\ relay \in [Relay -> RelayState]
  /\ \A w \in Relay : relay[w].event # None <=> relay[w].step \in {"mark", "failed"}
  /\ copies \in [Incident -> Nat]
  /\ queue \subseteq Message
  /\ consumer \in [Consumer -> ConsumerState]
  /\ faults \in 0..MaxFaults

Init ==
  /\ StoreInit
  /\ relay = [w \in Relay |-> Stopped]
  /\ copies = [i \in Incident |-> 0]
  /\ queue = {}
  /\ consumer = [c \in Consumer |-> Disconnected]
  /\ faults = 0

Fault == faults < MaxFaults /\ faults' = faults + 1

-----------------------------------------------------------------------------
(* Mutated operations, as in IncidentStore.                                *)

(* The relay tries the event again within the batch it has.                *)
PublishRetriesInPlace(w, i) ==
  /\ Fault
  /\ relay[w].step = "publish"
  /\ i \in relay[w].batch
  /\ copies' = [copies EXCEPT ![i] = @ + 1]
  /\ queue' = queue \cup {<<i, copies[i] + 1>>}
  /\ UNCHANGED <<storeVars, relay, consumer>>

(* Messages are acknowledged as they are received.                         *)
ReceiveAutoAck(c, S) ==
  /\ consumer[c] = Disconnected
  /\ S \subseteq queue
  /\ S # {}
  /\ Cardinality(S) <= ReceiveLimit
  /\ consumer' = [consumer EXCEPT ![c].inbox = S]
  /\ queue' = queue \ S
  /\ UNCHANGED <<storeVars, relay, copies, faults>>

-----------------------------------------------------------------------------
(* The API accepts an incident.                                            *)
Create(i, k, b) ==
  /\ CreateTx(i, k, b)
  /\ UNCHANGED <<processVars, faults>>

-----------------------------------------------------------------------------
(* The relay loop.                                                         *)
StartPublisher(w) ==
  /\ relay[w].step = "start"
  /\ relay' = [relay EXCEPT ![w].step = "poll"]
  /\ UNCHANGED <<storeVars, copies, queue, consumer, faults>>

Claim(w, S) ==
  /\ relay[w].step = "poll"
  /\ ClaimTx(w, S)
  /\ relay' = [relay EXCEPT ![w] =
       [step |-> "publish", batch |-> S, event |-> None, receipt |-> 0]]
  /\ UNCHANGED <<copies, queue, consumer, faults>>

(* The broker takes the message of event i under a fresh id.               *)
Accept(i) ==
  /\ copies' = [copies EXCEPT ![i] = @ + 1]
  /\ queue' = queue \cup {<<i, copies[i] + 1>>}

Publish(w, i) ==
  /\ relay[w].step = "publish"
  /\ i \in relay[w].batch
  /\ Accept(i)
  /\ relay' = [relay EXCEPT ![w] =
       [step |-> "mark", batch |-> relay[w].batch \ {i},
        event |-> i, receipt |-> copies[i] + 1]]
  /\ UNCHANGED <<storeVars, consumer, faults>>

(* publish raises: the broker never had the message, or its answer is lost. *)
PublishFails(w, i) ==
  /\ Fault
  /\ relay[w].step = "publish"
  /\ i \in relay[w].batch
  /\ Accept(i) \/ UNCHANGED <<copies, queue>>
  /\ relay' = [relay EXCEPT ![w] =
       [step |-> "failed", batch |-> relay[w].batch \ {i}, event |-> i, receipt |-> 0]]
  /\ UNCHANGED <<storeVars, consumer>>

AfterMark(w) ==
  [step |-> IF relay[w].batch = {} THEN "poll" ELSE "publish",
   batch |-> relay[w].batch, event |-> None, receipt |-> 0]

(* mark_published updates the row if the relay still has its lease, and    *)
(* raises otherwise.                                                       *)
MarkPublished(w) ==
  /\ relay[w].step = "mark"
  /\ \/ /\ MarkPublishedTx(w, relay[w].event, relay[w].receipt)
        /\ relay' = [relay EXCEPT ![w] = AfterMark(w)]
     \/ /\ ~HoldsLease(w, relay[w].event)
        /\ relay' = [relay EXCEPT ![w].step = "failed"]
        /\ UNCHANGED storeVars
  /\ UNCHANGED <<copies, queue, consumer, faults>>

MarkPublishedErrs(w) ==
  /\ Fault
  /\ relay[w].step = "mark"
  /\ relay' = [relay EXCEPT ![w].step = "failed"]
  /\ UNCHANGED <<storeVars, copies, queue, consumer>>

(* The except branch: mark_failed, close the publisher, leave the rest of  *)
(* the batch to its lease.                                                 *)
MarkFailed(w) ==
  /\ relay[w].step = "failed"
  /\ MarkFailedTx(w, relay[w].event)
  /\ relay' = [relay EXCEPT ![w] = Stopped]
  /\ UNCHANGED <<copies, queue, consumer, faults>>

(* The process stops, or an exception reaches the outer except: the loop   *)
(* starts again with no publisher and no batch.  The container restarts a  *)
(* stopped process; its new worker id holds nothing, like the old one here. *)
RelayStops(w) ==
  /\ Fault
  /\ relay[w].step # "start"
  /\ relay' = [relay EXCEPT ![w] = Stopped]
  /\ UNCHANGED <<storeVars, copies, queue, consumer>>

-----------------------------------------------------------------------------
(* The consumer loop.                                                      *)
Receive(c, S) ==
  /\ consumer[c] = Disconnected
  /\ S \subseteq queue
  /\ S # {}
  /\ Cardinality(S) <= ReceiveLimit
  /\ consumer' = [consumer EXCEPT ![c].inbox = S]
  /\ UNCHANGED <<storeVars, relay, copies, queue, faults>>

Consume(c, m) ==
  /\ consumer[c].acking = None
  /\ m \in consumer[c].inbox
  /\ ConsumeTx(m[1])
  /\ consumer' = [consumer EXCEPT ![c] = [inbox |-> @.inbox \ {m}, acking |-> m]]
  /\ UNCHANGED <<relay, copies, queue, faults>>

Ack(c) ==
  /\ consumer[c].acking # None
  /\ queue' = queue \ {consumer[c].acking}
  /\ consumer' = [consumer EXCEPT ![c].acking = None]
  /\ UNCHANGED <<storeVars, relay, copies, faults>>

(* Any exception, or the process stops: the rest of the receive is left to *)
(* be delivered again.                                                     *)
ConsumerStops(c) ==
  /\ Fault
  /\ consumer[c] # Disconnected
  /\ consumer' = [consumer EXCEPT ![c] = Disconnected]
  /\ UNCHANGED <<storeVars, relay, copies, queue>>

-----------------------------------------------------------------------------
(* Time.                                                                   *)
RetryDue(i) ==
  /\ RetryBecomesDue(i)
  /\ UNCHANGED <<processVars, faults>>

(* The lease of an event nobody works on any more runs out for free; under *)
(* a relay that is still at it (a slow publish, clocks apart) it is a fault. *)
InHand(w, i) == i \in relay[w].batch \/ relay[w].event = i

LeaseExpires(i) ==
  /\ LeaseRunsOut(i)
  /\ IF \E w \in Relay : InHand(w, i) /\ HoldsLease(w, i)
     THEN Fault
     ELSE UNCHANGED faults
  /\ UNCHANGED processVars

-----------------------------------------------------------------------------
RelayStep(w) ==
  \/ StartPublisher(w)
  \/ \E S \in SUBSET Incident : Claim(w, S)
  \/ \E i \in Incident : Publish(w, i) \/ PublishFails(w, i)
  \/ MarkPublished(w)
  \/ MarkPublishedErrs(w)
  \/ MarkFailed(w)
  \/ RelayStops(w)

ConsumerStep(c) ==
  \/ \E S \in SUBSET queue : Receive(c, S)
  \/ \E m \in consumer[c].inbox : Consume(c, m)
  \/ Ack(c)
  \/ ConsumerStops(c)

Next ==
  \/ \E i \in Incident, k \in Key, b \in Body : Create(i, k, b)
  \/ \E w \in Relay : RelayStep(w)
  \/ \E c \in Consumer : ConsumerStep(c)
  \/ \E i \in Incident : RetryDue(i) \/ LeaseExpires(i)

(* Each process is a while True loop in a container restarted unless       *)
(* stopped, and clocks advance.  Nobody is obliged to create an incident.  *)
Fairness ==
  /\ \A w \in Relay : WF_vars(RelayStep(w))
  /\ \A c \in Consumer : WF_vars(ConsumerStep(c))
  /\ \A i \in Incident : WF_vars(RetryDue(i)) /\ WF_vars(LeaseExpires(i))

Safety == Init /\ [][Next]_vars
Spec == Safety /\ Fairness

-----------------------------------------------------------------------------
Agrees(i) ==
  \/ /\ incidents[i] = NoIncident
     /\ trail[i] = <<>> /\ outbox[i] = NoEvent /\ i \notin processed
  \/ /\ incidents[i].status = "RECEIVED" /\ incidents[i].version = 1
     /\ trail[i] = <<"RECEIVED">>
     /\ outbox[i].status # "ABSENT" /\ i \notin processed
  \/ /\ incidents[i].status = "INVESTIGATION_QUEUED" /\ incidents[i].version = 2
     /\ trail[i] = <<"RECEIVED", "INVESTIGATION_QUEUED">>
     /\ outbox[i].status # "ABSENT" /\ i \in processed

(* An incident's status, version, audit trail and outbox row agree, and it *)
(* has left RECEIVED exactly when its event is recorded as processed: no   *)
(* interleaving of duplicates, crashes and redeliveries queues it twice or *)
(* records the event without the effect.                                   *)
AuditTrailAgrees == \A i \in Incident : Agrees(i)

(* A published event is never lost: the very message its row names is      *)
(* still held by the broker, or the incident has been queued.              *)
NoLostInvestigation ==
  \A i \in Incident : outbox[i].status = "PUBLISHED" =>
    \/ <<i, outbox[i].message>> \in queue
    \/ i \in processed

(* The inductive invariant behind NoLostInvestigation: an accepted message *)
(* leaves the broker only once its event is processed, and the ids held by *)
(* relays and rows are ids of accepted messages.                           *)
BrokerInv ==
  /\ \A i \in Incident : \A n \in 1..copies[i] : <<i, n>> \in queue \/ i \in processed
  /\ \A c \in Consumer : consumer[c].acking # None => consumer[c].acking[1] \in processed
  /\ \A w \in Relay : relay[w].step = "mark" => relay[w].receipt \in 1..copies[relay[w].event]
  /\ \A i \in Incident : outbox[i].status = "PUBLISHED" => outbox[i].message \in 1..copies[i]

IInv == TypeOK /\ AuditTrailAgrees /\ BrokerInv

(* The attempts column bounds the messages the broker may ever see for an  *)
(* event: a relay sends an event at most once for each time it claimed it, *)
(* whatever fails in between.                                              *)
DuplicatesCountedAsAttempts ==
  \A i \in Incident : copies[i] <= outbox[i].attempts

(* What makes that inductive: a claim not yet used up counts as well.      *)
Holders(i) == {w \in Relay : i \in relay[w].batch}
ClaimsCounted ==
  \A i \in Incident : copies[i] + Cardinality(Holders(i)) <= outbox[i].attempts

SettledByHolder ==
  \A i \in Incident : outbox[i].status = "SENDING" /\ outbox'[i].status # "SENDING" =>
    /\ outbox[i].lockedBy \in Relay
    /\ relay[outbox[i].lockedBy].event = i
    /\ relay[outbox[i].lockedBy].step \in {"mark", "failed"}

(* A lease is respected: a row leaves SENDING only by the hand of the      *)
(* relay that locked it and is working on that event, never by one whose   *)
(* lease was taken over.                                                   *)
OnlyHolderSettles == [][SettledByHolder]_vars

StaysPublished ==
  \A i \in Incident :
    /\ outbox'[i].status = "PUBLISHED" => outbox'[i].message \in 1..copies[i]
    /\ outbox[i].status = "PUBLISHED" => outbox'[i] = outbox[i]

(* A row is marked published only with the id of a message that the broker *)
(* accepted for that event, and then keeps it: a late failure report of a  *)
(* relay that lost its lease cannot reopen the event.                      *)
PublishedIsFinal == [][StaysPublished]_vars

(* The path implements what it promises: see InvestigationQueue.           *)
Promise == INSTANCE InvestigationQueue WITH
  stage <- [i \in Incident |-> incidents[i].status],
  entries <- [i \in Incident |-> Len(trail[i])],
  settled <- {i \in Incident : outbox[i].status = "PUBLISHED"}

(* Every step of the path is a step of the promise, or none.               *)
KeepsPromise == Promise!Safety
(* Under the fairness of the processes, so does the promise's liveness:    *)
(* every accepted incident is queued and its event published, however      *)
(* relays and consumers fail and restart in between.                       *)
FulfilsPromise == Promise!Spec

(* The broker's backlog is always worked off: every message accepted,      *)
(* duplicates included, is eventually acknowledged.                        *)
BacklogDrains ==
  \A i \in Incident, n \in 1..(MaxFaults + 1) : <<i, n>> \in queue ~> <<i, n>> \notin queue
=============================================================================
