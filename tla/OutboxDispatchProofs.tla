------------------------ MODULE OutboxDispatchProofs -------------------------
(***************************************************************************)
(* Proofs about OutboxDispatch, for every number of incidents, relays,     *)
(* consumers and faults.                                                   *)
(***************************************************************************)
EXTENDS OutboxDispatch, FiniteSetTheorems, SequenceTheorems, TLAPS

(* The rows that the transactions write are rows of their tables.          *)
LEMMA QueuedRowType ==
  ASSUME NEW row \in IncidentRow
  PROVE  QueuedRow(row) \in IncidentRow
<1>1. row.version + 1 \in Nat
  BY DEF IncidentRow
<1>2. ASSUME NEW v \in Nat
      PROVE  [row EXCEPT !.status = "INVESTIGATION_QUEUED", !.version = v] \in IncidentRow
  BY DEF IncidentRow, IncidentStatus
<1> QED
  BY <1>1, <1>2 DEF QueuedRow

(* A claimed row is a row.                                                  *)
LEMMA ClaimedRowType ==
  ASSUME NEW row \in OutboxRow, NEW w \in Relay
  PROVE  [row EXCEPT !.status = "SENDING", !.lockedBy = w,
                     !.attempts = @ + 1, !.expired = FALSE] \in OutboxRow
<1>1. row.attempts + 1 \in Nat
  BY DEF OutboxRow
<1>2. ASSUME NEW n \in Nat
      PROVE  [row EXCEPT !.status = "SENDING", !.lockedBy = w,
                         !.attempts = n, !.expired = FALSE] \in OutboxRow
  BY DEF OutboxRow, OutboxStatus
<1> QED
  BY <1>1, <1>2

(* A published, a returned and a failed row are rows.                       *)
LEMMA SettledRowTypes ==
  ASSUME NEW row \in OutboxRow, NEW m \in Nat
  PROVE  /\ [row EXCEPT !.status = "PUBLISHED", !.lockedBy = None,
                        !.expired = FALSE, !.message = m] \in OutboxRow
         /\ [row EXCEPT !.status = "PENDING", !.lockedBy = None,
                        !.expired = FALSE, !.due = FALSE] \in OutboxRow
         /\ [row EXCEPT !.due = TRUE] \in OutboxRow
         /\ [row EXCEPT !.expired = TRUE] \in OutboxRow
  BY DEF OutboxRow, OutboxStatus

(* The transactions keep the shape of the tables.                          *)
LEMMA StoreTypes ==
  ASSUME StoreTypeOK
  PROVE  /\ \A i \in Incident, k \in Key, b \in Body : CreateTx(i, k, b) => StoreTypeOK'
         /\ \A w \in Relay, S \in SUBSET Incident : ClaimTx(w, S) => StoreTypeOK'
         /\ \A w \in Relay, i \in Incident, m \in Nat : MarkPublishedTx(w, i, m) => StoreTypeOK'
         /\ \A w \in Relay, i \in Incident : MarkFailedTx(w, i) => StoreTypeOK'
         /\ \A i \in Incident : ConsumeTx(i) => StoreTypeOK'
         /\ \A i \in Incident : RetryBecomesDue(i) \/ LeaseRunsOut(i) => StoreTypeOK'
         /\ UNCHANGED storeVars => StoreTypeOK'
<1>1. ASSUME NEW i \in Incident, NEW k \in Key, NEW b \in Body, CreateTx(i, k, b)
      PROVE  StoreTypeOK'
  <2>1. [status |-> "RECEIVED", version |-> 1, key |-> k, body |-> b] \in IncidentRow
    BY DEF IncidentRow, IncidentStatus
  <2>2. <<"RECEIVED">> \in Seq(IncidentStatus)
    BY DEF IncidentStatus
  <2>3. [NoEvent EXCEPT !.status = "PENDING", !.due = TRUE] \in OutboxRow
    BY DEF NoEvent, OutboxRow, OutboxStatus
  <2> QED
    BY <1>1, <2>1, <2>2, <2>3 DEF CreateTx, StoreTypeOK
<1>2. ASSUME NEW w \in Relay, NEW S \in SUBSET Incident, ClaimTx(w, S)
      PROVE  StoreTypeOK'
  BY <1>2, ClaimedRowType DEF ClaimTx, StoreTypeOK
<1>3. ASSUME NEW w \in Relay, NEW i \in Incident, NEW m \in Nat, MarkPublishedTx(w, i, m)
      PROVE  StoreTypeOK'
  BY <1>3, SettledRowTypes DEF MarkPublishedTx, StoreTypeOK
<1>4. ASSUME NEW w \in Relay, NEW i \in Incident, MarkFailedTx(w, i)
      PROVE  StoreTypeOK'
  BY <1>4, SettledRowTypes DEF MarkFailedTx, StoreTypeOK
<1>5. ASSUME NEW i \in Incident, ConsumeTx(i)
      PROVE  StoreTypeOK'
  <2>1. QueuedRow(incidents[i]) \in IncidentRow
    BY QueuedRowType DEF StoreTypeOK
  <2>2. Append(trail[i], "INVESTIGATION_QUEUED") \in Seq(IncidentStatus)
    BY DEF StoreTypeOK, IncidentStatus
  <2> QED
    BY <1>5, <2>1, <2>2 DEF ConsumeTx, StoreTypeOK, storeVars
<1>6. ASSUME NEW i \in Incident, RetryBecomesDue(i) \/ LeaseRunsOut(i)
      PROVE  StoreTypeOK'
  <2>1. /\ [outbox[i] EXCEPT !.due = TRUE] \in OutboxRow
        /\ [outbox[i] EXCEPT !.expired = TRUE] \in OutboxRow
    BY SettledRowTypes DEF StoreTypeOK
  <2> QED
    BY <1>6, <2>1 DEF RetryBecomesDue, LeaseRunsOut, StoreTypeOK
<1>7. UNCHANGED storeVars => StoreTypeOK'
  BY DEF storeVars, StoreTypeOK
<1> QED
  BY <1>1, <1>2, <1>3, <1>4, <1>5, <1>6, <1>7

-----------------------------------------------------------------------------
(* Every state has the shape TypeOK says: proved first, the invariants     *)
(* below rest on it.                                                       *)
THEOREM Typing == Safety => []TypeOK
<1> USE StoreAssumption, DispatchAssumption DEF TypeOK, RelayState, ConsumerState, Message, Stopped, Disconnected
<1>1. Init => TypeOK
  <2> SUFFICES ASSUME Init PROVE TypeOK
    OBVIOUS
  <2>1. StoreTypeOK
    <3>1. <<>> \in Seq(IncidentStatus)
      OBVIOUS
    <3> QED
      BY <3>1 DEF Init, StoreInit, StoreTypeOK, NoIncident, NoEvent, IncidentRow, OutboxRow
  <2> QED
    BY <2>1 DEF Init
<1>2. TypeOK /\ [Next]_vars => TypeOK'
  <2> SUFFICES ASSUME TypeOK, [Next]_vars PROVE TypeOK'
    OBVIOUS
  <2>1. ASSUME NEW i \in Incident, NEW k \in Key, NEW b \in Body, Create(i, k, b)
        PROVE  TypeOK'
    BY <2>1, StoreTypes DEF Create, processVars
  <2>2. ASSUME NEW w \in Relay, StartPublisher(w)
        PROVE  TypeOK'
    BY <2>2, StoreTypes DEF StartPublisher
  <2>3. ASSUME NEW w \in Relay, NEW S \in SUBSET Incident, Claim(w, S)
        PROVE  TypeOK'
    BY <2>3, StoreTypes DEF Claim
  <2>4. ASSUME NEW w \in Relay, NEW i \in Incident, Publish(w, i)
        PROVE  TypeOK'
    <3>1. copies' \in [Incident -> Nat] /\ queue' \subseteq Message
      BY <2>4 DEF Publish, Accept
    <3> QED
      BY <2>4, <3>1, StoreTypes DEF Publish
  <2>5. ASSUME NEW w \in Relay, NEW i \in Incident, PublishFails(w, i)
        PROVE  TypeOK'
    <3>1. copies' \in [Incident -> Nat] /\ queue' \subseteq Message
      BY <2>5 DEF PublishFails, Accept
    <3> QED
      BY <2>5, <3>1, StoreTypes DEF PublishFails, Fault
  <2>6. ASSUME NEW w \in Relay, MarkPublished(w)
        PROVE  TypeOK'
    <3>1. relay[w].event \in Incident /\ relay[w].receipt \in Nat
      BY <2>6 DEF MarkPublished
    <3>2. StoreTypeOK'
      BY <2>6, <3>1, StoreTypes DEF MarkPublished
    <3> QED
      BY <2>6, <3>2 DEF MarkPublished, AfterMark
  <2>7. ASSUME NEW w \in Relay, MarkPublishedErrs(w)
        PROVE  TypeOK'
    BY <2>7, StoreTypes DEF MarkPublishedErrs, Fault
  <2>8. ASSUME NEW w \in Relay, MarkFailed(w)
        PROVE  TypeOK'
    BY <2>8, StoreTypes DEF MarkFailed
  <2>9. ASSUME NEW w \in Relay, RelayStops(w)
        PROVE  TypeOK'
    BY <2>9, StoreTypes DEF RelayStops, Fault
  <2>10. ASSUME NEW c \in Consumer, NEW S \in SUBSET queue, Receive(c, S)
        PROVE  TypeOK'
    BY <2>10, StoreTypes DEF Receive
  <2>11. ASSUME NEW c \in Consumer, NEW m \in consumer[c].inbox, Consume(c, m)
        PROVE  TypeOK'
    BY <2>11, StoreTypes DEF Consume
  <2>12. ASSUME NEW c \in Consumer, Ack(c)
        PROVE  TypeOK'
    BY <2>12, StoreTypes DEF Ack
  <2>13. ASSUME NEW c \in Consumer, ConsumerStops(c)
        PROVE  TypeOK'
    BY <2>13, StoreTypes DEF ConsumerStops, Fault
  <2>14. ASSUME NEW i \in Incident, RetryDue(i)
        PROVE  TypeOK'
    BY <2>14, StoreTypes DEF RetryDue, processVars
  <2>15. ASSUME NEW i \in Incident, LeaseExpires(i)
        PROVE  TypeOK'
    BY <2>15, StoreTypes DEF LeaseExpires, Fault, processVars
  <2>16. CASE UNCHANGED vars
    BY <2>16, StoreTypes DEF vars, processVars
  <2> QED
    BY <2>1, <2>2, <2>3, <2>4, <2>5, <2>6, <2>7, <2>8, <2>9, <2>10, <2>11,
       <2>12, <2>13, <2>14, <2>15, <2>16 DEF Next, RelayStep, ConsumerStep
<1> QED
  BY <1>1, <1>2, PTL DEF Safety

-----------------------------------------------------------------------------
(* The trail of an incident that is created and then consumed.              *)
LEMMA AppendPair ==
  ASSUME NEW T, NEW a \in T, NEW b \in T
  PROVE  Append(<<a>>, b) = <<a, b>>
<1>1. /\ <<a, b>> \in Seq(T) /\ Append(<<a>>, b) \in Seq(T)
      /\ Len(<<a, b>>) = 2 /\ Len(Append(<<a>>, b)) = 2
  OBVIOUS
<1>2. \A n \in 1..2 : Append(<<a>>, b)[n] = <<a, b>>[n]
  OBVIOUS
<1> QED
  BY <1>1, <1>2, SeqEqual

(* Each transaction keeps status, version, trail, outbox row and processed *)
(* marker of every incident in agreement.                                  *)
LEMMA AuditStep ==
  ASSUME StoreTypeOK, AuditTrailAgrees
  PROVE  /\ \A i \in Incident, k \in Key, b \in Body : CreateTx(i, k, b) => AuditTrailAgrees'
         /\ \A w \in Relay, S \in SUBSET Incident : ClaimTx(w, S) => AuditTrailAgrees'
         /\ \A w \in Relay, i \in Incident, m \in Nat : MarkPublishedTx(w, i, m) => AuditTrailAgrees'
         /\ \A w \in Relay, i \in Incident : MarkFailedTx(w, i) => AuditTrailAgrees'
         /\ \A i \in Incident : ConsumeTx(i) => AuditTrailAgrees'
         /\ \A i \in Incident : RetryBecomesDue(i) \/ LeaseRunsOut(i) => AuditTrailAgrees'
         /\ UNCHANGED storeVars => AuditTrailAgrees'
<1>0. ASSUME NEW j \in Incident,
             incidents'[j] = incidents[j], trail'[j] = trail[j],
             j \in processed' <=> j \in processed,
             outbox'[j] = outbox[j] \/ (outbox[j].status # "ABSENT" /\ outbox'[j].status # "ABSENT")
      PROVE  Agrees(j)'
  <2>1. Agrees(j)
    BY DEF AuditTrailAgrees
  <2>2. CASE outbox'[j] = outbox[j]
    BY <1>0, <2>1, <2>2 DEF Agrees
  <2>3. CASE outbox[j].status # "ABSENT" /\ outbox'[j].status # "ABSENT"
    <3>1. outbox[j] # NoEvent
      BY <2>3 DEF NoEvent
    <3> QED
      BY <1>0, <2>1, <2>3, <3>1 DEF Agrees
  <2> QED
    BY <1>0, <2>2, <2>3
<1>1. ASSUME NEW i \in Incident, NEW k \in Key, NEW b \in Body, CreateTx(i, k, b)
      PROVE  AuditTrailAgrees'
  BY <1>1 DEF CreateTx, Exists, NoIncident, NoEvent, StoreTypeOK, AuditTrailAgrees, Agrees
<1>2. ASSUME NEW w \in Relay, NEW S \in SUBSET Incident, ClaimTx(w, S)
      PROVE  AuditTrailAgrees'
  <2>1. ASSUME NEW j \in Incident, j \in S
        PROVE  outbox[j].status # "ABSENT" /\ outbox'[j].status = "SENDING"
    BY <1>2, <2>1 DEF ClaimTx, Claimable, StoreTypeOK, OutboxRow
  <2> QED
    BY <1>0, <1>2, <2>1 DEF ClaimTx, AuditTrailAgrees
<1>3. ASSUME NEW w \in Relay, NEW i \in Incident, NEW m \in Nat, MarkPublishedTx(w, i, m)
      PROVE  AuditTrailAgrees'
  <2>1. outbox[i].status # "ABSENT" /\ outbox'[i].status = "PUBLISHED"
    BY <1>3 DEF MarkPublishedTx, HoldsLease, StoreTypeOK, OutboxRow
  <2>2. \A j \in Incident \ {i} : outbox'[j] = outbox[j]
    BY <1>3 DEF MarkPublishedTx, StoreTypeOK
  <2> QED
    BY <1>0, <1>3, <2>1, <2>2 DEF MarkPublishedTx, AuditTrailAgrees
<1>4. ASSUME NEW w \in Relay, NEW i \in Incident, MarkFailedTx(w, i)
      PROVE  AuditTrailAgrees'
  <2>1. HoldsLease(w, i) => outbox[i].status # "ABSENT" /\ outbox'[i].status = "PENDING"
    BY <1>4 DEF MarkFailedTx, HoldsLease, StoreTypeOK, OutboxRow
  <2>2. \A j \in Incident : j # i \/ ~HoldsLease(w, i) => outbox'[j] = outbox[j]
    BY <1>4 DEF MarkFailedTx, StoreTypeOK
  <2> QED
    BY <1>0, <1>4, <2>1, <2>2 DEF MarkFailedTx, AuditTrailAgrees
<1>5. ASSUME NEW i \in Incident, ConsumeTx(i)
      PROVE  AuditTrailAgrees'
  <2>1. ASSUME NEW j \in Incident, j # i
        PROVE  Agrees(j)'
    BY <1>0, <1>5, <2>1 DEF ConsumeTx, storeVars, StoreTypeOK
  <2>2. CASE i \in processed
    BY <1>0, <1>5, <2>2 DEF ConsumeTx, storeVars, AuditTrailAgrees
  <2>3. CASE i \notin processed
    <3>1. incidents[i].status = "RECEIVED" /\ trail[i] = <<"RECEIVED">>
          /\ incidents[i].version = 1 /\ outbox[i].status # "ABSENT"
      BY <1>5, <2>3 DEF ConsumeTx, Exists, AuditTrailAgrees, Agrees, NoIncident
    <3>2. /\ incidents'[i] = QueuedRow(incidents[i])
          /\ trail'[i] = Append(trail[i], "INVESTIGATION_QUEUED")
          /\ i \in processed' /\ outbox' = outbox
      BY <1>5, <2>3, <3>1 DEF ConsumeTx, StoreTypeOK
    <3>3. incidents'[i].status = "INVESTIGATION_QUEUED" /\ incidents'[i].version = 2
      BY <3>1, <3>2 DEF QueuedRow, StoreTypeOK, IncidentRow
    <3>4. trail'[i] = <<"RECEIVED", "INVESTIGATION_QUEUED">>
      <4>1. Append(<<"RECEIVED">>, "INVESTIGATION_QUEUED") = <<"RECEIVED", "INVESTIGATION_QUEUED">>
        BY AppendPair, "RECEIVED" \in IncidentStatus, "INVESTIGATION_QUEUED" \in IncidentStatus DEF IncidentStatus
      <4> QED
        BY <3>1, <3>2, <4>1
    <3> QED
      BY <2>1, <3>1, <3>2, <3>3, <3>4 DEF AuditTrailAgrees, Agrees
  <2> QED
    BY <2>2, <2>3
<1>6. ASSUME NEW i \in Incident, RetryBecomesDue(i) \/ LeaseRunsOut(i)
      PROVE  AuditTrailAgrees'
  <2>1. outbox[i].status # "ABSENT" /\ outbox'[i].status = outbox[i].status
    BY <1>6 DEF RetryBecomesDue, LeaseRunsOut, StoreTypeOK, OutboxRow
  <2>2. \A j \in Incident \ {i} : outbox'[j] = outbox[j]
    BY <1>6 DEF RetryBecomesDue, LeaseRunsOut, StoreTypeOK
  <2> QED
    BY <1>0, <1>6, <2>1, <2>2 DEF RetryBecomesDue, LeaseRunsOut, AuditTrailAgrees
<1>7. UNCHANGED storeVars => AuditTrailAgrees'
  BY <1>0 DEF storeVars, AuditTrailAgrees
<1> QED
  BY <1>1, <1>2, <1>3, <1>4, <1>5, <1>6, <1>7

(* Status, version, audit trail, outbox row and processed marker of every  *)
(* incident agree in every reachable state: it is queued exactly once,     *)
(* with its event recorded as processed.                                   *)
THEOREM AuditTrail == Safety => []AuditTrailAgrees
<1>1. Init => AuditTrailAgrees
  BY DEF Init, StoreInit, AuditTrailAgrees, Agrees
<1>2. TypeOK /\ AuditTrailAgrees /\ [Next]_vars => AuditTrailAgrees'
  <2> SUFFICES ASSUME StoreTypeOK, TypeOK, AuditTrailAgrees, [Next]_vars
               PROVE  AuditTrailAgrees'
    BY DEF TypeOK
  <2>1. ASSUME NEW w \in Relay, MarkPublished(w)
        PROVE  AuditTrailAgrees'
    <3>1. relay[w].event \in Incident /\ relay[w].receipt \in Nat
      BY <2>1 DEF MarkPublished, TypeOK, RelayState
    <3> QED
      BY <2>1, <3>1, AuditStep DEF MarkPublished
  <2>2. ASSUME NEW w \in Relay, MarkFailed(w)
        PROVE  AuditTrailAgrees'
    <3>1. relay[w].event \in Incident
      BY <2>2 DEF MarkFailed, TypeOK, RelayState
    <3> QED
      BY <2>2, <3>1, AuditStep DEF MarkFailed
  <2>3. ASSUME NEW w \in Relay, RelayStep(w)
        PROVE  AuditTrailAgrees'
    BY <2>1, <2>2, <2>3, AuditStep
       DEF RelayStep, StartPublisher, Claim, Publish, PublishFails, MarkPublishedErrs, RelayStops
  <2>4. ASSUME NEW c \in Consumer, ConsumerStep(c)
        PROVE  AuditTrailAgrees'
    <3>1. ASSUME NEW m \in consumer[c].inbox, Consume(c, m)
          PROVE  AuditTrailAgrees'
      <4>1. m[1] \in Incident
        BY DEF TypeOK, ConsumerState, Message
      <4> QED
        BY <3>1, <4>1, AuditStep DEF Consume
    <3> QED
      BY <2>4, <3>1, AuditStep DEF ConsumerStep, Receive, Ack, ConsumerStops
  <2>5. ASSUME NEW i \in Incident,
               RetryDue(i) \/ LeaseExpires(i) \/ (\E k \in Key, b \in Body : Create(i, k, b))
        PROVE  AuditTrailAgrees'
    BY <2>5, AuditStep DEF RetryDue, LeaseExpires, Create
  <2>6. CASE UNCHANGED vars
    BY <2>6, AuditStep DEF vars
  <2> QED
    BY <2>3, <2>4, <2>5, <2>6 DEF Next
<1> QED
  BY <1>1, <1>2, Typing, PTL DEF Safety

-----------------------------------------------------------------------------
(* No step breaks BrokerInv.  A message leaves the broker when it is       *)
(* acknowledged, after its event was processed; processed only grows, and  *)
(* so does copies.                                                         *)
LEMMA BrokerStep == TypeOK /\ AuditTrailAgrees /\ BrokerInv /\ [Next]_vars => BrokerInv'
<1> USE DEF Message
<1> SUFFICES ASSUME TypeOK, AuditTrailAgrees, BrokerInv, [Next]_vars
             PROVE  BrokerInv'
  OBVIOUS
<1>1. ASSUME NEW i \in Incident, NEW k \in Key, NEW b \in Body, Create(i, k, b)
      PROVE  BrokerInv'
  <2>1. \A j \in Incident : outbox'[j].status = "PUBLISHED" => outbox'[j] = outbox[j]
    BY <1>1 DEF Create, CreateTx, NoEvent, TypeOK, StoreTypeOK
  <2> QED
    BY <1>1, <2>1 DEF Create, CreateTx, processVars, BrokerInv
<1>2. ASSUME NEW w \in Relay, StartPublisher(w)
      PROVE  BrokerInv'
  BY <1>2 DEF StartPublisher, BrokerInv, storeVars, TypeOK, RelayState
<1>3. ASSUME NEW w \in Relay, NEW S \in SUBSET Incident, Claim(w, S)
      PROVE  BrokerInv'
  <2>1. \A j \in Incident : outbox'[j].status = "PUBLISHED" => outbox'[j] = outbox[j]
    BY <1>3 DEF Claim, ClaimTx, TypeOK, StoreTypeOK, OutboxRow
  <2> QED
    BY <1>3, <2>1 DEF Claim, ClaimTx, BrokerInv, TypeOK
<1>4. ASSUME NEW i \in Incident, Accept(i), UNCHANGED storeVars, UNCHANGED consumer,
             NEW w \in Relay, \A u \in Relay \ {w} : relay'[u] = relay[u],
             relay'[w].step = "mark" => relay'[w].event = i /\ relay'[w].receipt = copies[i] + 1
      PROVE  BrokerInv'
  <2>1. copies' \in [Incident -> Nat] /\ copies'[i] = copies[i] + 1
        /\ \A j \in Incident : j # i => copies'[j] = copies[j]
    BY <1>4 DEF Accept, TypeOK
  <2>2. \A j \in Incident : \A n \in 1..copies'[j] : <<j, n>> \in queue' \/ j \in processed'
    <3> TAKE j \in Incident
    <3> TAKE n \in 1..copies'[j]
    <3>1. n \in 1..copies[j] \/ (j = i /\ n = copies[i] + 1)
      BY <2>1 DEF TypeOK
    <3>2. queue \subseteq queue' /\ <<i, copies[i] + 1>> \in queue' /\ processed' = processed
      BY <1>4 DEF Accept, storeVars
    <3>3. CASE n \in 1..copies[j]
      BY <3>2, <3>3 DEF BrokerInv
    <3> QED
      BY <3>1, <3>2, <3>3
  <2>3. \A j \in Incident : 1..copies[j] \subseteq 1..copies'[j]
    BY <2>1 DEF TypeOK
  <2>4. \A u \in Relay : relay'[u].step = "mark" => relay'[u].receipt \in 1..copies'[relay'[u].event]
    <3> TAKE u \in Relay
    <3>1. CASE u = w
      BY <1>4, <2>1, <3>1 DEF TypeOK
    <3>2. CASE u # w
      <4>1. relay[u].step = "mark" => relay[u].event \in Incident
        BY DEF TypeOK, RelayState
      <4> QED
        BY <1>4, <2>3, <3>2, <4>1 DEF BrokerInv
    <3> QED
      BY <3>1, <3>2
  <2> QED
    BY <1>4, <2>2, <2>3, <2>4 DEF BrokerInv, storeVars
<1>5. ASSUME NEW w \in Relay, NEW i \in Incident, Publish(w, i)
      PROVE  BrokerInv'
  BY <1>4, <1>5 DEF Publish, TypeOK
<1>6. ASSUME NEW w \in Relay, NEW i \in Incident, PublishFails(w, i)
      PROVE  BrokerInv'
  <2>1. CASE Accept(i)
    BY <1>4, <1>6, <2>1 DEF PublishFails, TypeOK
  <2>2. CASE UNCHANGED <<copies, queue>>
    BY <1>6, <2>2 DEF PublishFails, BrokerInv, TypeOK, storeVars
  <2> QED
    BY <1>6, <2>1, <2>2 DEF PublishFails
<1>7. ASSUME NEW w \in Relay, MarkPublished(w)
      PROVE  BrokerInv'
  <2>1. /\ relay[w].event \in Incident
        /\ relay[w].receipt \in 1..copies[relay[w].event]
    BY <1>7 DEF MarkPublished, TypeOK, RelayState, BrokerInv
  <2>2. CASE MarkPublishedTx(w, relay[w].event, relay[w].receipt)
    <3>1. /\ outbox'[relay[w].event].message = relay[w].receipt
          /\ \A j \in Incident : j # relay[w].event => outbox'[j] = outbox[j]
      BY <2>1, <2>2 DEF MarkPublishedTx, TypeOK, StoreTypeOK, OutboxRow
    <3>2. \A u \in Relay : relay'[u].step = "mark" => relay'[u] = relay[u]
      BY <1>7 DEF MarkPublished, AfterMark, TypeOK, RelayState
    <3> QED
      BY <1>7, <2>1, <2>2, <3>1, <3>2 DEF MarkPublished, MarkPublishedTx, BrokerInv
  <2>3. CASE UNCHANGED storeVars
    <3>1. \A u \in Relay : relay'[u].step = "mark" => relay'[u] = relay[u]
      BY <1>7 DEF MarkPublished, AfterMark, TypeOK, RelayState
    <3> QED
      BY <1>7, <2>3, <3>1 DEF MarkPublished, BrokerInv, storeVars
  <2> QED
    BY <1>7, <2>2, <2>3 DEF MarkPublished
<1>8. ASSUME NEW w \in Relay, MarkPublishedErrs(w) \/ RelayStops(w)
      PROVE  BrokerInv'
  <2>1. \A u \in Relay : relay'[u].step = "mark" => relay'[u] = relay[u]
    BY <1>8 DEF MarkPublishedErrs, RelayStops, Stopped, TypeOK, RelayState
  <2> QED
    BY <1>8, <2>1 DEF MarkPublishedErrs, RelayStops, BrokerInv, storeVars
<1>9. ASSUME NEW w \in Relay, MarkFailed(w)
      PROVE  BrokerInv'
  <2>1. \A u \in Relay : relay'[u].step = "mark" => relay'[u] = relay[u]
    BY <1>9 DEF MarkFailed, Stopped, TypeOK, RelayState
  <2>2. \A j \in Incident : outbox'[j].status = "PUBLISHED" => outbox'[j] = outbox[j]
    BY <1>9 DEF MarkFailed, MarkFailedTx, TypeOK, StoreTypeOK, OutboxRow
  <2> QED
    BY <1>9, <2>1, <2>2 DEF MarkFailed, MarkFailedTx, BrokerInv
<1>10. ASSUME NEW c \in Consumer, NEW S \in SUBSET queue, Receive(c, S)
       PROVE  BrokerInv'
  <2>1. \A d \in Consumer : consumer'[d].acking = consumer[d].acking
    BY <1>10 DEF Receive, TypeOK, ConsumerState
  <2> QED
    BY <1>10, <2>1 DEF Receive, BrokerInv, storeVars
<1>11. ASSUME NEW c \in Consumer, NEW m \in consumer[c].inbox, Consume(c, m)
       PROVE  BrokerInv'
  <2>1. m[1] \in processed' /\ processed \subseteq processed' /\ outbox' = outbox
    BY <1>11 DEF Consume, ConsumeTx, storeVars
  <2>2. \A d \in Consumer : consumer'[d].acking = IF d = c THEN m ELSE consumer[d].acking
    BY <1>11 DEF Consume, TypeOK, ConsumerState
  <2> QED
    BY <1>11, <2>1, <2>2 DEF Consume, BrokerInv
<1>12. ASSUME NEW c \in Consumer, Ack(c)
       PROVE  BrokerInv'
  <2>1. consumer[c].acking[1] \in processed
    BY <1>12 DEF Ack, BrokerInv
  <2>2. \A d \in Consumer : consumer'[d].acking # None => consumer'[d].acking = consumer[d].acking
    BY <1>12 DEF Ack, TypeOK, ConsumerState
  <2>3. \A j \in Incident : \A n \in 1..copies[j] : <<j, n>> \in queue' \/ j \in processed
    <3> TAKE j \in Incident
    <3> TAKE n \in 1..copies[j]
    <3>1. CASE <<j, n>> = consumer[c].acking
      <4>1. <<j, n>>[1] = j
        OBVIOUS
      <4> QED
        BY <2>1, <3>1, <4>1
    <3>2. CASE <<j, n>> # consumer[c].acking
      BY <1>12, <3>2 DEF Ack, BrokerInv
    <3> QED
      BY <3>1, <3>2
  <2> QED
    BY <1>12, <2>2, <2>3 DEF Ack, BrokerInv, storeVars
<1>13. ASSUME NEW c \in Consumer, ConsumerStops(c)
       PROVE  BrokerInv'
  <2>1. \A d \in Consumer : consumer'[d].acking # None => consumer'[d].acking = consumer[d].acking
    BY <1>13 DEF ConsumerStops, Disconnected, TypeOK, ConsumerState
  <2> QED
    BY <1>13, <2>1 DEF ConsumerStops, BrokerInv, storeVars
<1>14. ASSUME NEW i \in Incident, RetryDue(i) \/ LeaseExpires(i)
       PROVE  BrokerInv'
  <2>1. \A j \in Incident : outbox'[j].status = "PUBLISHED" => outbox'[j] = outbox[j]
    BY <1>14 DEF RetryDue, RetryBecomesDue, LeaseExpires, LeaseRunsOut, TypeOK, StoreTypeOK, OutboxRow
  <2> QED
    BY <1>14, <2>1 DEF RetryDue, RetryBecomesDue, LeaseExpires, LeaseRunsOut, processVars, BrokerInv
<1>15. CASE UNCHANGED vars
  BY <1>15 DEF vars, storeVars, processVars, BrokerInv
<1> QED
  BY <1>1, <1>2, <1>3, <1>5, <1>6, <1>7, <1>8, <1>9, <1>10, <1>11, <1>12, <1>13,
     <1>14, <1>15 DEF Next, RelayStep, ConsumerStep

(* The inductive invariant: no accepted message and no receipt in a         *)
(* relay's hand says more than the queue and the tables bear out.           *)
THEOREM Inductive == Safety => []IInv
<1>1. Init => BrokerInv
  BY DispatchAssumption DEF Init, StoreInit, NoEvent, Stopped, Disconnected, BrokerInv
<1> QED
  BY <1>1, BrokerStep, Typing, AuditTrail, PTL DEF Safety, IInv

(* A published investigation is never lost: the message its row names is   *)
(* still with the broker, or its incident has been queued.                 *)
THEOREM NoneLost == Safety => []NoLostInvestigation
<1>1. IInv => NoLostInvestigation
  BY DEF IInv, BrokerInv, NoLostInvestigation
<1> QED
  BY <1>1, Inductive, PTL

-----------------------------------------------------------------------------
(* How an outbox row may change: it is inserted, or waits (it falls due,   *)
(* is claimed, or its lease runs out), or the relay that holds its lease   *)
(* settles it.                                                             *)
Inserted(i) == outbox[i] = NoEvent /\ outbox'[i].status = "PENDING" /\ outbox'[i].attempts = 0
Waits(i) ==
  /\ outbox[i].status \in {"PENDING", "SENDING"}
  /\ outbox'[i].status \in {"PENDING", "SENDING"}
  /\ outbox[i].status = "SENDING" => outbox'[i].status = "SENDING"
  /\ outbox'[i].attempts \in {outbox[i].attempts, outbox[i].attempts + 1}
Settled(i) ==
  \E w \in Relay :
    /\ HoldsLease(w, i)
    /\ relay[w].event = i
    /\ outbox'[i].attempts = outbox[i].attempts
    /\ \/ relay[w].step = "failed" /\ outbox'[i].status = "PENDING"
       \/ /\ relay[w].step = "mark" /\ outbox'[i].status = "PUBLISHED"
          /\ outbox'[i].message = relay[w].receipt

(* What claims and settlements leave in a row.                              *)
LEMMA RowFields ==
  ASSUME NEW row \in OutboxRow, NEW w \in Relay, NEW m \in Nat
  PROVE  /\ [row EXCEPT !.status = "SENDING", !.lockedBy = w,
                        !.attempts = @ + 1, !.expired = FALSE].status = "SENDING"
         /\ [row EXCEPT !.status = "SENDING", !.lockedBy = w,
                        !.attempts = @ + 1, !.expired = FALSE].attempts = row.attempts + 1
         /\ [row EXCEPT !.status = "PUBLISHED", !.lockedBy = None,
                        !.expired = FALSE, !.message = m].status = "PUBLISHED"
         /\ [row EXCEPT !.status = "PUBLISHED", !.lockedBy = None,
                        !.expired = FALSE, !.message = m].attempts = row.attempts
         /\ [row EXCEPT !.status = "PUBLISHED", !.lockedBy = None,
                        !.expired = FALSE, !.message = m].message = m
         /\ [row EXCEPT !.status = "PENDING", !.lockedBy = None,
                        !.expired = FALSE, !.due = FALSE].status = "PENDING"
         /\ [row EXCEPT !.status = "PENDING", !.lockedBy = None,
                        !.expired = FALSE, !.due = FALSE].attempts = row.attempts
  BY DEF OutboxRow

(* What the clocks leave in a row.                                          *)
LEMMA RowTimes ==
  ASSUME NEW row \in OutboxRow
  PROVE  /\ [row EXCEPT !.due = TRUE].status = row.status
         /\ [row EXCEPT !.due = TRUE].attempts = row.attempts
         /\ [row EXCEPT !.expired = TRUE].status = row.status
         /\ [row EXCEPT !.expired = TRUE].attempts = row.attempts
  BY DEF OutboxRow

(* All that can happen to a row: it appears, waits or is settled.           *)
LEMMA RowSteps ==
  ASSUME TypeOK, AuditTrailAgrees, Next, NEW i \in Incident
  PROVE  outbox'[i] = outbox[i] \/ Inserted(i) \/ Waits(i) \/ Settled(i)
<1>0. outbox \in [Incident -> OutboxRow]
  BY DEF TypeOK, StoreTypeOK
<1>1. ASSUME NEW j \in Incident, NEW k \in Key, NEW b \in Body, Create(j, k, b)
      PROVE  outbox'[i] = outbox[i] \/ Inserted(i)
  <2>1. outbox[j] = NoEvent
    BY <1>1 DEF Create, CreateTx, Exists, AuditTrailAgrees, Agrees, NoIncident
  <2>2. CASE i = j
    <3>1. outbox'[i] = [NoEvent EXCEPT !.status = "PENDING", !.due = TRUE]
      BY <1>0, <1>1, <2>2 DEF Create, CreateTx
    <3> QED
      BY <2>1, <2>2, <3>1 DEF Inserted, NoEvent
  <2>3. CASE i # j
    BY <1>0, <1>1, <2>3 DEF Create, CreateTx
  <2> QED
    BY <2>2, <2>3
<1>2. ASSUME NEW w \in Relay, NEW S \in SUBSET Incident, Claim(w, S)
      PROVE  outbox'[i] = outbox[i] \/ Waits(i)
  <2>1. CASE i \in S
    <3>1. outbox'[i] = [outbox[i] EXCEPT !.status = "SENDING", !.lockedBy = w,
                                         !.attempts = @ + 1, !.expired = FALSE]
      BY <1>2, <2>1 DEF Claim, ClaimTx
    <3>2. outbox[i].status \in {"PENDING", "SENDING"}
      BY <1>2, <2>1 DEF Claim, ClaimTx, Claimable
    <3> QED
      BY <1>0, <3>1, <3>2, RowFields DEF Waits
  <2>2. CASE i \notin S
    BY <1>2, <2>2 DEF Claim, ClaimTx
  <2> QED
    BY <2>1, <2>2
<1>3. ASSUME NEW w \in Relay, MarkPublished(w)
      PROVE  outbox'[i] = outbox[i] \/ Settled(i)
  <2>1. relay[w].receipt \in Nat /\ relay[w].step = "mark"
    BY <1>3 DEF MarkPublished, TypeOK, RelayState
  <2>2. CASE i = relay[w].event /\ MarkPublishedTx(w, i, relay[w].receipt)
    <3>1. outbox'[i] = [outbox[i] EXCEPT !.status = "PUBLISHED", !.lockedBy = None,
                                         !.expired = FALSE, !.message = relay[w].receipt]
      BY <1>0, <2>2 DEF MarkPublishedTx
    <3> QED
      BY <1>0, <2>1, <2>2, <3>1, RowFields DEF Settled, MarkPublishedTx
  <2>3. CASE ~(i = relay[w].event /\ MarkPublishedTx(w, i, relay[w].receipt))
    BY <1>0, <1>3, <2>3 DEF MarkPublished, MarkPublishedTx, storeVars
  <2> QED
    BY <2>2, <2>3
<1>4. ASSUME NEW w \in Relay, MarkFailed(w)
      PROVE  outbox'[i] = outbox[i] \/ Settled(i)
  <2>1. CASE i = relay[w].event /\ HoldsLease(w, i)
    <3>1. outbox'[i] = [outbox[i] EXCEPT !.status = "PENDING", !.lockedBy = None,
                                         !.expired = FALSE, !.due = FALSE]
      BY <1>0, <1>4, <2>1 DEF MarkFailed, MarkFailedTx
    <3>2. relay[w].step = "failed"
      BY <1>4 DEF MarkFailed
    <3> QED
      BY <1>0, <2>1, <3>1, <3>2, RowFields DEF Settled
  <2>2. CASE ~(i = relay[w].event /\ HoldsLease(w, i))
    BY <1>0, <1>4, <2>2 DEF MarkFailed, MarkFailedTx
  <2> QED
    BY <2>1, <2>2
<1>5. ASSUME NEW j \in Incident, RetryDue(j) \/ LeaseExpires(j)
      PROVE  outbox'[i] = outbox[i] \/ Waits(i)
  <2>1. CASE i = j
    <3>1. /\ \/ outbox'[i] = [outbox[i] EXCEPT !.due = TRUE]
             \/ outbox'[i] = [outbox[i] EXCEPT !.expired = TRUE]
          /\ outbox[i].status \in {"PENDING", "SENDING"}
      BY <1>0, <1>5, <2>1 DEF RetryDue, RetryBecomesDue, LeaseExpires, LeaseRunsOut
    <3> QED
      BY <1>0, <3>1, RowTimes DEF Waits
  <2>2. CASE i # j
    BY <1>0, <1>5, <2>2 DEF RetryDue, RetryBecomesDue, LeaseExpires, LeaseRunsOut
  <2> QED
    BY <2>1, <2>2
<1>6. ASSUME NEW w \in Relay, RelayStep(w)
      PROVE  outbox'[i] = outbox[i] \/ Waits(i) \/ Settled(i)
  BY <1>2, <1>3, <1>4, <1>6
     DEF RelayStep, StartPublisher, Publish, PublishFails, MarkPublishedErrs, RelayStops, storeVars
<1>7. ASSUME NEW c \in Consumer, ConsumerStep(c)
      PROVE  outbox' = outbox
  BY <1>7 DEF ConsumerStep, Receive, Consume, ConsumeTx, Ack, ConsumerStops, storeVars
<1> QED
  BY <1>1, <1>5, <1>6, <1>7 DEF Next

(* A row leaves SENDING only by the hand of the relay that locked it and   *)
(* is working on that event.                                               *)
THEOREM HolderSettles == Safety => OnlyHolderSettles
<1>1. TypeOK /\ AuditTrailAgrees /\ [Next]_vars => [SettledByHolder]_vars
  <2> SUFFICES ASSUME TypeOK, AuditTrailAgrees, Next PROVE SettledByHolder
    OBVIOUS
  <2> SUFFICES ASSUME NEW i \in Incident, outbox[i].status = "SENDING", outbox'[i].status # "SENDING"
               PROVE  /\ outbox[i].lockedBy \in Relay
                      /\ relay[outbox[i].lockedBy].event = i
                      /\ relay[outbox[i].lockedBy].step \in {"mark", "failed"}
    BY DEF SettledByHolder
  <2>1. Settled(i)
    BY RowSteps DEF Inserted, Waits, NoEvent
  <2> QED
    BY <2>1 DEF Settled, HoldsLease
<1> QED
  BY <1>1, Typing, AuditTrail, PTL DEF Safety, OnlyHolderSettles

(* A row is marked published with the id of an accepted message of its own *)
(* event, and never changes again.                                         *)
THEOREM PublishedStays == Safety => PublishedIsFinal
<1>1. IInv /\ [Next]_vars => [StaysPublished]_vars
  <2> SUFFICES ASSUME TypeOK, AuditTrailAgrees, BrokerInv, Next PROVE StaysPublished
    BY DEF IInv
  <2> SUFFICES ASSUME NEW i \in Incident
               PROVE  /\ outbox'[i].status = "PUBLISHED" => outbox'[i].message \in 1..copies[i]
                      /\ outbox[i].status = "PUBLISHED" => outbox'[i] = outbox[i]
    BY DEF StaysPublished
  <2>1. CASE outbox'[i] = outbox[i]
    BY <2>1 DEF BrokerInv
  <2>2. CASE Inserted(i) \/ Waits(i)
    BY <2>2 DEF Inserted, Waits, NoEvent
  <2>3. CASE Settled(i)
    BY <2>3 DEF Settled, HoldsLease, BrokerInv
  <2> QED
    BY <2>1, <2>2, <2>3, RowSteps
<1> QED
  BY <1>1, Inductive, PTL DEF Safety, PublishedIsFinal

-----------------------------------------------------------------------------
(* Changing one relay changes how many of them hold an event by one.       *)
LEMMA CardinalityOfOne ==
  ASSUME NEW A, NEW B, IsFiniteSet(A), IsFiniteSet(B), NEW w, A \ {w} = B \ {w}
  PROVE  /\ Cardinality(A) \in Nat /\ Cardinality(B) \in Nat
         /\ Cardinality(B) <= Cardinality(A) + 1
         /\ w \notin B \/ w \in A => Cardinality(B) <= Cardinality(A)
         /\ w \in A /\ w \notin B => Cardinality(B) = Cardinality(A) - 1
<1>1. Cardinality(A) \in Nat /\ Cardinality(B) \in Nat
  BY FS_CardinalityType
<1>2. CASE w \in A <=> w \in B
  <2>1. A = B
    BY <1>2
  <2> QED
    BY <1>1, <1>2, <2>1
<1>3. CASE w \in A /\ w \notin B
  <2>1. B = A \ {w}
    BY <1>3
  <2>2. Cardinality(B) = Cardinality(A) - 1
    BY <1>3, <2>1, FS_RemoveElement
  <2> QED
    BY <1>1, <1>3, <2>2
<1>4. CASE w \notin A /\ w \in B
  <2>1. B = A \cup {w}
    BY <1>4
  <2>2. Cardinality(B) = Cardinality(A) + 1
    BY <1>4, <2>1, FS_AddElement
  <2> QED
    BY <1>1, <1>4, <2>2
<1> QED
  BY <1>2, <1>3, <1>4

(* One relay at a time changes who holds an event.                          *)
LEMMA HoldersOfOne ==
  ASSUME TypeOK, TypeOK', NEW w \in Relay, \A u \in Relay \ {w} : relay'[u] = relay[u],
         NEW j \in Incident
  PROVE  /\ Cardinality(Holders(j)) \in Nat /\ Cardinality(Holders(j)') \in Nat
         /\ Cardinality(Holders(j)') <= Cardinality(Holders(j)) + 1
         /\ j \notin relay'[w].batch \/ j \in relay[w].batch
              => Cardinality(Holders(j)') <= Cardinality(Holders(j))
         /\ j \in relay[w].batch /\ j \notin relay'[w].batch
              => Cardinality(Holders(j)') = Cardinality(Holders(j)) - 1
<1>1. IsFiniteSet(Holders(j)) /\ IsFiniteSet(Holders(j)')
  BY DispatchAssumption, FS_Subset DEF Holders
<1>2. Holders(j) \ {w} = Holders(j)' \ {w}
  BY DEF Holders
<1>3. /\ w \in Holders(j) <=> j \in relay[w].batch
      /\ w \in Holders(j)' <=> j \in relay'[w].batch
  BY DEF Holders
<1> QED
  BY <1>1, <1>2, <1>3, CardinalityOfOne

(* The broker accepts an event at most as often as it was claimed.         *)
THEOREM AttemptsBound == Safety => []DuplicatesCountedAsAttempts
<1>1. Init => ClaimsCounted
  <2> SUFFICES ASSUME Init, NEW i \in Incident
               PROVE  copies[i] + Cardinality(Holders(i)) <= outbox[i].attempts
    BY DEF ClaimsCounted
  <2>1. Holders(i) = {}
    BY DEF Init, Stopped, Holders
  <2>2. Cardinality(Holders(i)) = 0
    BY <2>1, FS_EmptySet
  <2> QED
    BY <2>2 DEF Init, StoreInit, NoEvent
<1>2. TypeOK /\ TypeOK' /\ AuditTrailAgrees /\ ClaimsCounted /\ [Next]_vars => ClaimsCounted'
  <2> SUFFICES ASSUME TypeOK, TypeOK', AuditTrailAgrees, ClaimsCounted, [Next]_vars, NEW i \in Incident
               PROVE  copies'[i] + Cardinality(Holders(i)') <= outbox'[i].attempts
    BY DEF ClaimsCounted
  <2> DEFINE H == Cardinality(Holders(i))
  <2> DEFINE K == Cardinality(Holders(i)')
  <2>0. /\ copies[i] \in Nat /\ copies'[i] \in Nat
        /\ outbox[i].attempts \in Nat /\ outbox'[i].attempts \in Nat
        /\ copies[i] + H <= outbox[i].attempts
    BY DEF TypeOK, StoreTypeOK, OutboxRow, ClaimsCounted
  <2>1. CASE Next
    <3>1. outbox'[i].attempts >= outbox[i].attempts
      BY <2>0, <2>1, RowSteps DEF Inserted, Waits, Settled, NoEvent
    <3>2. ASSUME NEW w \in Relay, RelayStep(w)
          PROVE  copies'[i] + K <= outbox'[i].attempts
      <4>0. \A u \in Relay \ {w} : relay'[u] = relay[u]
        BY <3>2 DEF TypeOK, RelayStep, StartPublisher, Claim, Publish, PublishFails,
                    MarkPublished, MarkPublishedErrs, MarkFailed, RelayStops
      <4>1. /\ H \in Nat /\ K \in Nat /\ K <= H + 1
            /\ i \notin relay'[w].batch \/ i \in relay[w].batch => K <= H
            /\ i \in relay[w].batch /\ i \notin relay'[w].batch => K = H - 1
        BY <4>0, HoldersOfOne
      <4>2. ASSUME NEW S \in SUBSET Incident, Claim(w, S)
            PROVE  copies'[i] + K <= outbox'[i].attempts
        <5>1. relay'[w].batch = S /\ copies' = copies
          BY <4>2 DEF Claim, TypeOK
        <5>2. i \in S => outbox'[i].attempts = outbox[i].attempts + 1
          <6> SUFFICES ASSUME i \in S
                       PROVE  outbox'[i].attempts = outbox[i].attempts + 1
            OBVIOUS
          <6>1. outbox'[i] = [outbox[i] EXCEPT !.status = "SENDING", !.lockedBy = w,
                                               !.attempts = @ + 1, !.expired = FALSE]
            BY <4>2 DEF Claim, ClaimTx
          <6>2. outbox[i] \in OutboxRow
            BY DEF TypeOK, StoreTypeOK
          <6> QED
            BY <6>1, <6>2, RowFields
        <5> QED
          BY <2>0, <3>1, <4>1, <5>1, <5>2
      <4>3. ASSUME NEW j \in Incident, Publish(w, j) \/ PublishFails(w, j)
            PROVE  copies'[i] + K <= outbox'[i].attempts
        <5>1. /\ j \in relay[w].batch
              /\ relay'[w].batch = relay[w].batch \ {j}
          BY <4>3 DEF Publish, PublishFails, TypeOK
        <5>2. /\ i = j => copies'[i] <= copies[i] + 1
              /\ i # j => copies'[i] = copies[i]
          BY <2>0, <4>3 DEF Publish, PublishFails, Accept, TypeOK
        <5> QED
          BY <2>0, <3>1, <4>1, <5>1, <5>2
      <4>4. CASE \/ StartPublisher(w) \/ MarkPublished(w) \/ MarkPublishedErrs(w)
                 \/ MarkFailed(w) \/ RelayStops(w)
        <5>1. copies' = copies /\ relay'[w].batch \subseteq relay[w].batch
          BY <4>4 DEF StartPublisher, MarkPublished, AfterMark, MarkPublishedErrs, MarkFailed,
                      RelayStops, Stopped, TypeOK, RelayState
        <5> QED
          BY <2>0, <3>1, <4>1, <5>1
      <4> QED
        BY <3>2, <4>2, <4>3, <4>4 DEF RelayStep
    <3>3. ASSUME UNCHANGED <<relay, copies>>
          PROVE  copies'[i] + K <= outbox'[i].attempts
      <4>1. Holders(i)' = Holders(i)
        BY <3>3 DEF Holders
      <4>2. H \in Nat
        BY DispatchAssumption, FS_Subset, FS_CardinalityType DEF Holders
      <4> QED
        BY <2>0, <3>1, <3>3, <4>1, <4>2
    <3> QED
      BY <2>1, <3>2, <3>3
         DEF Next, Create, RetryDue, LeaseExpires, ConsumerStep, Receive, Consume, Ack, ConsumerStops, processVars
  <2>2. CASE UNCHANGED vars
    <3>1. Holders(i)' = Holders(i)
      BY <2>2 DEF Holders, vars, processVars
    <3> QED
      BY <2>0, <2>2, <3>1 DEF vars, processVars, storeVars
  <2> QED
    BY <2>1, <2>2
<1>3. TypeOK /\ ClaimsCounted => DuplicatesCountedAsAttempts
  <2> SUFFICES ASSUME TypeOK, ClaimsCounted, NEW i \in Incident
               PROVE  copies[i] <= outbox[i].attempts
    BY DEF DuplicatesCountedAsAttempts
  <2>1. Cardinality(Holders(i)) \in Nat
    BY DispatchAssumption, FS_Subset, FS_CardinalityType DEF Holders
  <2>2. copies[i] \in Nat /\ outbox[i].attempts \in Nat
    BY DEF TypeOK, StoreTypeOK, OutboxRow
  <2> QED
    BY <2>1, <2>2 DEF ClaimsCounted
<1> QED
  BY <1>1, <1>2, <1>3, Typing, AuditTrail, PTL DEF Safety

-----------------------------------------------------------------------------
(* The path implements its promise: creating an incident submits it,       *)
(* settling its row settles it, applying its message for the first time    *)
(* queues it, and nothing else shows.                                      *)
LEMMA ConsumeQueues ==
  ASSUME TypeOK, AuditTrailAgrees, NEW i \in Incident, ConsumeTx(i)
  PROVE  [Promise!Next]_(Promise!vars)
<1> USE DEF TypeOK, StoreTypeOK
<1>1. CASE UNCHANGED storeVars
  BY <1>1 DEF storeVars, Promise!vars
<1>2. CASE i \notin processed /\ Exists(i)
  <2>1. incidents[i].status = "RECEIVED" /\ trail[i] = <<"RECEIVED">>
    BY <1>2 DEF Exists, AuditTrailAgrees, Agrees, NoIncident
  <2>2. /\ incidents' = [incidents EXCEPT ![i] = QueuedRow(incidents[i])]
        /\ trail' = [trail EXCEPT ![i] = Append(trail[i], "INVESTIGATION_QUEUED")]
        /\ outbox' = outbox
    BY <1>2, <2>1 DEF ConsumeTx, storeVars
  <2>3. QueuedRow(incidents[i]).status = "INVESTIGATION_QUEUED"
    BY DEF QueuedRow, IncidentRow
  <2>4. Len(Append(trail[i], "INVESTIGATION_QUEUED")) = 2
    <3>1. trail[i] \in Seq(IncidentStatus) /\ "INVESTIGATION_QUEUED" \in IncidentStatus
      BY DEF IncidentStatus
    <3>2. Len(Append(trail[i], "INVESTIGATION_QUEUED")) = Len(trail[i]) + 1
      BY <3>1, AppendProperties
    <3> QED
      BY <2>1, <3>2
  <2>5. Promise!Queue(i)
    <3> HIDE DEF TypeOK, StoreTypeOK
    <3>1. /\ incidents \in [Incident -> IncidentRow]
          /\ trail \in [Incident -> Seq(IncidentStatus)]
      BY DEF TypeOK, StoreTypeOK
    <3>2. [j \in Incident |-> incidents[j].status]' =
            [[j \in Incident |-> incidents[j].status] EXCEPT ![i] = "INVESTIGATION_QUEUED"]
      BY <2>2, <2>3, <3>1
    <3>3. [j \in Incident |-> Len(trail[j])]' = [[j \in Incident |-> Len(trail[j])] EXCEPT ![i] = 2]
      BY <2>2, <2>4, <3>1
    <3> QED
      BY <2>1, <2>2, <3>2, <3>3 DEF Promise!Queue
  <2> QED
    BY <2>5 DEF Promise!Next
<1> QED
  BY <1>1, <1>2 DEF ConsumeTx

(* Marking a row published settles the event.                               *)
LEMMA MarkSettles ==
  ASSUME TypeOK, AuditTrailAgrees, NEW w \in Relay, NEW i \in Incident, NEW m \in Nat,
         MarkPublishedTx(w, i, m)
  PROVE  [Promise!Next]_(Promise!vars)
<1>1. incidents[i].status # "ABSENT"
  BY DEF MarkPublishedTx, HoldsLease, AuditTrailAgrees, Agrees, NoEvent
<1>2. outbox'[i].status = "PUBLISHED" /\ \A j \in Incident : j # i => outbox'[j] = outbox[j]
  BY RowFields DEF MarkPublishedTx, TypeOK, StoreTypeOK
<1>3. {j \in Incident : outbox[j].status = "PUBLISHED"}' =
        {j \in Incident : outbox[j].status = "PUBLISHED"} \cup {i}
  BY <1>2
<1> QED
  BY <1>1, <1>3 DEF MarkPublishedTx, Promise!Next, Promise!Settle

(* Creating an incident submits it.                                         *)
LEMMA CreateSubmits ==
  ASSUME TypeOK, AuditTrailAgrees, NEW i \in Incident, NEW k \in Key, NEW b \in Body,
         CreateTx(i, k, b)
  PROVE  [Promise!Next]_(Promise!vars)
<1>1. incidents[i].status = "ABSENT" /\ outbox[i] = NoEvent
  BY DEF CreateTx, Exists, AuditTrailAgrees, Agrees, NoIncident
<1>2. /\ incidents' = [incidents EXCEPT
           ![i] = [status |-> "RECEIVED", version |-> 1, key |-> k, body |-> b]]
      /\ trail' = [trail EXCEPT ![i] = <<"RECEIVED">>]
      /\ outbox' = [outbox EXCEPT ![i] = [NoEvent EXCEPT !.status = "PENDING", !.due = TRUE]]
  BY DEF CreateTx
<1>3. /\ incidents \in [Incident -> IncidentRow]
      /\ trail \in [Incident -> Seq(IncidentStatus)]
      /\ outbox \in [Incident -> OutboxRow]
  BY DEF TypeOK, StoreTypeOK
<1>4. [j \in Incident |-> incidents[j].status]' =
        [[j \in Incident |-> incidents[j].status] EXCEPT ![i] = "RECEIVED"]
  BY <1>2, <1>3
<1>5. [j \in Incident |-> Len(trail[j])]' = [[j \in Incident |-> Len(trail[j])] EXCEPT ![i] = 1]
  <2>1. Len(<<"RECEIVED">>) = 1
    OBVIOUS
  <2> QED
    BY <1>2, <1>3, <2>1
<1>6. {j \in Incident : outbox[j].status = "PUBLISHED"}' =
        {j \in Incident : outbox[j].status = "PUBLISHED"}
  BY <1>1, <1>2, <1>3 DEF NoEvent
<1> QED
  BY <1>1, <1>4, <1>5, <1>6 DEF Promise!Next, Promise!Submit

(* Every behaviour of the path, whatever fails in it, is a behaviour of    *)
(* InvestigationQueue under the refinement mapping of Promise.             *)
THEOREM Implements == Safety => KeepsPromise
<1>1. Init => Promise!Init
  <2> SUFFICES ASSUME Init PROVE Promise!Init
    OBVIOUS
  <2>1. Len(<<>>) = 0
    OBVIOUS
  <2>2. /\ \A i \in Incident : incidents[i].status = "ABSENT" /\ trail[i] = <<>>
        /\ \A i \in Incident : outbox[i].status = "ABSENT"
    BY DEF Init, StoreInit, NoIncident, NoEvent
  <2> QED
    BY <2>1, <2>2 DEF Promise!Init
<1>2. TypeOK /\ AuditTrailAgrees /\ [Next]_vars => [Promise!Next]_(Promise!vars)
  <2> SUFFICES ASSUME TypeOK, AuditTrailAgrees, [Next]_vars
               PROVE  [Promise!Next]_(Promise!vars)
    OBVIOUS
  <2>1. ASSUME UNCHANGED <<incidents, trail>>,
               \A i \in Incident : outbox'[i].status = "PUBLISHED" <=> outbox[i].status = "PUBLISHED"
        PROVE  UNCHANGED Promise!vars
    BY <2>1 DEF Promise!vars
  <2>2. ASSUME NEW w \in Relay, MarkPublished(w)
        PROVE  [Promise!Next]_(Promise!vars)
    <3>1. relay[w].event \in Incident /\ relay[w].receipt \in Nat
      BY <2>2 DEF MarkPublished, TypeOK, RelayState
    <3>2. CASE UNCHANGED storeVars
      BY <2>1, <3>2 DEF storeVars
    <3> QED
      BY <2>2, <3>1, <3>2, MarkSettles DEF MarkPublished
  <2>3. ASSUME NEW w \in Relay, RelayStep(w), ~MarkPublished(w), Next
        PROVE  UNCHANGED Promise!vars
    <3>1. \A i \in Incident : outbox[i].status = "PUBLISHED" => outbox'[i].status = "PUBLISHED"
      BY <2>3, RowSteps DEF Inserted, Waits, Settled, HoldsLease, NoEvent
    <3>2. ASSUME NEW i \in Incident, outbox'[i].status = "PUBLISHED"
          PROVE  outbox[i].status = "PUBLISHED"
      <4>1. outbox \in [Incident -> OutboxRow]
        BY DEF TypeOK, StoreTypeOK
      <4>2. CASE MarkFailed(w)
        <5>1. outbox'[i] = outbox[i] \/ outbox'[i] = [outbox[i] EXCEPT !.status = "PENDING",
                 !.lockedBy = None, !.expired = FALSE, !.due = FALSE]
          BY <4>1, <4>2 DEF MarkFailed, MarkFailedTx
        <5> QED
          BY <3>2, <4>1, <5>1, RowFields
      <4>3. ASSUME NEW S \in SUBSET Incident, Claim(w, S)
            PROVE  outbox[i].status = "PUBLISHED"
        <5>1. ASSUME i \in S PROVE FALSE
          <6>1. outbox'[i] = [outbox[i] EXCEPT !.status = "SENDING", !.lockedBy = w,
                                               !.attempts = @ + 1, !.expired = FALSE]
            BY <4>3, <5>1 DEF Claim, ClaimTx
          <6> QED
            BY <3>2, <4>1, <6>1, RowFields
        <5> QED
          BY <3>2, <4>3, <5>1 DEF Claim, ClaimTx
      <4> QED
        BY <2>3, <3>2, <4>2, <4>3
           DEF RelayStep, StartPublisher, Publish, PublishFails, MarkPublishedErrs, RelayStops, storeVars
    <3>3. UNCHANGED <<incidents, trail>>
      BY <2>3 DEF RelayStep, StartPublisher, Claim, ClaimTx, Publish, PublishFails, MarkPublishedErrs,
                  MarkFailed, MarkFailedTx, RelayStops, storeVars
    <3> QED
      BY <2>1, <3>1, <3>2, <3>3
  <2>4. ASSUME NEW c \in Consumer, ConsumerStep(c)
        PROVE  [Promise!Next]_(Promise!vars)
    <3>1. ASSUME NEW m \in consumer[c].inbox, Consume(c, m)
          PROVE  [Promise!Next]_(Promise!vars)
      <4>1. m[1] \in Incident
        BY DEF TypeOK, ConsumerState, Message
      <4> QED
        BY <3>1, <4>1, ConsumeQueues DEF Consume
    <3> QED
      BY <2>1, <2>4, <3>1 DEF ConsumerStep, Receive, Ack, ConsumerStops, storeVars
  <2>5. ASSUME NEW i \in Incident, RetryDue(i) \/ LeaseExpires(i), Next
        PROVE  UNCHANGED Promise!vars
    <3>1. \A j \in Incident : outbox'[j] = outbox[j] \/
            /\ outbox'[j].status = outbox[j].status
      <4> TAKE j \in Incident
      <4>1. outbox \in [Incident -> OutboxRow]
        BY DEF TypeOK, StoreTypeOK
      <4>2. \/ outbox'[j] = outbox[j]
            \/ outbox'[j] = [outbox[j] EXCEPT !.due = TRUE]
            \/ outbox'[j] = [outbox[j] EXCEPT !.expired = TRUE]
        BY <2>5, <4>1 DEF RetryDue, RetryBecomesDue, LeaseExpires, LeaseRunsOut
      <4> QED
        BY <4>1, <4>2, RowTimes
    <3> QED
      BY <2>1, <2>5, <3>1 DEF RetryDue, RetryBecomesDue, LeaseExpires, LeaseRunsOut
  <2>6. ASSUME NEW i \in Incident, NEW k \in Key, NEW b \in Body, Create(i, k, b)
        PROVE  [Promise!Next]_(Promise!vars)
    BY <2>6, CreateSubmits DEF Create
  <2>7. CASE UNCHANGED vars
    BY <2>1, <2>7 DEF vars, storeVars
  <2> QED
    BY <2>2, <2>3, <2>4, <2>5, <2>6, <2>7 DEF Next
<1> QED
  BY <1>1, <1>2, Typing, AuditTrail, PTL DEF Safety, KeepsPromise, Promise!Safety
=============================================================================
