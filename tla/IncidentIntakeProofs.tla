------------------------- MODULE IncidentIntakeProofs -------------------------
(***************************************************************************)
(* Proofs about IncidentIntake, for every number of incidents, keys,       *)
(* bodies and calls in progress.                                           *)
(***************************************************************************)
EXTENDS IncidentIntake, TLAPS

(* The row of incident i was created under key k for body b.               *)
Holds(i, k, b) == Exists(i) /\ incidents[i].key = k /\ incidents[i].body = b

(* The inductive invariant.  The unique key of the table: *)
KeyUnique ==
  \A i, j \in Incident : Exists(i) /\ Exists(j) /\ incidents[i].key = incidents[j].key => i = j

(* an incident is never without its event: *)
EventStored == \A i \in Incident : Exists(i) => outbox[i].status # "ABSENT"

(* what a call knows is so in the tables: *)
Knows(x) ==
  /\ x.phase # "idle" => x.key \in Key /\ x.body \in Body
  /\ x.phase = "created" => Holds(x.incident, x.key, x.body)
  /\ x.phase = "found" => Exists(x.incident) /\ incidents[x.incident].key = x.key

(* and an answer speaks of a row: the one it names, or, if it is a         *)
(* conflict, the row that holds the key with another body.                 *)
SpeaksOfRow(a) ==
  /\ Succeeded(a) => a.incident \in Incident /\ Holds(a.incident, a.key, a.body)
  /\ a.code = "409" => \E i \in Incident : Holds(i, a.key, incidents[i].body) /\ a.body # incidents[i].body

IInv ==
  /\ TypeOK
  /\ KeyUnique
  /\ EventStored
  /\ \A c \in Caller : Knows(call[c])
  /\ \A a \in answers : SpeaksOfRow(a)

-----------------------------------------------------------------------------
(* The rows that the two transactions write are rows of their tables.      *)
LEMMA CreateTypes ==
  ASSUME StoreTypeOK, NEW i \in Incident, NEW k \in Key, NEW b \in Body, CreateTx(i, k, b)
  PROVE  StoreTypeOK'
<1>1. [status |-> "RECEIVED", version |-> 1, key |-> k, body |-> b] \in IncidentRow
  BY DEF IncidentRow, IncidentStatus
<1>2. <<"RECEIVED">> \in Seq(IncidentStatus)
  BY DEF IncidentStatus
<1>3. [NoEvent EXCEPT !.status = "PENDING", !.due = TRUE] \in OutboxRow
  BY DEF NoEvent, OutboxRow, OutboxStatus
<1> QED
  BY <1>1, <1>2, <1>3 DEF CreateTx, StoreTypeOK

(* What ConsumeTx writes.                                                  *)
LEMMA Queues ==
  ASSUME NEW row \in IncidentRow
  PROVE  /\ QueuedRow(row) \in IncidentRow
         /\ QueuedRow(row).status # "ABSENT"
         /\ QueuedRow(row).key = row.key
         /\ QueuedRow(row).body = row.body
<1>1. row.version + 1 \in Nat
  BY DEF IncidentRow
<1>2. ASSUME NEW v \in Nat
      PROVE  LET new == [row EXCEPT !.status = "INVESTIGATION_QUEUED", !.version = v]
             IN  /\ new \in IncidentRow /\ new.status # "ABSENT"
                 /\ new.key = row.key /\ new.body = row.body
  BY DEF IncidentRow, IncidentStatus
<1> QED
  BY <1>1, <1>2 DEF QueuedRow

(* Consuming leaves the tables typed.                                       *)
LEMMA ConsumeTypes ==
  ASSUME StoreTypeOK, NEW i \in Incident, ConsumeTx(i)
  PROVE  StoreTypeOK'
<1>1. QueuedRow(incidents[i]) \in IncidentRow
  BY Queues DEF StoreTypeOK
<1>2. Append(trail[i], "INVESTIGATION_QUEUED") \in Seq(IncidentStatus)
  BY DEF StoreTypeOK, IncidentStatus
<1> QED
  BY <1>1, <1>2 DEF ConsumeTx, StoreTypeOK, storeVars

(* No step takes an incident, its key, its body or its event away.         *)
Grows ==
  \A j \in Incident : Exists(j) =>
    /\ Exists(j)' /\ incidents'[j].key = incidents[j].key
    /\ incidents'[j].body = incidents[j].body
    /\ outbox'[j] = outbox[j]

(* Consuming adds a row and takes none away.                                *)
LEMMA ConsumeGrows ==
  ASSUME StoreTypeOK, NEW i \in Incident, ConsumeTx(i)
  PROVE  Grows /\ \A j \in Incident : Exists(j)' => Exists(j)
<1>1. CASE UNCHANGED storeVars
  BY <1>1 DEF storeVars, Exists, Grows
<1>2. CASE Exists(i) /\ outbox' = outbox /\ incidents' = [incidents EXCEPT ![i] = QueuedRow(@)]
  <2>1. incidents[i] \in IncidentRow
    BY DEF StoreTypeOK
  <2> QED
    BY <1>2, <2>1, Queues DEF StoreTypeOK, Exists, Grows
<1>3. CASE UNCHANGED <<incidents, outbox>>
  BY <1>3 DEF Exists, Grows
<1> QED
  BY <1>1, <1>2, <1>3 DEF ConsumeTx

(* Creating adds the rows of one incident, under its key and body.          *)
LEMMA CreateGrows ==
  ASSUME StoreTypeOK, NEW i \in Incident, NEW k \in Key, NEW b \in Body, CreateTx(i, k, b)
  PROVE  Grows /\ Holds(i, k, b)' /\ \A j \in Incident \ {i} : Exists(j)' => Exists(j)
BY DEF CreateTx, StoreTypeOK, Exists, Grows, Holds

(* So what is known of the rows goes on to hold.                           *)
LEMMA KnowledgeKeeps ==
  ASSUME StoreTypeOK, Grows
  PROVE  /\ \A x \in Call :
              Knows(x) /\ (x.phase \in {"created", "found"} => x.incident \in Incident)
              => Knows(x)'
         /\ \A a \in Answer : SpeaksOfRow(a) => SpeaksOfRow(a)'
<1>1. ASSUME NEW x \in Call, Knows(x), x.phase \in {"created", "found"} => x.incident \in Incident
      PROVE  Knows(x)'
  BY <1>1 DEF Grows, Knows, Holds
<1>2. ASSUME NEW a \in Answer, SpeaksOfRow(a)
      PROVE  SpeaksOfRow(a)'
  BY <1>2 DEF Grows, SpeaksOfRow, Holds, Succeeded
<1> QED
  BY <1>1, <1>2

(* A call that has created or found an incident knows which.               *)
LEMMA CallHasIncident ==
  ASSUME TypeOK, NEW c \in Caller, call[c].phase \in {"created", "found"}
  PROVE  call[c].incident \in Incident
BY DEF TypeOK, Call

(* A step that leaves the tables alone.                                    *)
LEMMA TablesStay ==
  ASSUME IInv, UNCHANGED storeVars
  PROVE  StoreTypeOK' /\ Grows /\ KeyUnique' /\ EventStored'
BY DEF IInv, TypeOK, StoreTypeOK, storeVars, Grows, KeyUnique, EventStored, Exists

(* A step that changes the record of one call and no answer needs to       *)
(* establish what that call knows.                                         *)
LEMMA CallMoves ==
  ASSUME IInv, Grows, StoreTypeOK', KeyUnique', EventStored', NEW c \in Caller, NEW x \in Call,
         call' = [call EXCEPT ![c] = x], answers' = answers,
         x.phase \in {"created", "found"} <=> x.incident # None, Knows(x)'
  PROVE  IInv'
<1>1. TypeOK'
  BY DEF IInv, TypeOK
<1>2. ASSUME NEW d \in Caller
      PROVE  Knows(call[d])'
  BY KnowledgeKeeps, CallHasIncident DEF IInv, TypeOK
<1>3. ASSUME NEW a \in answers
      PROVE  SpeaksOfRow(a)'
  BY KnowledgeKeeps DEF IInv, TypeOK
<1> QED
  BY <1>1, <1>2, <1>3 DEF IInv

(* An answer ends its call.                                                *)
LEMMA AnswerGiven ==
  ASSUME IInv, NEW c \in Caller, call[c].phase # "idle", NEW code \in Code,
         NEW i \in Incident \cup {None}, Respond(c, code, i),
         SpeaksOfRow([key |-> call[c].key, body |-> call[c].body, code |-> code, incident |-> i])
  PROVE  IInv'
<1> DEFINE a == [key |-> call[c].key, body |-> call[c].body, code |-> code, incident |-> i]
<1>1. StoreTypeOK /\ StoreTypeOK' /\ Grows /\ KeyUnique' /\ EventStored'
  BY TablesStay DEF Respond, IInv, TypeOK
<1>2. a \in Answer
  BY DEF IInv, Knows, Answer
<1>3. Idle \in Call /\ Idle.phase = "idle" /\ Idle.incident = None
  BY DEF Idle, Call
<1>4. TypeOK'
  BY <1>1, <1>2, <1>3 DEF IInv, TypeOK, Respond
<1>5. ASSUME NEW d \in Caller
      PROVE  Knows(call[d])'
  <2>1. CASE d = c
    BY <1>3, <2>1 DEF Respond, Knows, IInv, TypeOK
  <2>2. CASE d # c
    BY <1>1, <2>2, KnowledgeKeeps, CallHasIncident DEF Respond, IInv, TypeOK
  <2> QED
    BY <2>1, <2>2
<1>6. ASSUME NEW d \in answers'
      PROVE  SpeaksOfRow(d)'
  <2>1. d \in Answer /\ SpeaksOfRow(d)
    BY <1>2 DEF Respond, IInv, TypeOK
  <2> QED
    BY <1>1, <2>1, KnowledgeKeeps
<1> QED
  BY <1>1, <1>4, <1>5, <1>6 DEF IInv

-----------------------------------------------------------------------------
(* Every reachable state satisfies the inductive invariant.                *)
THEOREM Inductive == Spec => []IInv
<1> USE StoreAssumption
<1>1. Init => IInv
  <2> SUFFICES ASSUME Init PROVE IInv
    OBVIOUS
  <2>1. <<>> \in Seq(IncidentStatus)
    OBVIOUS
  <2>2. StoreTypeOK
    BY <2>1 DEF Init, StoreInit, StoreTypeOK, NoIncident, NoEvent, IncidentRow, OutboxRow
  <2>3. TypeOK
    BY <2>2 DEF Init, TypeOK, Idle, Call
  <2>4. \A i \in Incident : ~Exists(i)
    BY DEF Init, StoreInit, NoIncident, Exists
  <2> QED
    BY <2>3, <2>4 DEF Init, IInv, Idle, KeyUnique, EventStored, Knows
<1>2. IInv /\ [Next]_vars => IInv'
  <2> SUFFICES ASSUME IInv, [Next]_vars PROVE IInv'
    OBVIOUS
  <2>0. TypeOK /\ StoreTypeOK /\ KeyUnique /\ EventStored
    BY DEF IInv, TypeOK
  <2>1. ASSUME NEW c \in Caller, NEW k \in Key, NEW b \in Body, Request(c, k, b)
        PROVE  IInv'
    <3> PICK x : x = [Idle EXCEPT !.phase = "insert", !.key = k, !.body = b]
      OBVIOUS
    <3>1. x \in Call /\ x.phase = "insert" /\ x.incident = None /\ x.key = k /\ x.body = b
      BY DEF Idle, Call
    <3>2. call' = [call EXCEPT ![c] = x] /\ UNCHANGED <<storeVars, answers>>
      BY <2>1 DEF Request
    <3>3. Knows(x)'
      BY <3>1 DEF Knows
    <3> QED
      BY <3>1, <3>2, <3>3, TablesStay, CallMoves
  <2>2. ASSUME NEW c \in Caller, Insert(c)
        PROVE  IInv'
    <3>1. call[c] \in Call /\ call[c].key \in Key /\ call[c].body \in Body /\ call[c].incident = None
      BY <2>0, <2>2 DEF Insert, IInv, TypeOK, Knows
    <3>2. ASSUME NEW i \in Incident, CreateTx(i, call[c].key, call[c].body),
                 call' = [call EXCEPT ![c] = [@ EXCEPT !.phase = "created", !.incident = i]]
          PROVE  IInv'
      <4> PICK k \in Key, b \in Body : k = call[c].key /\ b = call[c].body
        BY <3>1
      <4> PICK x : x = [call[c] EXCEPT !.phase = "created", !.incident = i]
        OBVIOUS
      <4>1. x \in Call /\ x.phase = "created" /\ x.incident = i
            /\ x.key = k /\ x.body = b
        BY <3>1 DEF Call
      <4>2. StoreTypeOK' /\ Grows /\ Holds(i, k, b)'
            /\ \A j \in Incident \ {i} : Exists(j)' => Exists(j)
        BY <2>0, <3>1, <3>2, CreateTypes, CreateGrows
      <4>3. KeyUnique'
        BY <2>0, <3>2, <4>2 DEF KeyUnique, CreateTx, KeyTaken, Holds, Grows
      <4>4. EventStored'
        <5>1. outbox'[i].status = "PENDING"
          BY <2>0, <3>2 DEF CreateTx, NoEvent, StoreTypeOK
        <5> QED
          BY <2>0, <4>2, <5>1 DEF EventStored, Grows
      <4>5. Knows(x)'
        BY <3>1, <4>1, <4>2 DEF Knows, Holds
      <4> QED
        BY <2>2, <3>2, <4>1, <4>2, <4>3, <4>4, <4>5, CallMoves DEF Insert
    <3>3. ASSUME call' = [call EXCEPT ![c].phase = "duplicate"], UNCHANGED storeVars
          PROVE  IInv'
      <4> PICK x : x = [call[c] EXCEPT !.phase = "duplicate"]
        OBVIOUS
      <4>1. x \in Call /\ x.phase = "duplicate" /\ x.incident = None
            /\ x.key = call[c].key /\ x.body = call[c].body
        BY <3>1 DEF Call
      <4>2. Knows(x)'
        BY <3>1, <4>1 DEF Knows
      <4>3. call' = [call EXCEPT ![c] = x]
        BY <3>3
      <4> QED
        BY <2>2, <3>3, <4>1, <4>2, <4>3, TablesStay, CallMoves DEF Insert
    <3> QED
      BY <2>2, <3>2, <3>3 DEF Insert
  <2>3. ASSUME NEW c \in Caller, FindExisting(c)
        PROVE  IInv'
    <3>1. call[c] \in Call /\ call[c].key \in Key /\ call[c].body \in Body
      BY <2>0, <2>3 DEF FindExisting, IInv, TypeOK, Knows
    <3> PICK i \in Incident :
          /\ Exists(i) /\ incidents[i].key = call[c].key
          /\ call' = [call EXCEPT ![c] = [@ EXCEPT !.phase = "found", !.incident = i]]
      BY <2>3 DEF FindExisting
    <3> PICK x : x = [call[c] EXCEPT !.phase = "found", !.incident = i]
      OBVIOUS
    <3>2. x \in Call /\ x.phase = "found" /\ x.incident = i
          /\ x.key = call[c].key /\ x.body = call[c].body
      BY <3>1 DEF Call
    <3>3. UNCHANGED <<storeVars, answers>> /\ call' = [call EXCEPT ![c] = x]
      BY <2>3 DEF FindExisting
    <3>4. Knows(x)'
      BY <3>1, <3>2, <3>3 DEF Knows, Exists, storeVars
    <3> QED
      BY <3>2, <3>3, <3>4, TablesStay, CallMoves
  <2>4. ASSUME NEW c \in Caller, AnswerCreated(c)
        PROVE  IInv'
    <3>1. Holds(call[c].incident, call[c].key, call[c].body) /\ call[c].incident \in Incident
      BY <2>0, <2>4, CallHasIncident DEF AnswerCreated, IInv, Knows
    <3>2. SpeaksOfRow([key |-> call[c].key, body |-> call[c].body,
                       code |-> "201", incident |-> call[c].incident])
      BY <3>1 DEF SpeaksOfRow, Succeeded
    <3> QED
      BY <2>4, <3>1, <3>2, AnswerGiven DEF AnswerCreated, Code
  <2>5. ASSUME NEW c \in Caller, AnswerDuplicate(c)
        PROVE  IInv'
    <3> DEFINE i == call[c].incident
    <3>1. i \in Incident /\ Exists(i) /\ incidents[i].key = call[c].key
      BY <2>0, <2>5, CallHasIncident DEF AnswerDuplicate, IInv, Knows
    <3>2. StoredBody(call[c].key) = {incidents[i].body}
      BY <2>0, <3>1 DEF StoredBody, KeyUnique
    <3>3. CASE incidents[i].body = call[c].body
      <4>1. SpeaksOfRow([key |-> call[c].key, body |-> call[c].body, code |-> "200", incident |-> i])
        BY <3>1, <3>3 DEF SpeaksOfRow, Succeeded, Holds
      <4>2. Respond(c, "200", i)
        BY <2>5, <3>2, <3>3 DEF AnswerDuplicate
      <4> QED
        BY <2>5, <3>1, <4>1, <4>2, AnswerGiven DEF AnswerDuplicate, Code
    <3>4. CASE incidents[i].body # call[c].body
      <4>1. SpeaksOfRow([key |-> call[c].key, body |-> call[c].body, code |-> "409", incident |-> None])
        BY <3>1, <3>4 DEF SpeaksOfRow, Succeeded, Holds
      <4>2. Respond(c, "409", None)
        BY <2>5, <3>2, <3>4 DEF AnswerDuplicate
      <4> QED
        BY <2>5, <3>1, <4>1, <4>2, AnswerGiven DEF AnswerDuplicate, Code
    <3> QED
      BY <3>3, <3>4
  <2>6. ASSUME NEW c \in Caller, Abandon(c)
        PROVE  IInv'
    <3>1. Idle \in Call /\ Idle.phase = "idle" /\ Idle.incident = None
      BY DEF Idle, Call
    <3>2. Knows(Idle)'
      BY <3>1 DEF Knows
    <3> QED
      BY <2>6, <3>1, <3>2, TablesStay, CallMoves DEF Abandon
  <2>7. ASSUME NEW i \in Incident, Queued(i)
        PROVE  IInv'
    <3>1. StoreTypeOK' /\ Grows /\ \A j \in Incident : Exists(j)' => Exists(j)
      BY <2>0, <2>7, ConsumeTypes, ConsumeGrows DEF Queued
    <3>2. KeyUnique' /\ EventStored'
      BY <2>0, <3>1 DEF KeyUnique, EventStored, Grows
    <3>3. TypeOK'
      BY <2>0, <2>7, <3>1 DEF Queued, TypeOK
    <3>4. \A c \in Caller : Knows(call[c])'
      BY <2>0, <2>7, <3>1, KnowledgeKeeps, CallHasIncident DEF Queued, IInv, TypeOK
    <3>5. \A a \in answers : SpeaksOfRow(a)'
      BY <2>0, <3>1, KnowledgeKeeps DEF IInv, TypeOK
    <3> QED
      BY <2>7, <3>2, <3>3, <3>4, <3>5 DEF Queued, IInv
  <2>8. CASE UNCHANGED vars
    <3>1. UNCHANGED storeVars /\ UNCHANGED <<call, answers>>
      BY <2>8 DEF vars
    <3>2. StoreTypeOK' /\ Grows /\ KeyUnique' /\ EventStored'
      BY <3>1, TablesStay
    <3>3. TypeOK'
      BY <2>0, <3>1, <3>2 DEF TypeOK
    <3>4. (\A c \in Caller : Knows(call[c])') /\ (\A a \in answers : SpeaksOfRow(a)')
      BY <2>0, <3>1, <3>2, KnowledgeKeeps, CallHasIncident DEF IInv, TypeOK
    <3> QED
      BY <3>1, <3>2, <3>3, <3>4 DEF IInv
  <2> QED
    BY <2>1, <2>2, <2>3, <2>4, <2>5, <2>6, <2>7, <2>8 DEF Next, CallerStep
<1> QED
  BY <1>1, <1>2, PTL DEF Spec

(* The tables, the calls and the answers keep their shape.                 *)
THEOREM Typing == Spec => []TypeOK
<1>1. IInv => TypeOK
  BY DEF IInv
<1> QED
  BY <1>1, Inductive, PTL

(* A key names one incident for ever, however the calls under it overlap,  *)
(* are abandoned and retried (create_incident, repository.py).             *)
THEOREM KeyNamesOneIncident == Spec => []OneIncidentPerKey
<1>1. IInv => OneIncidentPerKey
  BY DEF IInv, KeyUnique, SpeaksOfRow, Holds, OneIncidentPerKey
<1> QED
  BY <1>1, Inductive, PTL

(* No body is both accepted under a key and refused as a conflict with it  *)
(* (the comparison of fingerprints in create_incident).                    *)
THEOREM ConflictsAreTrue == Spec => []NoFalseConflict
<1>1. IInv => NoFalseConflict
  BY DEF IInv, KeyUnique, SpeaksOfRow, Holds, NoFalseConflict
<1> QED
  BY <1>1, Inductive, PTL

(* An answered incident stays stored as it was answered, and with its      *)
(* investigation requested (create_incident is one transaction).           *)
THEOREM AnswersKept == Spec => []AnswersStand
<1>1. IInv => AnswersStand
  BY DEF IInv, EventStored, SpeaksOfRow, Holds, AnswersStand
<1> QED
  BY <1>1, Inductive, PTL
=============================================================================
