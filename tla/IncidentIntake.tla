--------------------------- MODULE IncidentIntake ----------------------------
(***************************************************************************)
(* POST /incidents under an Idempotency-Key: concurrent calls of           *)
(* create_incident, with clients that retry a call they had no answer to.  *)
(* The call is a transaction followed, when the unique key refuses it, by  *)
(* reads on connections of their own; other calls, the relays and the      *)
(* consumers run between them.                                             *)
(***************************************************************************)
EXTENDS IncidentStore

CONSTANT Caller   \* requests the API works on at one time

VARIABLES
  call,      \* per caller: the request in progress
  answers    \* history: the answers clients have received

vars == <<storeVars, call, answers>>

Code == {"201", "200", "409"}
Answer == [key : Key, body : Body, code : Code, incident : Incident \cup {None}]

(* phase: "insert" - before the transaction; "created" - committed;        *)
(* "duplicate" - refused by the unique key; "found" - the existing         *)
(* incident is read, its fingerprint is still to be compared.              *)
Call ==
  [phase : {"idle", "insert", "created", "duplicate", "found"},
   key : Key \cup {None}, body : Body \cup {None}, incident : Incident \cup {None}]

Idle == [phase |-> "idle", key |-> None, body |-> None, incident |-> None]

(* The tables, the calls in progress and the answers have their shape; a   *)
(* call knows its incident once it has created or found it.                *)
TypeOK ==
  /\ StoreTypeOK
  /\ call \in [Caller -> Call]
  /\ \A c \in Caller : call[c].phase \in {"created", "found"} <=> call[c].incident # None
  /\ answers \subseteq Answer

Init ==
  /\ StoreInit
  /\ call = [c \in Caller |-> Idle]
  /\ answers = {}

-----------------------------------------------------------------------------
(* Mutated operations, as in IncidentStore.                                *)

(* The incident is looked for by an id that was rolled back.               *)
FindNothing(c) ==
  /\ call[c].phase = "duplicate"
  /\ call' = [call EXCEPT ![c].phase = "found"]
  /\ UNCHANGED <<storeVars, answers>>

(* The fingerprint takes in what differs from call to call.                *)
AnswerAlwaysConflict(c) ==
  /\ call[c].phase = "found"
  /\ answers' = answers \cup
       {[key |-> call[c].key, body |-> call[c].body, code |-> "409", incident |-> None]}
  /\ call' = [call EXCEPT ![c] = Idle]
  /\ UNCHANGED storeVars

-----------------------------------------------------------------------------
Request(c, k, b) ==
  /\ call[c] = Idle
  /\ call' = [call EXCEPT ![c] = [@ EXCEPT !.phase = "insert", !.key = k, !.body = b]]
  /\ UNCHANGED <<storeVars, answers>>

(* The INSERTs of the transaction: it commits, or the idempotency key is   *)
(* taken and it is rolled back.                                            *)
Insert(c) ==
  /\ call[c].phase = "insert"
  /\ \/ \E i \in Incident :
          /\ CreateTx(i, call[c].key, call[c].body)
          /\ call' = [call EXCEPT ![c] = [@ EXCEPT !.phase = "created", !.incident = i]]
     \/ /\ KeyTaken(call[c].key)
        /\ call' = [call EXCEPT ![c].phase = "duplicate"]
        /\ UNCHANGED storeVars
  /\ UNCHANGED answers

(* get_incident_by_idempotency_key                                         *)
FindExisting(c) ==
  /\ call[c].phase = "duplicate"
  /\ \E i \in Incident :
       /\ Exists(i)
       /\ incidents[i].key = call[c].key
       /\ call' = [call EXCEPT ![c] = [@ EXCEPT !.phase = "found", !.incident = i]]
  /\ UNCHANGED <<storeVars, answers>>

Respond(c, code, i) ==
  /\ answers' = answers \cup
       {[key |-> call[c].key, body |-> call[c].body, code |-> code, incident |-> i]}
  /\ call' = [call EXCEPT ![c] = Idle]
  /\ UNCHANGED storeVars

AnswerCreated(c) ==
  /\ call[c].phase = "created"
  /\ Respond(c, "201", call[c].incident)

(* _stored_fingerprint reads the row of the key once more.                 *)
StoredBody(k) == {incidents[i].body : i \in {j \in Incident : Exists(j) /\ incidents[j].key = k}}

AnswerDuplicate(c) ==
  /\ call[c].phase = "found"
  /\ IF StoredBody(call[c].key) = {call[c].body}
     THEN Respond(c, "200", call[c].incident)
     ELSE Respond(c, "409", None)

(* The process stops, the database is away, or the connection drops: no    *)
(* answer.  What was committed stays; the client is free to ask again.     *)
Abandon(c) ==
  /\ call[c].phase # "idle"
  /\ call' = [call EXCEPT ![c] = Idle]
  /\ UNCHANGED <<storeVars, answers>>

(* The rest of the system meanwhile queues incidents.                      *)
Queued(i) ==
  /\ ConsumeTx(i)
  /\ UNCHANGED <<call, answers>>

CallerStep(c) ==
  \/ \E k \in Key, b \in Body : Request(c, k, b)
  \/ Insert(c)
  \/ FindExisting(c)
  \/ AnswerCreated(c)
  \/ AnswerDuplicate(c)
  \/ Abandon(c)

Next ==
  \/ \E c \in Caller : CallerStep(c)
  \/ \E i \in Incident : Queued(i)

Spec == Init /\ [][Next]_vars

-----------------------------------------------------------------------------
Succeeded(a) == a.code \in {"201", "200"}

(* A key names one incident for ever: all successful answers under a key   *)
(* carry the same incident and were given for the same body, however the   *)
(* calls overlapped and whichever of them were retries.                    *)
OneIncidentPerKey ==
  \A a, d \in answers : Succeeded(a) /\ Succeeded(d) =>
    (a.key = d.key <=> a.incident = d.incident) /\ (a.key = d.key => a.body = d.body)

(* Under one key, a body is never both accepted and refused as a conflict. *)
NoFalseConflict ==
  \A a, d \in answers : Succeeded(a) /\ d.code = "409" /\ a.key = d.key => a.body # d.body

(* What an answer says stays true: the incident it names is stored, under  *)
(* its key and with its body, and its investigation has been requested.    *)
AnswersStand ==
  \A a \in answers : Succeeded(a) =>
    /\ incidents[a.incident].key = a.key
    /\ incidents[a.incident].body = a.body
    /\ outbox[a.incident].status # "ABSENT"
=============================================================================
