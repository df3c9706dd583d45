---------------------------- MODULE IncidentStore ----------------------------
(***************************************************************************)
(* The MySQL tables of the incident path and the transactions of           *)
(* IncidentRepository over them.  A transaction of Database.transaction    *)
(* commits or rolls back as a whole, and the rows two of them would both   *)
(* change are locked, so each is one operator here: it is the guard and    *)
(* the effect of a committed transaction.  The processes that call them    *)
(* are the modules that extend this one.                                   *)
(*                                                                         *)
(* An incident is named by its uuid, and so is its outbox event: both      *)
(* uuids are drawn by the same call and inserted by the same transaction.  *)
(* Times are kept as what the queries ask of them: "due" stands for        *)
(* available_at <= now, "expired" for locked_at older than the lease.      *)
(***************************************************************************)
EXTENDS Naturals, FiniteSets, Sequences

CONSTANTS
  Incident,     \* the uuids that create_incident may draw
  Key,          \* idempotency keys
  Body,         \* request bodies, that is their fingerprints
  Relay,        \* relay processes, the worker ids
  None,         \* SQL NULL
  BatchLimit    \* the LIMIT of claim_outbox

ASSUME StoreAssumption ==
  /\ None \notin (Incident \cup Key \cup Body \cup Relay)
  /\ BatchLimit \in Nat \ {0}

VARIABLES
  incidents,    \* table incidents, by id
  trail,        \* table incident_events: the statuses recorded, by incident
  outbox,       \* table outbox_events, by incident
  processed     \* table processed_messages: the events the group has applied

storeVars == <<incidents, trail, outbox, processed>>

IncidentStatus == {"RECEIVED", "INVESTIGATION_QUEUED"}
OutboxStatus == {"PENDING", "SENDING", "PUBLISHED"}

NoIncident == [status |-> "ABSENT", version |-> 0, key |-> None, body |-> None]
NoEvent == [status |-> "ABSENT", lockedBy |-> None, attempts |-> 0,
            due |-> FALSE, expired |-> FALSE, message |-> 0]

IncidentRow ==
  [status : IncidentStatus \cup {"ABSENT"}, version : Nat,
   key : Key \cup {None}, body : Body \cup {None}]
OutboxRow ==
  [status : OutboxStatus \cup {"ABSENT"}, lockedBy : Relay \cup {None},
   attempts : Nat, due : BOOLEAN, expired : BOOLEAN, message : Nat]

StoreTypeOK ==
  /\ incidents \in [Incident -> IncidentRow]
  /\ trail \in [Incident -> Seq(IncidentStatus)]
  /\ outbox \in [Incident -> OutboxRow]
  /\ processed \subseteq Incident

StoreInit ==
  /\ incidents = [i \in Incident |-> NoIncident]
  /\ trail = [i \in Incident |-> <<>>]
  /\ outbox = [i \in Incident |-> NoEvent]
  /\ processed = {}

Exists(i) == incidents[i].status # "ABSENT"
QueuedRow(row) == [row EXCEPT !.status = "INVESTIGATION_QUEUED", !.version = @ + 1]
KeyTaken(k) == \E i \in Incident : Exists(i) /\ incidents[i].key = k

-----------------------------------------------------------------------------
(* Mutated operations.  No specification uses them: each is a bug that the *)
(* operation it varies could have, and that a property must notice.        *)

(* The table lacks its unique key.                                         *)
CreateWithoutUniqueKey(i, k, b) ==
  /\ ~Exists(i)
  /\ incidents' = [incidents EXCEPT
       ![i] = [status |-> "RECEIVED", version |-> 1, key |-> k, body |-> b]]
  /\ trail' = [trail EXCEPT ![i] = <<"RECEIVED">>]
  /\ outbox' = [outbox EXCEPT ![i] = [NoEvent EXCEPT !.status = "PENDING", !.due = TRUE]]
  /\ UNCHANGED processed

(* The event is left to a transaction of its own.                          *)
CreateWithoutEvent(i, k, b) ==
  /\ ~Exists(i)
  /\ ~KeyTaken(k)
  /\ incidents' = [incidents EXCEPT
       ![i] = [status |-> "RECEIVED", version |-> 1, key |-> k, body |-> b]]
  /\ trail' = [trail EXCEPT ![i] = <<"RECEIVED">>]
  /\ UNCHANGED <<outbox, processed>>

(* Events locked by a relay are never claimed again.                       *)
ClaimablePendingOnly == {i \in Incident : outbox[i].due /\ outbox[i].status = "PENDING"}

(* The WHERE forgets whose lease it is.                                    *)
LeaseOfAnyone(w, i) == outbox[i].status = "SENDING"

(* A status the table's CHECK does not list.                               *)
MarkPublishedAsSent(w, i, m) ==
  /\ outbox[i].status = "SENDING" /\ outbox[i].lockedBy = w
  /\ outbox' = [outbox EXCEPT ![i] = [@ EXCEPT !.status = "SENT", !.lockedBy = None, !.message = m]]
  /\ UNCHANGED <<incidents, trail, processed>>

(* mark_failed without its WHERE on status and lease.                      *)
MarkFailedAlways(w, i) ==
  /\ outbox' = [outbox EXCEPT ![i] =
       [@ EXCEPT !.status = "PENDING", !.lockedBy = None, !.expired = FALSE, !.due = FALSE]]
  /\ UNCHANGED <<incidents, trail, processed>>

(* The processed row commits before the effect does.                       *)
ConsumeMarkerFirst(i) ==
  /\ Exists(i)
  /\ processed' = processed \cup {i}
  /\ IF i \in processed /\ incidents[i].status = "RECEIVED"
     THEN /\ incidents' = [incidents EXCEPT ![i] = QueuedRow(@)]
          /\ trail' = [trail EXCEPT ![i] = Append(@, "INVESTIGATION_QUEUED")]
     ELSE UNCHANGED <<incidents, trail>>
  /\ UNCHANGED outbox

(* Neither the processed row nor the status is looked at.                  *)
ConsumeEveryDelivery(i) ==
  /\ Exists(i)
  /\ processed' = processed \cup {i}
  /\ incidents' = [incidents EXCEPT ![i] = QueuedRow(@)]
  /\ trail' = [trail EXCEPT ![i] = Append(@, "INVESTIGATION_QUEUED")]
  /\ UNCHANGED outbox

(* The IntegrityError of a duplicate is not caught: it is never consumed.  *)
ConsumeRaisesOnDuplicate(i) ==
  /\ i \notin processed
  /\ Exists(i)
  /\ processed' = processed \cup {i}
  /\ incidents' = [incidents EXCEPT ![i] = QueuedRow(@)]
  /\ trail' = [trail EXCEPT ![i] = Append(@, "INVESTIGATION_QUEUED")]
  /\ UNCHANGED outbox

-----------------------------------------------------------------------------
(* create_incident: the incident, its first audit entry and its outbox     *)
(* event are inserted together; the unique key refuses a second incident.  *)
CreateTx(i, k, b) ==
  /\ ~Exists(i)
  /\ ~KeyTaken(k)
  /\ incidents' = [incidents EXCEPT
       ![i] = [status |-> "RECEIVED", version |-> 1, key |-> k, body |-> b]]
  /\ trail' = [trail EXCEPT ![i] = <<"RECEIVED">>]
  /\ outbox' = [outbox EXCEPT ![i] = [NoEvent EXCEPT !.status = "PENDING", !.due = TRUE]]
  /\ UNCHANGED processed

-----------------------------------------------------------------------------
(* claim_outbox: due events, never claimed or with an expired lease.       *)
Claimable ==
  {i \in Incident : /\ outbox[i].due
                    /\ \/ outbox[i].status = "PENDING"
                       \/ outbox[i].status = "SENDING" /\ outbox[i].expired}

(* SKIP LOCKED leaves out the rows that another relay's open transaction   *)
(* holds, so a claim takes some of the claimable rows, up to the limit.    *)
(* (ORDER BY created_at says which of them; no property here depends on    *)
(* it, and every choice it could make is among these.)                     *)
ClaimTx(w, S) ==
  /\ S \subseteq Claimable
  /\ S # {}
  /\ Cardinality(S) <= BatchLimit
  /\ outbox' = [i \in Incident |->
       IF i \in S
       THEN [outbox[i] EXCEPT !.status = "SENDING", !.lockedBy = w,
                              !.attempts = @ + 1, !.expired = FALSE]
       ELSE outbox[i]]
  /\ UNCHANGED <<incidents, trail, processed>>

(* The WHERE of mark_published and of mark_failed.                         *)
HoldsLease(w, i) == outbox[i].status = "SENDING" /\ outbox[i].lockedBy = w

MarkPublishedTx(w, i, m) ==
  /\ HoldsLease(w, i)
  /\ outbox' = [outbox EXCEPT
       ![i] = [@ EXCEPT !.status = "PUBLISHED", !.lockedBy = None,
                        !.expired = FALSE, !.message = m]]
  /\ UNCHANGED <<incidents, trail, processed>>

(* mark_failed does not look at rowcount: without the lease nothing is     *)
(* changed and nothing is said.                                            *)
MarkFailedTx(w, i) ==
  /\ outbox' = IF HoldsLease(w, i)
               THEN [outbox EXCEPT
                      ![i] = [@ EXCEPT !.status = "PENDING", !.lockedBy = None,
                                       !.expired = FALSE, !.due = FALSE]]
               ELSE outbox
  /\ UNCHANGED <<incidents, trail, processed>>

-----------------------------------------------------------------------------
(* consume_investigation_requested: the unique processed_messages row is   *)
(* inserted first; a second insertion is an IntegrityError, which rolls    *)
(* the transaction back and answers False.  RECEIVED is the only status    *)
(* the incident moves from.                                                *)
ConsumeTx(i) ==
  \/ /\ i \in processed
     /\ UNCHANGED storeVars
  \/ /\ i \notin processed
     /\ Exists(i)
     /\ processed' = processed \cup {i}
     /\ IF incidents[i].status = "RECEIVED"
        THEN /\ incidents' = [incidents EXCEPT ![i] = QueuedRow(@)]
             /\ trail' = [trail EXCEPT ![i] = Append(@, "INVESTIGATION_QUEUED")]
        ELSE UNCHANGED <<incidents, trail>>
     /\ UNCHANGED outbox

-----------------------------------------------------------------------------
(* Time passing, as the claim query sees it.                               *)
RetryBecomesDue(i) ==
  /\ outbox[i].status = "PENDING"
  /\ ~outbox[i].due
  /\ outbox' = [outbox EXCEPT ![i].due = TRUE]
  /\ UNCHANGED <<incidents, trail, processed>>

LeaseRunsOut(i) ==
  /\ outbox[i].status = "SENDING"
  /\ ~outbox[i].expired
  /\ outbox' = [outbox EXCEPT ![i].expired = TRUE]
  /\ UNCHANGED <<incidents, trail, processed>>
=============================================================================
