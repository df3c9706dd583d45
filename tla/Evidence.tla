------------------------------- MODULE Evidence ------------------------------
(***************************************************************************)
(* Evidence of an incident: a diagnostic tool observes the lab             *)
(* (typed_tools.py), its observation becomes a write-once file             *)
(* (evidence_storage.py) and then a row of the table evidence              *)
(* (evidence_repository.py); evidence_service.py drives one tool or a      *)
(* selection of tools that a planner model proposed, and reads contents    *)
(* back.                                                                   *)
(*                                                                         *)
(* Calls run in the API's worker threads, any number at a time.  Every     *)
(* database access, every request and every step on the file system that   *)
(* another process or a crash can tell apart is a step of its own.  A call *)
(* may end at any step: with an exception (Fail) or with its process       *)
(* (Stop).  Content stands for the bytes of an artifact and for their      *)
(* SHA-256 alike: two contents with one hash are not considered.           *)
(***************************************************************************)
EXTENDS Naturals, FiniteSets, Sequences, Functions

CONSTANTS
  Incident,
  Desired,     \* the kinds _missing_evidence_plan asks for, in its order
  Id,          \* the uuids that _persist may draw
  Call,        \* requests in progress at one time
  Content,     \* what an observation may say, as canonical bytes
  Torn,        \* the bytes of a file that is not wholly written
  None,        \* SQL NULL, and no file
  MaxFaults    \* failures, stops and damages

Kind == Range(Desired)

ASSUME EvidenceAssumption ==
  /\ Desired \in Seq(Kind) /\ IsInjective(Desired)
  /\ Torn \notin Content /\ None \notin Content \cup {Torn}
  /\ None \notin Incident \cup Id \cup Kind
  /\ MaxFaults \in Nat

VARIABLES
  incidents,   \* ids of table incidents
  rows,        \* table evidence
  temporary,   \* per id: the file .<id>.<pid>.tmp
  artifact,    \* per id: the file <incident>/<id>.json
  call,        \* the calls in progress
  observed,    \* history: what the tool saw, per id
  damaged,     \* history: the artifacts that something else has touched
  faults

files == <<temporary, artifact>>
history == <<observed, damaged>>
vars == <<incidents, rows, files, call, history, faults>>

Bytes == Content \cup {Torn}

Row == [incident : Incident, kind : Kind, sha : Content]

(* "told": a tool or a selection answers 201, "served": a content answers  *)
(* 200.                                                                    *)
Step ==
  {"idle", "check", "list", "plan", "observe", "link", "insert", "get", "told",
   "read", "served"}

(* tools: the kinds still to collect, the first of them next; before: the  *)
(* rows list_for_incident has answered, None before that and for a tool    *)
(* asked for by itself; ids: what this call has collected; id, content:    *)
(* the observation it is persisting, or the artifact it reads.             *)
CallState ==
  [step : Step, incident : Incident \cup {None}, tools : Seq(Kind),
   before : (SUBSET Id) \cup {None}, ids : SUBSET Id, id : Id \cup {None},
   content : Bytes \cup {None}]
Idle ==
  [step |-> "idle", incident |-> None, tools |-> <<>>, before |-> None,
   ids |-> {}, id |-> None, content |-> None]

NoRow == [incident |-> None]
Stored == {e \in Id : rows[e] # NoRow}
KindsOf(ids) == {rows[e].kind : e \in ids}

Persisting == {"link", "insert", "get"}

(* Tables, files and calls have their shape, and no two calls are about to *)
(* write under one id.                                                     *)
TypeOK ==
  /\ incidents \subseteq Incident
  /\ rows \in [Id -> Row \cup {NoRow}]
  /\ temporary \in [Id -> Bytes \cup {None}]
  /\ artifact \in [Id -> Bytes \cup {None}]
  /\ call \in [Call -> CallState]
  /\ \A c \in Call :
       /\ call[c].step \in {"observe", "link", "insert", "get"} => call[c].tools # <<>>
       /\ call[c].step \in {"link", "insert", "get"} => call[c].content # None
       /\ call[c].step \in {"link", "insert", "get", "read", "served"} <=> call[c].id # None
       /\ \A d \in Call \ {c} : call[c].step \in Persisting /\ call[d].step \in Persisting
                                => call[c].id # call[d].id
  /\ observed \in [Id -> Content \cup {None}]
  /\ damaged \subseteq Id
  /\ faults \in 0..MaxFaults

Init ==
  /\ incidents = {}
  /\ rows = [e \in Id |-> NoRow]
  /\ temporary = [e \in Id |-> None]
  /\ artifact = [e \in Id |-> None]
  /\ call = [c \in Call |-> Idle]
  /\ observed = [e \in Id |-> None]
  /\ damaged = {}
  /\ faults = 0

Fault == faults < MaxFaults /\ faults' = faults + 1

(* The incident repository commits an incident; none is ever deleted.      *)
IncidentAppears(i) ==
  /\ i \notin incidents
  /\ incidents' = incidents \cup {i}
  /\ UNCHANGED <<rows, files, call, history, faults>>

(* POST /incidents/{id}/tools/..., for one tool or for a selection.  It    *)
(* begins with _ensure_incident: for a missing incident the answer is 404, *)
(* no tool runs and nothing changes.                                       *)
AskTool(c, i, k) ==
  /\ call[c] = Idle
  /\ i \in incidents
  /\ call' = [call EXCEPT ![c] = [Idle EXCEPT !.step = "observe", !.incident = i, !.tools = <<k>>]]
  /\ UNCHANGED <<incidents, rows, files, history, faults>>

(* The read tools of the MCP server, which runs beside the API.            *)
McpKind == {"METRIC_SNAPSHOT", "SERVICE_HEALTH", "FAULT_STATE", "ORDER_FLOW_PROBE"}
CallMcpTool(c, i, k) == k \in McpKind /\ AskTool(c, i, k)

AskSelection(c, i) ==
  /\ call[c] = Idle
  /\ i \in incidents
  /\ call' = [call EXCEPT ![c] = [Idle EXCEPT !.step = "list", !.incident = i]]
  /\ UNCHANGED <<incidents, rows, files, history, faults>>

(* Each tool of a plan asks _ensure_incident again.                        *)
EnsureIncident(c) ==
  /\ call[c].step = "check"
  /\ call[c].incident \in incidents
  /\ call' = [call EXCEPT ![c].step = "observe"]
  /\ UNCHANGED <<incidents, rows, files, history, faults>>

RowsOf(i) == {e \in Stored : rows[e].incident = i}

ListForIncident(c) ==
  /\ call[c].step = "list"
  /\ call' = [call EXCEPT ![c].step = "plan", ![c].before = RowsOf(call[c].incident)]
  /\ UNCHANGED <<incidents, rows, files, history, faults>>

(* A selection asks for each kind at most once, in some order.             *)
Plan == {p \in UNION {[1..n -> Kind] : n \in 0..Len(Desired)} : IsInjective(p)}

Missing(existing) == Kind \ KindsOf(existing)

DesiredBefore(k, l) ==
  \E m, n \in DOMAIN Desired : m < n /\ Desired[m] = k /\ Desired[n] = l

(* _missing_evidence_plan: every kind not yet there, in the order of       *)
(* desired.                                                                *)
Fallback(existing) ==
  {p \in Plan : /\ Range(p) = Missing(existing)
                /\ \A m, n \in DOMAIN p : m < n => DesiredBefore(p[m], p[n])}

(* Mutated operation: a proposed tool is not looked up in the fallback.    *)
AcceptedAnyKind(existing) == {p \in Plan : Len(p) \in 1..2}

(* Of the planner's proposal the first two distinct tools that are missing *)
(* are taken, in its order and with the fallback's input.  It may name any *)
(* tools, up to ten of them.                                               *)
Accepted(existing) == {p \in Plan : Len(p) \in 1..2 /\ Range(p) \subseteq Missing(existing)}

(* What plan_tool_selection may return: the accepted tools, or the         *)
(* fallback when there are none, no planner, or one that raised.           *)
Plans(existing) == Fallback(existing) \cup Accepted(existing)

(* An empty selection is answered at once.                                 *)
PlanToolSelection(c) ==
  /\ call[c].step = "plan"
  /\ \E plan \in Plans(call[c].before) :
       call' = [call EXCEPT ![c].step = IF plan = <<>> THEN "told" ELSE "check", ![c].tools = plan]
  /\ UNCHANGED <<incidents, rows, files, history, faults>>

(* What a probed service may answer, as far as the tools tell it apart.    *)
Reply == {"ok", "not JSON", "error status", "nothing"}

(* Every tool raises on a failed request; an error status is an            *)
(* observation of the order flow only, and a body that is no JSON one of   *)
(* the health and order flow probes.  Prometheus reports an error status   *)
(* in its body as well.                                                    *)
Observes(k, reply) ==
  \/ reply = "ok"
  \/ reply = "not JSON" /\ k \in {"SERVICE_HEALTH", "ORDER_FLOW_PROBE"}
  \/ reply = "error status" /\ k = "ORDER_FLOW_PROBE"

(* Mutated operations: the artifact is written in place; an uuid is drawn  *)
(* that is in use.                                                         *)
ToolWritesInPlace(c, reply, e) ==
  /\ call[c].step = "observe"
  /\ Observes(Head(call[c].tools), reply)
  /\ observed[e] = None
  /\ artifact' = [artifact EXCEPT ![e] = Torn]
  /\ \E x \in Content :
       /\ observed' = [observed EXCEPT ![e] = x]
       /\ call' = [call EXCEPT ![c].step = "link", ![c].id = e, ![c].content = x]
  /\ UNCHANGED <<incidents, rows, temporary, damaged, faults>>
ToolDrawsUsedId(c, reply, e) ==
  /\ call[c].step = "observe"
  /\ Observes(Head(call[c].tools), reply)
  /\ rows[e] = NoRow
  /\ temporary' = [temporary EXCEPT ![e] = Torn]
  /\ \E x \in Content :
       /\ observed' = [observed EXCEPT ![e] = x]
       /\ call' = [call EXCEPT ![c].step = "link", ![c].id = e, ![c].content = x]
  /\ UNCHANGED <<incidents, rows, artifact, damaged, faults>>

(* The tool's observation is persisted: _persist draws a fresh uuid and    *)
(* storage.write opens the temporary file.  What another call or a crash   *)
(* can tell of these is the last.                                          *)
ToolExecutes(c, reply, e) ==
  /\ call[c].step = "observe"
  /\ Observes(Head(call[c].tools), reply)
  /\ observed[e] = None
  /\ temporary' = [temporary EXCEPT ![e] = Torn]
  /\ \E x \in Content :
       /\ observed' = [observed EXCEPT ![e] = x]
       /\ call' = [call EXCEPT ![c].step = "link", ![c].id = e, ![c].content = x]
  /\ UNCHANGED <<incidents, rows, artifact, damaged, faults>>

(* ToolExecutionError, answered 502.                                       *)
ToolFails(c, reply) ==
  /\ call[c].step = "observe"
  /\ ~Observes(Head(call[c].tools), reply)
  /\ call' = [call EXCEPT ![c] = Idle]
  /\ UNCHANGED <<incidents, rows, files, history, faults>>

(* storage.write fills and syncs the temporary file, links it to its final *)
(* name and unlinks it: in between, only the temporary file changes.       *)
LinkArtifact(c) ==
  /\ call[c].step = "link"
  /\ artifact[call[c].id] = None
  /\ artifact' = [artifact EXCEPT ![call[c].id] = call[c].content]
  /\ temporary' = [temporary EXCEPT ![call[c].id] = None]
  /\ call' = [call EXCEPT ![c].step = "insert"]
  /\ UNCHANGED <<incidents, rows, history, faults>>

(* repository.create: the insert commits, then the row is read back on     *)
(* another connection, and a selection goes on to its next tool.           *)
InsertRow(c) ==
  /\ call[c].step = "insert"
  /\ call[c].incident \in incidents
  /\ rows' = [rows EXCEPT ![call[c].id] =
                [incident |-> call[c].incident, kind |-> Head(call[c].tools), sha |-> call[c].content]]
  /\ call' = [call EXCEPT ![c].step = "get"]
  /\ UNCHANGED <<incidents, files, history, faults>>

GetRow(c) ==
  /\ call[c].step = "get"
  /\ rows[call[c].id] # NoRow
  /\ call' = [call EXCEPT ![c].step = IF Len(call[c].tools) = 1 THEN "told" ELSE "check",
                          ![c].tools = Tail(call[c].tools), ![c].ids = call[c].ids \cup {call[c].id},
                          ![c].id = None, ![c].content = None]
  /\ UNCHANGED <<incidents, rows, files, history, faults>>

(* read_content: 404 without a row; the file is read in another step, and  *)
(* a lost file or other bytes than the recorded hash are answered 409.     *)
ReadContent(c, e) ==
  /\ call[c] = Idle
  /\ rows[e] # NoRow
  /\ call' = [call EXCEPT ![c] = [Idle EXCEPT !.step = "read", !.id = e, !.content = rows[e].sha]]
  /\ UNCHANGED <<incidents, rows, files, history, faults>>

(* Mutated operation: the hash is not compared.                            *)
ReadUnverified(c) ==
  /\ call[c].step = "read"
  /\ call' = [call EXCEPT ![c] = IF artifact[call[c].id] # None
                                 THEN [call[c] EXCEPT !.step = "served", !.content = artifact[call[c].id]]
                                 ELSE Idle]
  /\ UNCHANGED <<incidents, rows, files, history, faults>>

ReadVerified(c) ==
  /\ call[c].step = "read"
  /\ call' = [call EXCEPT ![c] = IF artifact[call[c].id] = call[c].content
                                 THEN [call[c] EXCEPT !.step = "served", !.content = artifact[call[c].id]]
                                 ELSE Idle]
  /\ UNCHANGED <<incidents, rows, files, history, faults>>

Answer(c) ==
  /\ call[c].step \in {"told", "served"}
  /\ call' = [call EXCEPT ![c] = Idle]
  /\ UNCHANGED <<incidents, rows, files, history, faults>>

(* An exception of the database or the file system ends the call with an   *)
(* error; write's finally removes the temporary file.  The planner's       *)
(* exceptions are caught (Plans).                                          *)
Fail(c) ==
  /\ Fault
  /\ call[c].step \notin {"idle", "plan", "told", "served"}
  /\ temporary' = IF call[c].step = "link"
                  THEN [temporary EXCEPT ![call[c].id] = None] ELSE temporary
  /\ call' = [call EXCEPT ![c] = Idle]
  /\ UNCHANGED <<incidents, rows, artifact, history>>

(* The process of the call stops: the API server or the MCP server.        *)
Stop(c) ==
  /\ Fault
  /\ call[c] # Idle
  /\ call' = [call EXCEPT ![c] = Idle]
  /\ UNCHANGED <<incidents, rows, files, history>>

(* Someone else changes or removes an artifact, or a power failure does:   *)
(* the directory entry is not synced.                                      *)
Damage(e) ==
  /\ Fault
  /\ artifact[e] # None
  /\ \E bytes \in Bytes \cup {None} : artifact' = [artifact EXCEPT ![e] = bytes]
  /\ damaged' = damaged \cup {e}
  /\ UNCHANGED <<incidents, rows, temporary, call, observed>>

Next ==
  \/ \E i \in Incident : IncidentAppears(i)
  \/ \E c \in Call, i \in Incident :
       \/ \E k \in Kind : AskTool(c, i, k) \/ CallMcpTool(c, i, k)
       \/ AskSelection(c, i)
  \/ \E c \in Call :
       \/ EnsureIncident(c) \/ ListForIncident(c) \/ PlanToolSelection(c)
       \/ \E reply \in Reply : ToolFails(c, reply) \/ \E e \in Id : ToolExecutes(c, reply, e)
       \/ \E e \in Id : ReadContent(c, e)
       \/ LinkArtifact(c) \/ InsertRow(c) \/ GetRow(c)
       \/ ReadVerified(c) \/ Answer(c) \/ Fail(c) \/ Stop(c)
  \/ \E e \in Id : Damage(e)

Spec == Init /\ [][Next]_vars

(* A row always names a complete artifact with the content its tool        *)
(* observed, for an incident that exists, whatever failed, stopped or ran  *)
(* beside it: write comes before create, the file appears whole under its  *)
(* final name, and no other call writes there.  Only damage from outside   *)
(* may take it away; and what an answer of 201 names is stored.            *)
RowsBacked ==
  /\ \A e \in Id : artifact[e] \in {None, observed[e]} \/ e \in damaged
  /\ \A e \in Stored :
       /\ rows[e].sha = observed[e] /\ rows[e].incident \in incidents
       /\ artifact[e] = rows[e].sha \/ e \in damaged
  /\ \A c \in Call : call[c].step = "told" => call[c].ids \subseteq RowsOf(call[c].incident)

(* What read_content answers is what the tool had observed, also while     *)
(* artifacts are damaged between its read of the row and of the file.      *)
ServedIsObserved ==
  \A c \in Call : call[c].step = "served" => call[c].content = observed[call[c].id]

(* Whatever the planner proposes and however calls overlap, a selection    *)
(* collects only kinds that no row it had read has, so two selections that *)
(* both collected a kind overlapped, and what a selection that failed half *)
(* way has stored is not collected again.  One that is answered collected  *)
(* each of its kinds once, at least one if any was missing, and more than  *)
(* two only as the fallback, which leaves none missing.                    *)
SelectionFillsGaps ==
  \A c \in Call : call[c].before # None =>
    LET missing == Missing(call[c].before)
        collected == KindsOf(call[c].ids)
    IN /\ collected \subseteq missing
       /\ Cardinality(collected) = Cardinality(call[c].ids)
       /\ call[c].step = "told" =>
            /\ collected = {} => missing = {}
            /\ Cardinality(collected) > 2 => collected = missing
===============================================================================
