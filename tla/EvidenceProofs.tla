---------------------------- MODULE EvidenceProofs ----------------------------
(***************************************************************************)
(* Proofs about Evidence, for every number of incidents, uuids, kinds,     *)
(* calls, contents and faults.                                             *)
(***************************************************************************)
EXTENDS Evidence, FiniteSetTheorems, SequenceTheorems, TLAPS

(* The part of TypeOK about tables and files, and its parts about calls.   *)
TablesOK ==
  /\ incidents \subseteq Incident
  /\ rows \in [Id -> Row \cup {NoRow}]
  /\ temporary \in [Id -> Bytes \cup {None}]
  /\ artifact \in [Id -> Bytes \cup {None}]
  /\ observed \in [Id -> Content \cup {None}]
  /\ damaged \subseteq Id
  /\ faults \in 0..MaxFaults

Shaped(w) ==
  /\ w.step \in {"observe", "link", "insert", "get"} => w.tools # <<>>
  /\ w.step \in {"link", "insert", "get"} => w.content # None
  /\ w.step \in {"link", "insert", "get", "read", "served"} <=> w.id # None

WritesAlone(w, c) ==
  w.step \in Persisting =>
    \A d \in Call \ {c} : call[d].step \in Persisting => w.id # call[d].id

(* The inductive invariant.  Nothing exists under an uuid not yet drawn,   *)
(* and files and rows have the content that was observed:                  *)
Untouched == \A e \in Id : observed[e] = None => artifact[e] = None /\ rows[e] = NoRow

FilesHold == \A e \in Id : artifact[e] \in {None, observed[e]} \/ e \in damaged

RowsHold ==
  \A e \in Stored :
    /\ rows[e].sha = observed[e] /\ rows[e].incident \in incidents
    /\ artifact[e] = rows[e].sha \/ e \in damaged

(* what a call is about to write is what was observed, its file comes      *)
(* before its row, and the row before it goes on:                          *)
Writes(w) ==
  /\ w.step \in {"link", "insert"} => rows[w.id] = NoRow /\ w.content = observed[w.id]
  /\ w.step = "insert" => artifact[w.id] = w.content \/ w.id \in damaged
  /\ w.step = "get" => w.id \in RowsOf(w.incident) /\ rows[w.id].kind = Head(w.tools)

Reads(w) == w.step \in {"read", "served"} => w.id \in Stored /\ w.content = rows[w.id].sha

(* and a selection has collected and has still to collect different kinds, *)
(* all of them missing, at most two of them or all.                        *)
Gathers(w) ==
  /\ w.ids \subseteq RowsOf(w.incident)
  /\ w.step \in {"list", "plan"} => w.ids = {} /\ w.tools = <<>>
  /\ w.step = "check" => w.tools # <<>>
  /\ w.step = "told" => w.tools = <<>>

Selects(w) ==
  w.before # None =>
    /\ w.before \subseteq Stored
    /\ IsFiniteSet(w.ids)
    /\ \A d, e \in w.ids : rows[d].kind = rows[e].kind => d = e
    /\ IsInjective(w.tools)
    /\ KindsOf(w.ids) \cup Range(w.tools) \subseteq Missing(w.before)
    /\ KindsOf(w.ids) \cap Range(w.tools) = {}
    /\ w.step # "plan" =>
         \/ Len(w.tools) + Cardinality(w.ids) \in 1..2
         \/ KindsOf(w.ids) \cup Range(w.tools) = Missing(w.before)

Holds(w) == Writes(w) /\ Reads(w) /\ Gathers(w) /\ Selects(w)

IInv ==
  /\ TypeOK
  /\ Untouched /\ FilesHold /\ RowsHold
  /\ \A c \in Call : Holds(call[c])

-----------------------------------------------------------------------------
(* TypeOK, taken apart.                                                    *)
LEMMA TypeParts ==
  TypeOK <=> /\ TablesOK
             /\ call \in [Call -> CallState]
             /\ \A c \in Call : Shaped(call[c]) /\ WritesAlone(call[c], c)
BY DEF TypeOK, TablesOK, Shaped, WritesAlone, Persisting

(* Rows, observations, incidents and damage only accumulate.               *)
Grows ==
  /\ incidents \subseteq incidents'
  /\ damaged \subseteq damaged'
  /\ \A e \in Id : rows[e] # NoRow => rows'[e] = rows[e]

(* Nobody touches what the call w is writing.                              *)
Undisturbed(w) ==
  w.step \in {"link", "insert"} =>
    /\ rows'[w.id] = rows[w.id]
    /\ observed'[w.id] = observed[w.id]
    /\ artifact'[w.id] = artifact[w.id] \/ w.id \in damaged'

(* So what holds of a call goes on to hold.                                *)
LEMMA HoldsOn ==
  ASSUME NEW w \in CallState, Holds(w), Grows, Undisturbed(w)
  PROVE  Holds(w)'
<1>1. RowsOf(w.incident) \subseteq RowsOf(w.incident)' /\ Stored \subseteq Stored'
  BY DEF Grows, RowsOf, Stored
<1>2. \A e \in Stored : rows'[e] = rows[e]
  BY DEF Grows, Stored
<1>3. w.ids \subseteq Stored
  BY DEF Holds, Gathers, RowsOf
<1>4. KindsOf(w.ids)' = KindsOf(w.ids)
  BY <1>2, <1>3 DEF KindsOf
<1>5. Writes(w)'
  BY <1>1, <1>2 DEF Holds, Writes, Undisturbed, Grows, RowsOf
<1>6. Reads(w)'
  BY <1>1, <1>2 DEF Holds, Reads
<1>7. Gathers(w)'
  BY <1>1 DEF Holds, Gathers
<1>8. ASSUME w.before # None
      PROVE  Selects(w)'
  <2>1. w.before \subseteq Stored
    BY <1>8 DEF Holds, Selects
  <2>2. Missing(w.before)' = Missing(w.before)
    BY <1>2, <2>1 DEF Missing, KindsOf
  <2> QED
    BY <1>1, <1>2, <1>3, <1>4, <1>8, <2>2 DEF Holds, Selects
<1>9. Selects(w)'
  BY <1>8 DEF Selects
<1> QED
  BY <1>5, <1>6, <1>7, <1>9 DEF Holds

(* A step that moves one call from one record to another.                  *)
LEMMA CallMoves ==
  ASSUME IInv, TablesOK', Untouched', FilesHold', RowsHold', Grows,
         NEW c \in Call, NEW w \in CallState, call' = [call EXCEPT ![c] = w],
         \A d \in Call \ {c} : Undisturbed(call[d]),
         Shaped(w), WritesAlone(w, c), Holds(w)'
  PROVE  IInv'
<1>1. call \in [Call -> CallState] /\ \A d \in Call : Shaped(call[d]) /\ WritesAlone(call[d], d)
  BY TypeParts DEF IInv
<1>2. \A d \in Call \ {c} : call'[d] = call[d] /\ call[d] \in CallState
  BY <1>1
<1>3. call'[c] = w /\ call' \in [Call -> CallState]
  BY <1>1
<1>4. ASSUME NEW d \in Call
      PROVE  Holds(call[d])' /\ Shaped(call[d])'
  <2>1. CASE d = c
    BY <1>3, <2>1 DEF Holds, Writes, Reads, Gathers, Selects, Shaped
  <2>2. CASE d # c
    <3>1. PICK v \in CallState : v = call[d]
      BY <1>2, <2>2
    <3>2. Holds(v)'
      BY <2>2, <3>1, HoldsOn DEF IInv
    <3>3. call'[d] = v /\ Shaped(v)
      BY <1>1, <1>2, <2>2, <3>1
    <3> QED
      BY <3>2, <3>3 DEF Holds, Writes, Reads, Gathers, Selects, Shaped
  <2> QED
    BY <2>1, <2>2
<1>5. ASSUME NEW d \in Call
      PROVE  WritesAlone(call[d], d)'
  BY <1>1, <1>2, <1>3 DEF WritesAlone
<1>6. TypeOK'
  <2>1. \A d \in Call : Shaped(call[d])' /\ WritesAlone(call[d], d)'
    BY <1>4, <1>5
  <2>2. TablesOK' /\ call' \in [Call -> CallState]
    BY <1>3
  <2> QED
    BY <2>1, <2>2 DEF TypeOK, TablesOK, Shaped, WritesAlone, Persisting
<1> QED
  BY <1>4, <1>6 DEF IInv

(* A step that leaves the calls alone.                                     *)
LEMMA CallsStay ==
  ASSUME IInv, TablesOK', Untouched', FilesHold', RowsHold', Grows,
         call' = call, \A d \in Call : Undisturbed(call[d])
  PROVE  IInv'
<1>1. call \in [Call -> CallState]
  BY DEF IInv, TypeOK
<1>2. ASSUME NEW d \in Call
      PROVE  Holds(call[d])'
  <2>1. PICK v \in CallState : v = call[d]
    BY <1>1
  <2>2. Holds(v)'
    BY <2>1, HoldsOn DEF IInv
  <2> QED
    BY <2>1, <2>2 DEF Holds, Writes, Reads, Gathers, Selects
<1>3. TypeOK'
  BY DEF IInv, TypeOK, TablesOK
<1> QED
  BY <1>2, <1>3 DEF IInv

(* A step that leaves rows, artifacts and observations alone.              *)
LEMMA StoreStays ==
  ASSUME IInv, UNCHANGED <<incidents, rows, artifact, history>>,
         temporary' \in [Id -> Bytes \cup {None}], faults' \in 0..MaxFaults
  PROVE  /\ TablesOK' /\ Untouched' /\ FilesHold' /\ RowsHold' /\ Grows
         /\ \A w \in CallState : Undisturbed(w)
<1>1. TablesOK
  BY TypeParts DEF IInv
<1>2. TablesOK'
  BY <1>1 DEF TablesOK, history
<1>3. Untouched' /\ FilesHold' /\ RowsHold'
  BY DEF IInv, Untouched, FilesHold, RowsHold, Stored, history
<1> QED
  BY <1>2, <1>3 DEF Grows, Undisturbed, history

(* A step of one call that touches nothing but its record.                 *)
LEMMA CallSteps ==
  ASSUME IInv, UNCHANGED <<incidents, rows, artifact, history>>,
         temporary' \in [Id -> Bytes \cup {None}], faults' \in 0..MaxFaults,
         NEW c \in Call, NEW w \in CallState, call' = [call EXCEPT ![c] = w],
         Shaped(w), WritesAlone(w, c), Holds(w)
  PROVE  IInv'
<1>1. /\ TablesOK' /\ Untouched' /\ FilesHold' /\ RowsHold' /\ Grows
      /\ \A v \in CallState : Undisturbed(v)
  BY StoreStays
<1>2. Holds(w)'
  BY <1>1, HoldsOn
<1>3. \A d \in Call \ {c} : Undisturbed(call[d])
  BY <1>1 DEF IInv, TypeOK
<1> QED
  BY <1>1, <1>2, <1>3, CallMoves

(* An idle call owes nothing.                                               *)
LEMMA IdleHolds == Idle \in CallState /\ Shaped(Idle) /\ Holds(Idle) /\ Idle.step = "idle"
<1>1. PICK q \in Seq(Kind) : q = <<>>
  <2>1. <<>> \in Seq(Kind)
    OBVIOUS
  <2> QED
    BY <2>1
<1>2. "idle" \in Step
  BY DEF Step
<1>3. Idle \in CallState
  BY <1>1, <1>2 DEF Idle, CallState
<1>4. /\ Idle.step = "idle" /\ Idle.before = None /\ Idle.id = None
      /\ Idle.ids = {} /\ Idle.tools = <<>>
  BY DEF Idle
<1>5. Shaped(Idle) /\ Holds(Idle)
  BY <1>4 DEF Shaped, Holds, Writes, Reads, Gathers, Selects
<1> QED
  BY <1>3, <1>4, <1>5

(* A call may always end, with or without its temporary file.              *)
LEMMA CallEnds ==
  ASSUME IInv, UNCHANGED <<incidents, rows, artifact, history>>,
         temporary' \in [Id -> Bytes \cup {None}], faults' \in 0..MaxFaults,
         NEW c \in Call, call' = [call EXCEPT ![c] = Idle]
  PROVE  IInv'
<1>1. WritesAlone(Idle, c)
  BY IdleHolds DEF WritesAlone, Persisting
<1> QED
  BY <1>1, IdleHolds, CallSteps

-----------------------------------------------------------------------------
(* The parts of the invariant about call c.                                *)
LEMMA OfCall ==
  ASSUME IInv, NEW c \in Call
  PROVE  call[c] \in CallState /\ Shaped(call[c]) /\ WritesAlone(call[c], c) /\ Holds(call[c])
BY TypeParts DEF IInv

(* Reading the evidence, and what any of the plans may select.             *)
LEMMA ListHolds ==
  ASSUME IInv, NEW c \in Call, ListForIncident(c)
  PROVE  IInv'
<1>1. PICK v \in CallState : v = call[c]
  BY OfCall
<1>2. PICK w : w = [v EXCEPT !.step = "plan", !.before = RowsOf(v.incident)]
  OBVIOUS
<1>3. v.step = "list" /\ Shaped(v) /\ Holds(v)
  BY <1>1, OfCall DEF ListForIncident
<1>4. v.ids = {} /\ v.tools = <<>> /\ v.id = None
  BY <1>3 DEF Holds, Gathers, Shaped
<1>5. RowsOf(v.incident) \subseteq Stored /\ RowsOf(v.incident) \in SUBSET Id
  BY DEF RowsOf, Stored
<1>6. /\ w \in CallState
      /\ w.step = "plan" /\ w.before = RowsOf(v.incident) /\ w.ids = {} /\ w.tools = <<>>
      /\ w.id = None
  BY <1>2, <1>4, <1>5 DEF CallState, Step
<1>7. Shaped(w) /\ WritesAlone(w, c)
  BY <1>6 DEF Shaped, WritesAlone, Persisting
<1>8. Selects(w)
  <2>1. IsFiniteSet({}) /\ IsInjective(<<>>) /\ Range(<<>>) = {} /\ KindsOf({}) = {}
    BY FS_EmptySet DEF IsInjective, Range, KindsOf
  <2> QED
    BY <1>5, <1>6, <2>1 DEF Selects
<1>9. Holds(w)
  BY <1>6, <1>8 DEF Holds, Writes, Reads, Gathers
<1>10. temporary' \in [Id -> Bytes \cup {None}] /\ faults' \in 0..MaxFaults
  BY DEF ListForIncident, IInv, TypeOK, files
<1> QED
  BY <1>1, <1>2, <1>6, <1>7, <1>9, <1>10, CallSteps DEF ListForIncident, files

(* Every plan is a sequence of different missing kinds, of one or two of   *)
(* them or of all.                                                         *)
LEMMA PlansFillGaps ==
  ASSUME NEW existing, NEW plan \in Plans(existing)
  PROVE  /\ plan \in Seq(Kind) /\ IsInjective(plan)
         /\ Range(plan) \subseteq Missing(existing)
         /\ Len(plan) \in 1..2 \/ Range(plan) = Missing(existing)
<1>1. Len(Desired) \in Nat
  BY EvidenceAssumption
<1>2. plan \in Plan
  BY DEF Plans, Fallback, Accepted
<1>3. PICK n \in 0..Len(Desired) : plan \in [1..n -> Kind]
  BY <1>2 DEF Plan
<1>4. n \in Nat
  BY <1>1
<1>5. plan \in Seq(Kind)
  BY <1>3, <1>4, SeqDef
<1> QED
  BY <1>2, <1>5 DEF Plan, Plans, Fallback, Accepted

(* The plan of a selection wants distinct missing kinds.                    *)
LEMMA PlanHolds ==
  ASSUME IInv, NEW c \in Call, PlanToolSelection(c)
  PROVE  IInv'
<1>1. PICK v \in CallState : v = call[c]
  BY OfCall
<1>2. v.step = "plan" /\ Shaped(v) /\ Holds(v)
  BY <1>1, OfCall DEF PlanToolSelection
<1>3. PICK plan \in Plans(v.before) :
        call' = [call EXCEPT ![c].step = IF plan = <<>> THEN "told" ELSE "check", ![c].tools = plan]
  BY <1>1 DEF PlanToolSelection
<1>4. plan \in Seq(Kind)
  BY PlansFillGaps
<1>5. PICK w : w = [v EXCEPT !.step = IF plan = <<>> THEN "told" ELSE "check", !.tools = plan]
  OBVIOUS
<1>6. call' = [call EXCEPT ![c] = w]
  BY <1>1, <1>3, <1>5
<1>7. v.ids = {} /\ v.id = None
  BY <1>2 DEF Holds, Gathers, Shaped
<1>8. /\ w \in CallState
      /\ w.step = IF plan = <<>> THEN "told" ELSE "check"
      /\ w.tools = plan /\ w.before = v.before /\ w.ids = {} /\ w.id = None
  BY <1>4, <1>5, <1>7 DEF CallState, Step
<1>9. Shaped(w) /\ WritesAlone(w, c)
  BY <1>8 DEF Shaped, WritesAlone, Persisting
<1>10. Selects(w)
  <2>1. IsFiniteSet({}) /\ Cardinality({}) = 0 /\ KindsOf({}) = {}
    BY FS_EmptySet DEF KindsOf
  <2>2. w.before # None => w.before \subseteq Stored
    BY <1>2, <1>8 DEF Holds, Selects
  <2>3. Len(plan) \in 1..2 => Len(plan) + 0 \in 1..2
    OBVIOUS
  <2> QED
    BY <1>8, <2>1, <2>2, <2>3, PlansFillGaps DEF Selects
<1>11. Holds(w)
  BY <1>8, <1>10 DEF Holds, Writes, Reads, Gathers
<1>12. temporary' \in [Id -> Bytes \cup {None}] /\ faults' \in 0..MaxFaults
  BY DEF PlanToolSelection, IInv, TypeOK, files
<1> QED
  BY <1>6, <1>8, <1>9, <1>11, <1>12, CallSteps DEF PlanToolSelection, files

(* A request that begins, for a tool or for a selection.                   *)
LEMMA AskHolds ==
  ASSUME IInv, NEW c \in Call, NEW i \in Incident,
         AskSelection(c, i) \/ \E k \in Kind : AskTool(c, i, k)
  PROVE  IInv'
<1>1. temporary' \in [Id -> Bytes \cup {None}] /\ faults' \in 0..MaxFaults
  BY DEF AskSelection, AskTool, IInv, TypeOK, files
<1>2. UNCHANGED <<incidents, rows, artifact, history>>
  BY DEF AskSelection, AskTool, files
<1>3. PICK v \in CallState : v = Idle
  BY IdleHolds
<1>4. v.tools = <<>> /\ v.before = None /\ v.ids = {} /\ v.id = None
  BY <1>3 DEF Idle
<1>5. CASE AskSelection(c, i)
  <2>1. PICK w : w = [v EXCEPT !.step = "list", !.incident = i]
    OBVIOUS
  <2>2. /\ w \in CallState
        /\ w.step = "list" /\ w.tools = <<>> /\ w.before = None /\ w.ids = {} /\ w.id = None
    BY <1>4, <2>1 DEF CallState, Step
  <2>3. Shaped(w) /\ WritesAlone(w, c) /\ Holds(w)
    BY <2>2 DEF Shaped, WritesAlone, Persisting, Holds, Writes, Reads, Gathers, Selects
  <2>4. call' = [call EXCEPT ![c] = w]
    BY <1>3, <1>5, <2>1 DEF AskSelection
  <2> QED
    BY <1>1, <1>2, <2>2, <2>3, <2>4, CallSteps
<1>6. ASSUME NEW k \in Kind, AskTool(c, i, k)
      PROVE  IInv'
  <2>1. PICK q \in Seq(Kind) : q = <<k>> /\ q # <<>>
    <3>1. <<k>> \in Seq(Kind) /\ <<k>> # <<>>
      OBVIOUS
    <3> QED
      BY <3>1
  <2>2. PICK w : w = [v EXCEPT !.step = "observe", !.incident = i, !.tools = q]
    OBVIOUS
  <2>3. /\ w \in CallState
        /\ w.step = "observe" /\ w.tools = q /\ w.before = None /\ w.ids = {} /\ w.id = None
    BY <1>4, <2>2 DEF CallState, Step
  <2>4. Shaped(w) /\ WritesAlone(w, c) /\ Holds(w)
    BY <2>1, <2>3 DEF Shaped, WritesAlone, Persisting, Holds, Writes, Reads, Gathers, Selects
  <2>5. call' = [call EXCEPT ![c] = w]
    BY <1>3, <1>6, <2>1, <2>2 DEF AskTool
  <2> QED
    BY <1>1, <1>2, <2>3, <2>4, <2>5, CallSteps
<1> QED
  BY <1>5, <1>6

(* A tool runs only for an incident that is stored.                         *)
LEMMA EnsureHolds ==
  ASSUME IInv, NEW c \in Call, EnsureIncident(c)
  PROVE  IInv'
<1>1. PICK v \in CallState : v = call[c]
  BY OfCall
<1>2. v.step = "check" /\ Shaped(v) /\ Holds(v)
  BY <1>1, OfCall DEF EnsureIncident
<1>3. PICK w : w = [v EXCEPT !.step = "observe"]
  OBVIOUS
<1>4. /\ w \in CallState
      /\ w.step = "observe" /\ w.tools = v.tools /\ w.before = v.before /\ w.ids = v.ids
      /\ w.id = v.id /\ w.incident = v.incident
  BY <1>3 DEF CallState, Step
<1>5. Shaped(w) /\ WritesAlone(w, c)
  BY <1>2, <1>4 DEF Shaped, WritesAlone, Persisting, Holds, Gathers
<1>6. Selects(w)
  BY <1>2, <1>4 DEF Holds, Selects
<1>7. Holds(w)
  BY <1>2, <1>4, <1>6 DEF Holds, Writes, Reads, Gathers
<1>8. temporary' \in [Id -> Bytes \cup {None}] /\ faults' \in 0..MaxFaults
  BY DEF EnsureIncident, IInv, TypeOK, files
<1> QED
  BY <1>1, <1>3, <1>4, <1>5, <1>7, <1>8, CallSteps DEF EnsureIncident, files

(* A read by the id of a row takes what the row says along.                 *)
LEMMA ReadContentHolds ==
  ASSUME IInv, NEW c \in Call, NEW e \in Id, ReadContent(c, e)
  PROVE  IInv'
<1>1. rows[e] \in Row /\ e \in Stored /\ e # None
  BY EvidenceAssumption DEF ReadContent, IInv, TypeOK, Stored
<1>2. rows[e].sha \in Content /\ rows[e].sha \in Bytes \cup {None}
  BY <1>1 DEF Row, Bytes
<1>3. PICK w : w = [Idle EXCEPT !.step = "read", !.id = e, !.content = rows[e].sha]
  OBVIOUS
<1>4. /\ w \in CallState
      /\ w.step = "read" /\ w.tools = <<>> /\ w.before = None /\ w.ids = {} /\ w.id = e
      /\ w.content = rows[e].sha
  BY <1>2, <1>3, IdleHolds DEF Idle, CallState, Step
<1>5. Shaped(w) /\ WritesAlone(w, c)
  BY <1>1, <1>4 DEF Shaped, WritesAlone, Persisting
<1>6. Holds(w)
  BY <1>1, <1>4 DEF Holds, Writes, Reads, Gathers, Selects
<1>7. temporary' \in [Id -> Bytes \cup {None}] /\ faults' \in 0..MaxFaults
  BY DEF ReadContent, IInv, TypeOK, files
<1> QED
  BY <1>3, <1>4, <1>5, <1>6, <1>7, CallSteps DEF ReadContent, files

(* The second read answers only with what the hash of the first allows.     *)
LEMMA ReadVerifiedHolds ==
  ASSUME IInv, NEW c \in Call, ReadVerified(c)
  PROVE  IInv'
<1>1. PICK v \in CallState : v = call[c]
  BY OfCall
<1>2. v.step = "read" /\ Shaped(v) /\ Holds(v)
  BY <1>1, OfCall DEF ReadVerified
<1>3. temporary' \in [Id -> Bytes \cup {None}] /\ faults' \in 0..MaxFaults
  BY DEF ReadVerified, IInv, TypeOK, files
<1>4. UNCHANGED <<incidents, rows, artifact, history>>
  BY DEF ReadVerified, files
<1>5. CASE artifact[v.id] = v.content
  <2>1. PICK w : w = [v EXCEPT !.step = "served", !.content = artifact[v.id]]
    OBVIOUS
  <2>2. /\ w \in CallState
        /\ w.step = "served" /\ w.tools = v.tools /\ w.before = v.before /\ w.ids = v.ids
        /\ w.id = v.id /\ w.incident = v.incident /\ w.content = v.content
    BY <1>5, <2>1 DEF CallState, Step
  <2>3. Shaped(w) /\ WritesAlone(w, c)
    BY <1>2, <2>2 DEF Shaped, WritesAlone, Persisting
  <2>4. Selects(w)
    BY <1>2, <2>2 DEF Holds, Selects
  <2>5. Holds(w)
    BY <1>2, <2>2, <2>4 DEF Holds, Writes, Reads, Gathers
  <2>6. call' = [call EXCEPT ![c] = w]
    BY <1>1, <1>5, <2>1 DEF ReadVerified
  <2> QED
    BY <1>3, <1>4, <2>2, <2>3, <2>5, <2>6, CallSteps
<1>6. CASE artifact[v.id] # v.content
  BY <1>1, <1>3, <1>4, <1>6, CallEnds DEF ReadVerified
<1> QED
  BY <1>5, <1>6

-----------------------------------------------------------------------------
(* An uuid that was never drawn belongs to no call that writes.            *)
LEMMA FreshIsFree ==
  ASSUME IInv, NEW e \in Id, observed[e] = None, NEW d \in Call, call[d].step \in Persisting
  PROVE  call[d].id # e
<1>1. SUFFICES ASSUME call[d].id = e
               PROVE  FALSE
  OBVIOUS
<1>2. Writes(call[d]) /\ Shaped(call[d])
  BY OfCall DEF Holds
<1>3. CASE call[d].step \in {"link", "insert"}
  BY <1>1, <1>2, <1>3 DEF Writes, Shaped
<1>4. CASE call[d].step = "get"
  <2>1. e \in Stored
    BY <1>1, <1>2, <1>4 DEF Writes, RowsOf
  <2> QED
    BY <2>1 DEF Stored, IInv, Untouched
<1> QED
  BY <1>3, <1>4 DEF Persisting

(* What a tool observed is what its call will write.                        *)
LEMMA ToolHolds ==
  ASSUME IInv, NEW c \in Call, NEW reply \in Reply, NEW e \in Id, ToolExecutes(c, reply, e)
  PROVE  IInv'
<1>1. PICK v \in CallState : v = call[c]
  BY OfCall
<1>2. v.step = "observe" /\ Shaped(v) /\ Holds(v) /\ observed[e] = None /\ e # None
  BY <1>1, OfCall, EvidenceAssumption DEF ToolExecutes
<1>3. PICK x \in Content :
        /\ observed' = [observed EXCEPT ![e] = x]
        /\ call' = [call EXCEPT ![c].step = "link", ![c].id = e, ![c].content = x]
  BY DEF ToolExecutes
<1>4. x # None /\ x \in Bytes
  BY EvidenceAssumption DEF Bytes
<1>5. PICK w : w = [v EXCEPT !.step = "link", !.id = e, !.content = x]
  OBVIOUS
<1>6. call' = [call EXCEPT ![c] = w]
  BY <1>1, <1>3, <1>5
<1>7. /\ w \in CallState
      /\ w.step = "link" /\ w.tools = v.tools /\ w.before = v.before /\ w.ids = v.ids
      /\ w.id = e /\ w.incident = v.incident /\ w.content = x
  BY <1>4, <1>5 DEF CallState, Step
<1>8. TablesOK /\ Untouched /\ FilesHold /\ RowsHold
  BY TypeParts DEF IInv
<1>9. UNCHANGED <<incidents, rows, artifact, damaged, faults>>
  BY DEF ToolExecutes
<1>10. rows[e] = NoRow /\ artifact[e] = None
  BY <1>2, <1>8 DEF Untouched
<1>11. TablesOK'
  BY <1>3, <1>8, <1>9 DEF TablesOK, ToolExecutes, Bytes
<1>12. Untouched' /\ FilesHold' /\ RowsHold'
  <2>1. observed'[e] = x /\ \A f \in Id \ {e} : observed'[f] = observed[f]
    BY <1>3, <1>8 DEF TablesOK
  <2>2. Untouched'
    BY <1>4, <1>8, <1>9, <2>1 DEF Untouched
  <2>3. FilesHold'
    BY <1>8, <1>9, <1>10, <2>1 DEF FilesHold
  <2>4. RowsHold'
    BY <1>8, <1>9, <1>10, <2>1 DEF RowsHold, Stored
  <2> QED
    BY <2>2, <2>3, <2>4
<1>13. Grows
  BY <1>9 DEF Grows
<1>14. ASSUME NEW d \in Call \ {c}
       PROVE  Undisturbed(call[d])
  <2>1. CASE call[d].step \in {"link", "insert"}
    <3>1. call[d].id # e
      BY <1>2, <2>1, FreshIsFree DEF Persisting
    <3>2. observed'[call[d].id] = observed[call[d].id]
      BY <1>3, <1>8, <3>1 DEF TablesOK
    <3> QED
      BY <1>9, <3>2 DEF Undisturbed
  <2> QED
    BY <2>1 DEF Undisturbed
<1>15. Shaped(w) /\ WritesAlone(w, c)
  BY <1>2, <1>4, <1>7, FreshIsFree DEF Shaped, WritesAlone
<1>16. Holds(w)'
  <2>1. Writes(w)'
    <3>1. observed'[e] = x /\ rows'[e] = NoRow
      BY <1>3, <1>8, <1>9, <1>10 DEF TablesOK
    <3> QED
      BY <1>7, <3>1 DEF Writes
  <2>2. Gathers(w) /\ Selects(w)
    BY <1>2, <1>7 DEF Holds, Gathers, Selects
  <2>3. Gathers(w)' /\ Selects(w)'
    BY <1>9, <2>2 DEF Gathers, Selects, RowsOf, Stored, KindsOf, Missing
  <2> QED
    BY <1>7, <2>1, <2>3 DEF Holds, Reads
<1> QED
  BY <1>6, <1>7, <1>11, <1>12, <1>13, <1>14, <1>15, <1>16, CallMoves

(* The file is there under its name before the row is.                      *)
LEMMA LinkHolds ==
  ASSUME IInv, NEW c \in Call, LinkArtifact(c)
  PROVE  IInv'
<1>1. PICK v \in CallState : v = call[c]
  BY OfCall
<1>2. v.step = "link" /\ Shaped(v) /\ WritesAlone(v, c) /\ Holds(v)
  BY <1>1, OfCall DEF LinkArtifact
<1>3. PICK w : w = [v EXCEPT !.step = "insert"]
  OBVIOUS
<1>4. call' = [call EXCEPT ![c] = w]
  BY <1>1, <1>3 DEF LinkArtifact
<1>5. /\ w \in CallState
      /\ w.step = "insert" /\ w.tools = v.tools /\ w.before = v.before /\ w.ids = v.ids
      /\ w.id = v.id /\ w.incident = v.incident /\ w.content = v.content
  BY <1>3 DEF CallState, Step
<1>6. TablesOK /\ Untouched /\ FilesHold /\ RowsHold
  BY TypeParts DEF IInv
<1>7. UNCHANGED <<incidents, rows, observed, damaged, faults>>
  BY DEF LinkArtifact, history
<1>8. v.id \in Id /\ v.content \in Bytes
  BY <1>2 DEF CallState, Shaped
<1>9. rows[v.id] = NoRow /\ observed[v.id] = v.content /\ v.content # None
  BY <1>2 DEF Holds, Writes, Shaped
<1>10. artifact' = [artifact EXCEPT ![v.id] = v.content]
  BY <1>1 DEF LinkArtifact
<1>11. /\ artifact'[v.id] = v.content
       /\ \A f \in Id \ {v.id} : artifact'[f] = artifact[f]
  BY <1>6, <1>8, <1>10 DEF TablesOK
<1>12. TablesOK'
  BY <1>1, <1>6, <1>7, <1>8, <1>10 DEF TablesOK, LinkArtifact
<1>13. Untouched'
  BY <1>6, <1>7, <1>9, <1>11 DEF Untouched
<1>14. FilesHold'
  BY <1>6, <1>7, <1>9, <1>11 DEF FilesHold
<1>15. RowsHold'
  BY <1>6, <1>7, <1>9, <1>11 DEF RowsHold, Stored
<1>16. Grows
  BY <1>7 DEF Grows
<1>17. ASSUME NEW d \in Call \ {c}
       PROVE  Undisturbed(call[d])
  <2>1. CASE call[d].step \in {"link", "insert"}
    <3>1. call[d].id # v.id
      BY <1>2, <2>1 DEF WritesAlone, Persisting
    <3>2. call[d].id \in Id
      BY <2>1, OfCall DEF CallState, Shaped
    <3> QED
      BY <1>7, <1>11, <3>1, <3>2 DEF Undisturbed
  <2> QED
    BY <2>1 DEF Undisturbed
<1>18. Shaped(w) /\ WritesAlone(w, c)
  BY <1>2, <1>5 DEF Shaped, WritesAlone, Persisting
<1>19. Holds(w)'
  <2>1. Writes(w)'
    BY <1>5, <1>7, <1>9, <1>11 DEF Writes
  <2>2. Gathers(w) /\ Selects(w)
    BY <1>2, <1>5 DEF Holds, Gathers, Selects
  <2>3. Gathers(w)'
    BY <1>7, <2>2 DEF Gathers, RowsOf, Stored
  <2>4. Selects(w)'
    BY <1>7, <2>2 DEF Selects, Stored, KindsOf, Missing
  <2> QED
    BY <1>5, <2>1, <2>3, <2>4 DEF Holds, Reads
<1> QED
  BY <1>4, <1>5, <1>12, <1>13, <1>14, <1>15, <1>16, <1>17, <1>18, <1>19, CallMoves

(* The row names the file that its call wrote.                              *)
LEMMA InsertHolds ==
  ASSUME IInv, NEW c \in Call, InsertRow(c)
  PROVE  IInv'
<1>1. PICK v \in CallState : v = call[c]
  BY OfCall
<1>2. v.step = "insert" /\ Shaped(v) /\ WritesAlone(v, c) /\ Holds(v) /\ v.incident \in incidents
  BY <1>1, OfCall DEF InsertRow
<1>3. PICK w : w = [v EXCEPT !.step = "get"]
  OBVIOUS
<1>4. call' = [call EXCEPT ![c] = w]
  BY <1>1, <1>3 DEF InsertRow
<1>5. /\ w \in CallState
      /\ w.step = "get" /\ w.tools = v.tools /\ w.before = v.before /\ w.ids = v.ids
      /\ w.id = v.id /\ w.incident = v.incident /\ w.content = v.content
  BY <1>3 DEF CallState, Step
<1>6. TablesOK /\ Untouched /\ FilesHold /\ RowsHold
  BY TypeParts DEF IInv
<1>7. /\ UNCHANGED <<incidents, artifact, observed, damaged, faults, temporary>>
      /\ incidents' = incidents /\ artifact' = artifact /\ observed' = observed
      /\ damaged' = damaged
  BY DEF InsertRow, history, files
<1>8. v.id \in Id /\ v.tools \in Seq(Kind) /\ v.tools # <<>>
  BY <1>2 DEF CallState, Shaped
<1>9. /\ rows[v.id] = NoRow /\ observed[v.id] = v.content /\ v.content # None
      /\ artifact[v.id] = v.content \/ v.id \in damaged
  BY <1>2 DEF Holds, Writes, Shaped
<1>10. Head(v.tools) \in Kind
  BY <1>8, HeadTailProperties
<1>11. v.content \in Content /\ v.incident \in Incident /\ v.incident # None
  BY <1>2, <1>6, <1>8, <1>9, EvidenceAssumption DEF TablesOK
<1>12. PICK r \in Row : r = [incident |-> v.incident, kind |-> Head(v.tools), sha |-> v.content]
  BY <1>10, <1>11 DEF Row
<1>13. /\ r.incident = v.incident /\ r.kind = Head(v.tools) /\ r.sha = v.content
       /\ r # NoRow
  BY <1>11, <1>12 DEF NoRow
<1>14. rows' = [rows EXCEPT ![v.id] = r]
  BY <1>1, <1>12 DEF InsertRow
<1>15. rows'[v.id] = r /\ \A f \in Id \ {v.id} : rows'[f] = rows[f]
  BY <1>6, <1>8, <1>14 DEF TablesOK
<1>16. TablesOK'
  BY <1>6, <1>7, <1>14 DEF TablesOK
<1>17. Untouched'
  BY <1>6, <1>7, <1>9, <1>15 DEF Untouched
<1>18. FilesHold'
  BY <1>6, <1>7 DEF FilesHold
<1>19. RowsHold'
  BY <1>2, <1>6, <1>7, <1>9, <1>13, <1>15 DEF RowsHold, Stored
<1>20. Grows
  BY <1>7, <1>9, <1>15 DEF Grows
<1>21. ASSUME NEW d \in Call \ {c}
       PROVE  Undisturbed(call[d])
  <2>1. CASE call[d].step \in {"link", "insert"}
    <3>1. call[d].id # v.id
      BY <1>2, <2>1 DEF WritesAlone, Persisting
    <3>2. call[d].id \in Id
      BY <2>1, OfCall DEF CallState, Shaped
    <3> QED
      BY <1>7, <1>15, <3>1, <3>2 DEF Undisturbed
  <2> QED
    BY <2>1 DEF Undisturbed
<1>22. Shaped(w) /\ WritesAlone(w, c)
  BY <1>2, <1>5 DEF Shaped, WritesAlone, Persisting
<1>23. Holds(w)'
  <2>1. (v.id \in RowsOf(v.incident))' /\ rows'[v.id].kind = Head(v.tools)
    BY <1>8, <1>13, <1>15 DEF RowsOf, Stored
  <2>2. Writes(w)'
    BY <1>5, <2>1 DEF Writes
  <2>3. RowsOf(v.incident) \subseteq RowsOf(v.incident)' /\ Stored \subseteq Stored'
    BY <1>20 DEF Grows, RowsOf, Stored
  <2>4. Gathers(w)'
    BY <1>2, <1>5, <2>3 DEF Holds, Gathers
  <2>5. \A f \in Stored : rows'[f] = rows[f]
    BY <1>20 DEF Grows, Stored
  <2>6. v.ids \subseteq Stored
    BY <1>2 DEF Holds, Gathers, RowsOf
  <2>7. KindsOf(v.ids)' = KindsOf(v.ids)
    BY <2>5, <2>6 DEF KindsOf
  <2>8. ASSUME v.before # None
        PROVE  Selects(w)'
    <3>1. v.before \subseteq Stored
      BY <1>2, <2>8 DEF Holds, Selects
    <3>2. Missing(v.before)' = Missing(v.before)
      BY <2>5, <3>1 DEF Missing, KindsOf
    <3> QED
      BY <1>2, <1>5, <2>3, <2>5, <2>6, <2>7, <2>8, <3>1, <3>2 DEF Holds, Selects
  <2>9. Selects(w)'
    BY <1>5, <2>8 DEF Selects
  <2> QED
    BY <1>5, <2>2, <2>4, <2>9 DEF Holds, Reads
<1> QED
  BY <1>4, <1>5, <1>16, <1>17, <1>18, <1>19, <1>20, <1>21, <1>22, <1>23, CallMoves

(* The tools that remain.                                                  *)
LEMMA TailOfTools ==
  ASSUME NEW q \in Seq(Kind), q # <<>>
  PROVE  /\ Tail(q) \in Seq(Kind)
         /\ Len(Tail(q)) = Len(q) - 1 /\ Len(q) \in Nat \ {0}
         /\ Head(q) \in Range(q)
         /\ Range(q) = {Head(q)} \cup Range(Tail(q))
         /\ IsInjective(q) => IsInjective(Tail(q)) /\ Head(q) \notin Range(Tail(q))
<1>1. PICK r \in Seq(Kind) : r = Tail(q)
  BY HeadTailProperties
<1>2. Len(r) = Len(q) - 1 /\ \A m \in 1..Len(r) : r[m] = q[m + 1]
  BY <1>1, HeadTailProperties
<1>3. Len(q) \in Nat \ {0} /\ DOMAIN q = 1..Len(q) /\ DOMAIN r = 1..Len(r) /\ Head(q) = q[1]
  BY EmptySeq
<1>4. 1 \in DOMAIN q /\ \A m \in DOMAIN r : m + 1 \in DOMAIN q /\ m + 1 # 1 /\ r[m] = q[m + 1]
  BY <1>2, <1>3
<1>5. ASSUME NEW m \in DOMAIN q, m # 1
      PROVE  m - 1 \in DOMAIN r /\ r[m - 1] = q[m]
  BY <1>2, <1>3, <1>5
<1>6. Head(q) \in Range(q) /\ Range(q) = {Head(q)} \cup Range(r)
  BY <1>3, <1>4, <1>5 DEF Range
<1>7. ASSUME IsInjective(q)
      PROVE  IsInjective(r) /\ Head(q) \notin Range(r)
  <2>1. ASSUME NEW m \in DOMAIN r, NEW n \in DOMAIN r, r[m] = r[n]
        PROVE  m = n
    <3>1. m + 1 = n + 1
      BY <1>4, <1>7, <2>1 DEF IsInjective
    <3> QED
      BY <1>3, <3>1
  <2>2. Head(q) \notin Range(r)
    BY <1>3, <1>4, <1>7 DEF IsInjective, Range
  <2> QED
    BY <2>1, <2>2 DEF IsInjective
<1> QED
  BY <1>1, <1>2, <1>3, <1>6, <1>7

(* What GetRow collects is a kind that the call had still to collect.      *)
LEMMA GetSelects ==
  ASSUME NEW v \in CallState, NEW w,
         Selects(v), Gathers(v), Writes(v), v.step = "get", v.tools # <<>>, v.id \in Id,
         w.before = v.before, w.tools = Tail(v.tools), w.ids = v.ids \cup {v.id}
  PROVE  Selects(w)
<1>1. SUFFICES ASSUME w.before # None
               PROVE  Selects(w)
  BY DEF Selects
<1>2. PICK q \in Seq(Kind) : q = v.tools
  BY DEF CallState
<1>3. PICK r \in Seq(Kind) : r = Tail(q)
  BY <1>2, TailOfTools
<1>4. PICK k : k = Head(q)
  OBVIOUS
<1>5. /\ v.before \subseteq Stored /\ IsFiniteSet(v.ids) /\ IsInjective(q)
      /\ \A d, e \in v.ids : rows[d].kind = rows[e].kind => d = e
      /\ KindsOf(v.ids) \cup Range(q) \subseteq Missing(v.before)
      /\ KindsOf(v.ids) \cap Range(q) = {}
      /\ \/ Len(q) + Cardinality(v.ids) \in 1..2
         \/ KindsOf(v.ids) \cup Range(q) = Missing(v.before)
  BY <1>1, <1>2 DEF Selects
<1>6. rows[v.id].kind = k
  BY <1>2, <1>4 DEF Writes
<1>7. /\ Len(r) = Len(q) - 1 /\ Len(q) \in Nat \ {0}
      /\ k \in Range(q) /\ Range(q) = {k} \cup Range(r)
      /\ IsInjective(r) /\ k \notin Range(r)
  BY <1>2, <1>3, <1>4, <1>5, TailOfTools
<1>8. KindsOf(w.ids) = KindsOf(v.ids) \cup {k}
  BY <1>6 DEF KindsOf
<1>9. v.id \notin v.ids
  BY <1>5, <1>6, <1>7 DEF KindsOf
<1>10. IsFiniteSet(w.ids) /\ Cardinality(w.ids) = Cardinality(v.ids) + 1 /\ Cardinality(v.ids) \in Nat
  BY <1>5, <1>9, FS_AddElement, FS_CardinalityType
<1>11. Len(r) + Cardinality(w.ids) = Len(q) + Cardinality(v.ids)
  BY <1>7, <1>10
<1>12. \A e \in v.ids : rows[e].kind # k
  BY <1>5, <1>7 DEF KindsOf
<1>13. \A d, e \in w.ids : rows[d].kind = rows[e].kind => d = e
  BY <1>5, <1>6, <1>12
<1>14. KindsOf(w.ids) \cup Range(r) = KindsOf(v.ids) \cup Range(q)
  BY <1>7, <1>8
<1>15. KindsOf(w.ids) \cap Range(r) = {}
  <2>1. PICK R : R = Range(r)
    OBVIOUS
  <2>2. PICK K : K = KindsOf(v.ids)
    OBVIOUS
  <2>3. K \cap ({k} \cup R) = {} /\ k \notin R
    BY <1>5, <1>7, <2>1, <2>2
  <2>4. (K \cup {k}) \cap R = {}
    BY <2>3
  <2> QED
    BY <1>8, <2>1, <2>2, <2>4
<1>16. w.tools = r /\ w.before = v.before
  BY <1>2, <1>3
<1> QED
  BY <1>5, <1>7, <1>10, <1>11, <1>13, <1>14, <1>15, <1>16 DEF Selects

(* A call answers with the row that it inserted.                            *)
LEMMA GetHolds ==
  ASSUME IInv, NEW c \in Call, GetRow(c)
  PROVE  IInv'
<1>1. PICK v \in CallState : v = call[c]
  BY OfCall
<1>2. v.step = "get" /\ Shaped(v) /\ Holds(v)
  BY <1>1, OfCall DEF GetRow
<1>3. v.id \in Id /\ v.tools \in Seq(Kind) /\ v.tools # <<>>
  BY <1>2 DEF CallState, Shaped
<1>4. PICK r \in Seq(Kind) : r = Tail(v.tools)
  BY <1>3, TailOfTools
<1>5. PICK st \in {"told", "check"} : st = IF Len(v.tools) = 1 THEN "told" ELSE "check"
  OBVIOUS
<1>6. PICK ids : ids = v.ids \cup {v.id}
  OBVIOUS
<1>7. PICK w : w = [v EXCEPT !.step = st, !.tools = r, !.ids = ids, !.id = None, !.content = None]
  OBVIOUS
<1>8. call' = [call EXCEPT ![c] = w]
  BY <1>1, <1>4, <1>5, <1>6, <1>7 DEF GetRow
<1>9. v.ids \subseteq RowsOf(v.incident) /\ ids \in SUBSET Id
  BY <1>2, <1>3, <1>6 DEF Holds, Gathers, CallState
<1>10. /\ w \in CallState
       /\ w.step = st /\ w.tools = r /\ w.before = v.before /\ w.ids = ids
       /\ w.id = None /\ w.incident = v.incident
  BY <1>5, <1>7, <1>9 DEF CallState, Step
<1>11. Shaped(w) /\ WritesAlone(w, c)
  BY <1>5, <1>10 DEF Shaped, WritesAlone, Persisting
<1>12. Selects(w)
  BY <1>2, <1>3, <1>4, <1>6, <1>10, GetSelects DEF Holds
<1>13. Gathers(w)
  <2>1. ids \subseteq RowsOf(v.incident)
    BY <1>2, <1>6, <1>9 DEF Holds, Writes
  <2>2. st = "told" => r = <<>>
    BY <1>3, <1>4, <1>5, TailOfTools, EmptySeq
  <2>3. st = "check" => r # <<>>
    <3>1. Len(r) = Len(v.tools) - 1 /\ Len(v.tools) \in Nat
      BY <1>3, <1>4, TailOfTools
    <3>2. st = "check" => Len(r) # 0
      BY <1>5, <3>1
    <3> QED
      BY <1>4, <3>2, EmptySeq
  <2> QED
    BY <1>5, <1>10, <2>1, <2>2, <2>3 DEF Gathers
<1>14. Holds(w)
  BY <1>5, <1>10, <1>12, <1>13 DEF Holds, Writes, Reads
<1>15. temporary' \in [Id -> Bytes \cup {None}] /\ faults' \in 0..MaxFaults
  BY DEF GetRow, IInv, TypeOK, files
<1> QED
  BY <1>8, <1>10, <1>11, <1>14, <1>15, CallSteps DEF GetRow, files

-----------------------------------------------------------------------------
(* Failures, stops and damage, and an incident that appears.               *)
LEMMA EndingHolds ==
  ASSUME IInv, NEW c \in Call,
         Answer(c) \/ Fail(c) \/ Stop(c) \/ \E reply \in Reply : ToolFails(c, reply)
  PROVE  IInv'
<1>1. faults' \in 0..MaxFaults
  BY EvidenceAssumption DEF IInv, TypeOK, Answer, Fail, Stop, Fault, ToolFails
<1>2. temporary' \in [Id -> Bytes \cup {None}]
  BY DEF IInv, TypeOK, Answer, Fail, Stop, ToolFails, files
<1>3. UNCHANGED <<incidents, rows, artifact, history>>
  BY DEF Answer, Fail, Stop, ToolFails, files
<1>4. call' = [call EXCEPT ![c] = Idle]
  BY DEF Answer, Fail, Stop, ToolFails
<1> QED
  BY <1>1, <1>2, <1>3, <1>4, CallEnds

(* Damage from outside is remembered, and touches one file.                 *)
LEMMA DamageHolds ==
  ASSUME IInv, NEW e \in Id, Damage(e)
  PROVE  IInv'
<1>1. TablesOK /\ Untouched /\ FilesHold /\ RowsHold
  BY TypeParts DEF IInv
<1>2. PICK bytes \in Bytes \cup {None} : artifact' = [artifact EXCEPT ![e] = bytes]
  BY DEF Damage
<1>3. /\ damaged' = damaged \cup {e} /\ artifact[e] # None
      /\ incidents' = incidents /\ rows' = rows /\ observed' = observed /\ call' = call
      /\ temporary' = temporary
  BY DEF Damage
<1>4. \A f \in Id \ {e} : artifact'[f] = artifact[f]
  BY <1>1, <1>2 DEF TablesOK
<1>5. faults' \in 0..MaxFaults
  BY <1>1, EvidenceAssumption DEF Damage, Fault, TablesOK
<1>6. TablesOK'
  BY <1>1, <1>2, <1>3, <1>5 DEF TablesOK
<1>7. Untouched'
  BY <1>1, <1>3, <1>4 DEF Untouched
<1>8. FilesHold'
  BY <1>1, <1>3, <1>4 DEF FilesHold
<1>9. RowsHold'
  BY <1>1, <1>3, <1>4 DEF RowsHold, Stored
<1>10. Grows
  BY <1>3 DEF Grows
<1>11. ASSUME NEW d \in Call
       PROVE  Undisturbed(call[d])
  <2>1. CASE call[d].step \in {"link", "insert"}
    <3>1. call[d].id \in Id
      BY <2>1, OfCall DEF CallState, Shaped
    <3> QED
      BY <1>3, <1>4, <3>1 DEF Undisturbed
  <2> QED
    BY <2>1 DEF Undisturbed
<1> QED
  BY <1>3, <1>6, <1>7, <1>8, <1>9, <1>10, <1>11, CallsStay

(* A new incident has no rows.                                              *)
LEMMA IncidentHolds ==
  ASSUME IInv, NEW i \in Incident, IncidentAppears(i)
  PROVE  IInv'
<1>1. TablesOK /\ Untouched /\ FilesHold /\ RowsHold
  BY TypeParts DEF IInv
<1>2. /\ incidents' = incidents \cup {i} /\ rows' = rows /\ temporary' = temporary
      /\ artifact' = artifact /\ call' = call /\ observed' = observed /\ damaged' = damaged
      /\ faults' = faults
  BY DEF IncidentAppears, files, history
<1>3. TablesOK' /\ Untouched' /\ FilesHold' /\ RowsHold'
  BY <1>1, <1>2 DEF TablesOK, Untouched, FilesHold, RowsHold, Stored
<1>4. Grows /\ \A d \in Call : Undisturbed(call[d])
  BY <1>2 DEF Grows, Undisturbed
<1> QED
  BY <1>2, <1>3, <1>4, CallsStay

(* The invariant holds at first and is kept by every step.                 *)
THEOREM Inductive == Spec => []IInv
<1>1. Init => IInv
  <2> SUFFICES ASSUME Init
               PROVE  IInv
    OBVIOUS
  <2>1. TablesOK
    BY EvidenceAssumption DEF Init, TablesOK
  <2>2. \A c \in Call : call[c] = Idle
    BY DEF Init
  <2>3. call \in [Call -> CallState]
    BY IdleHolds DEF Init
  <2>4. \A c \in Call : Shaped(call[c]) /\ WritesAlone(call[c], c) /\ Holds(call[c])
    BY <2>2, IdleHolds DEF WritesAlone, Persisting
  <2>5. Untouched /\ FilesHold /\ RowsHold
    BY DEF Init, Untouched, FilesHold, RowsHold, Stored
  <2> QED
    BY <2>1, <2>3, <2>4, <2>5, TypeParts DEF IInv
<1>2. IInv /\ [Next]_vars => IInv'
  <2> SUFFICES ASSUME IInv, [Next]_vars
               PROVE  IInv'
    OBVIOUS
  <2>1. ASSUME NEW i \in Incident, IncidentAppears(i)
        PROVE  IInv'
    BY <2>1, IncidentHolds
  <2>2. ASSUME NEW c \in Call, NEW i \in Incident, NEW k \in Kind,
               AskTool(c, i, k) \/ CallMcpTool(c, i, k)
        PROVE  IInv'
    BY <2>2, AskHolds DEF CallMcpTool
  <2>3. ASSUME NEW c \in Call, NEW i \in Incident, AskSelection(c, i)
        PROVE  IInv'
    BY <2>3, AskHolds
  <2>4. ASSUME NEW c \in Call, EnsureIncident(c)
        PROVE  IInv'
    BY <2>4, EnsureHolds
  <2>5. ASSUME NEW c \in Call, ListForIncident(c)
        PROVE  IInv'
    BY <2>5, ListHolds
  <2>6. ASSUME NEW c \in Call, PlanToolSelection(c)
        PROVE  IInv'
    BY <2>6, PlanHolds
  <2>7. ASSUME NEW c \in Call, NEW reply \in Reply, NEW e \in Id, ToolExecutes(c, reply, e)
        PROVE  IInv'
    BY <2>7, ToolHolds
  <2>8. ASSUME NEW c \in Call, NEW e \in Id, ReadContent(c, e)
        PROVE  IInv'
    BY <2>8, ReadContentHolds
  <2>9. ASSUME NEW c \in Call, LinkArtifact(c)
        PROVE  IInv'
    BY <2>9, LinkHolds
  <2>10. ASSUME NEW c \in Call, InsertRow(c)
         PROVE  IInv'
    BY <2>10, InsertHolds
  <2>11. ASSUME NEW c \in Call, GetRow(c)
         PROVE  IInv'
    BY <2>11, GetHolds
  <2>12. ASSUME NEW c \in Call, ReadVerified(c)
         PROVE  IInv'
    BY <2>12, ReadVerifiedHolds
  <2>13. ASSUME NEW c \in Call,
                Answer(c) \/ Fail(c) \/ Stop(c) \/ \E reply \in Reply : ToolFails(c, reply)
         PROVE  IInv'
    BY <2>13, EndingHolds
  <2>14. ASSUME NEW e \in Id, Damage(e)
         PROVE  IInv'
    BY <2>14, DamageHolds
  <2>15. CASE UNCHANGED vars
    <3>1. temporary' \in [Id -> Bytes \cup {None}] /\ faults' \in 0..MaxFaults
      BY <2>15 DEF vars, files, IInv, TypeOK
    <3>2. UNCHANGED <<incidents, rows, artifact, history>> /\ call' = call
      BY <2>15 DEF vars, files
    <3> QED
      BY <3>1, <3>2, StoreStays, CallsStay, OfCall
  <2> QED
    BY <2>1, <2>2, <2>3, <2>4, <2>5, <2>6, <2>7, <2>8, <2>9, <2>10, <2>11, <2>12, <2>13, <2>14, <2>15
    DEF Next
<1> QED
  BY <1>1, <1>2, PTL DEF Spec

(* Tables, files and calls keep their shape, and no two calls ever write   *)
(* under one uuid.                                                         *)
THEOREM Typing == Spec => []TypeOK
BY Inductive, PTL DEF IInv

(* Whatever fails or stops in between, a row names a whole artifact with   *)
(* the content that its tool observed, until damage from outside, and what *)
(* an answer of 201 names is stored.                                       *)
THEOREM RowsAreBacked == Spec => []RowsBacked
<1>1. IInv => RowsBacked
  BY DEF IInv, FilesHold, RowsHold, RowsBacked, Holds, Gathers
<1> QED
  BY <1>1, Inductive, PTL

(* read_content serves what the tool had observed, or nothing.             *)
THEOREM ServedAsObserved == Spec => []ServedIsObserved
<1>1. IInv => ServedIsObserved
  BY DEF IInv, RowsHold, ServedIsObserved, Holds, Reads
<1> QED
  BY <1>1, Inductive, PTL

(* Rows of different kinds count for as many kinds.                        *)
LEMMA KindsCount ==
  ASSUME NEW ids, IsFiniteSet(ids), \A d, e \in ids : rows[d].kind = rows[e].kind => d = e
  PROVE  IsFiniteSet(KindsOf(ids)) /\ Cardinality(KindsOf(ids)) = Cardinality(ids)
<1>1. PICK f : f = [e \in ids |-> rows[e].kind]
  OBVIOUS
<1>2. f \in [ids -> KindsOf(ids)] /\ IsInjective(f)
  BY <1>1 DEF KindsOf, IsInjective
<1>3. \A k \in KindsOf(ids) : \E e \in ids : f[e] = k
  BY <1>1 DEF KindsOf
<1>4. f \in Bijection(ids, KindsOf(ids))
  BY <1>2, <1>3 DEF Bijection, Injection, Surjection
<1> QED
  BY <1>4, FS_Bijection DEF ExistsBijection

(* Whatever the planner proposes and whatever runs beside it, a selection  *)
(* collects each missing kind at most once, and answers with two at most   *)
(* or with all of them.                                                    *)
THEOREM SelectionFills == Spec => []SelectionFillsGaps
<1>1. ASSUME IInv, NEW c \in Call, call[c].before # None
      PROVE  LET missing == Missing(call[c].before)
                 collected == KindsOf(call[c].ids)
             IN /\ collected \subseteq missing
                /\ Cardinality(collected) = Cardinality(call[c].ids)
                /\ call[c].step = "told" =>
                     /\ collected = {} => missing = {}
                     /\ Cardinality(collected) > 2 => collected = missing
  <2>1. Selects(call[c]) /\ Gathers(call[c])
    BY <1>1 DEF IInv, Holds
  <2>2. /\ IsFiniteSet(call[c].ids)
        /\ KindsOf(call[c].ids) \subseteq Missing(call[c].before)
        /\ Cardinality(KindsOf(call[c].ids)) = Cardinality(call[c].ids)
        /\ IsFiniteSet(KindsOf(call[c].ids))
    BY <1>1, <2>1, KindsCount DEF Selects
  <2>3. ASSUME call[c].step = "told"
        PROVE  \/ Cardinality(KindsOf(call[c].ids)) \in 1..2
               \/ KindsOf(call[c].ids) = Missing(call[c].before)
    <3>1. call[c].tools = <<>>
      BY <2>1, <2>3 DEF Gathers
    <3>2. Len(<<>>) = 0 /\ Range(<<>>) = {}
      BY DEF Range
    <3>3. Cardinality(call[c].ids) \in Nat
      BY <2>2, FS_CardinalityType
    <3>4. PICK n \in Nat : n = Cardinality(call[c].ids)
      BY <3>3
    <3>5. 0 + n \in 1..2 \/ KindsOf(call[c].ids) \cup {} = Missing(call[c].before)
      BY <1>1, <2>1, <2>3, <3>1, <3>2, <3>4 DEF Selects
    <3> QED
      BY <2>2, <3>4, <3>5
  <2>4. Cardinality({}) = 0
    BY FS_EmptySet
  <2> QED
    BY <2>2, <2>3, <2>4
<1>2. IInv => SelectionFillsGaps
  BY <1>1 DEF SelectionFillsGaps
<1> QED
  BY <1>2, Inductive, PTL
===============================================================================
