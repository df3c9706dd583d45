----------------------------- MODULE GraphPromise -----------------------------
(***************************************************************************)
(* What the RCA graph (rca_graph.py) promises to the runtime that invokes  *)
(* and resumes it, as a specification of the thread's checkpoint alone:    *)
(* the first invocation saves the input, and from then on the checkpoint   *)
(* takes the graph's nodes in their order, each at most once, however      *)
(* often the graph fails and is resumed.  RcaGraph implements this         *)
(* specification; RcaRuns runs graphs by its steps.                        *)
(***************************************************************************)
CONSTANTS
  Id,     \* evidence ids: those of the incident, and those a model invents
  None    \* no verdict yet

VARIABLE saved

Node ==
  {"load_context", "commander", "investigate", "synthesize", "citation_guard",
   "reject_citations", "verifier"}

(* next: what runs next - "none" before the graph is invoked, "end" when   *)
(* it has ended.  draft: the ids that the draft cites.                     *)
Checkpoint ==
  [next : Node \cup {"none", "end"}, evidence : SUBSET Id, draft : SUBSET Id,
   verdict : {None, "APPROVED", "REJECTED"}]

NoCheckpoint == [next |-> "none", evidence |-> {}, draft |-> {}, verdict |-> None]

Input(E) == [next |-> "load_context", evidence |-> E, draft |-> {}, verdict |-> None]

(* A draft cites at least one id, of whatever evidence it likes.           *)
Draft == (SUBSET Id) \ {{}}

(* The edges of _build: the checkpoints that a superstep may leave.        *)
After(t) ==
  CASE t.next = "load_context" -> {[t EXCEPT !.next = "commander"]}
    [] t.next = "commander" -> {[t EXCEPT !.next = "investigate"]}
    [] t.next = "investigate" -> {[t EXCEPT !.next = "synthesize"]}
    [] t.next = "synthesize" -> {[t EXCEPT !.next = "citation_guard", !.draft = d] : d \in Draft}
    [] t.next = "citation_guard" ->
         {[t EXCEPT !.next = IF t.draft \subseteq t.evidence THEN "verifier" ELSE "reject_citations"]}
    [] t.next = "reject_citations" -> {[t EXCEPT !.next = "end", !.verdict = "REJECTED"]}
    [] t.next = "verifier" ->
         {[t EXCEPT !.next = "end", !.verdict = v] : v \in {"APPROVED", "REJECTED"}}
    [] OTHER -> {}

Init == saved = NoCheckpoint

Next ==
  \/ saved = NoCheckpoint /\ \E E \in (SUBSET Id) \ {{}} : saved' = Input(E)
  \/ saved' \in After(saved)

Spec == Init /\ [][Next]_saved
===============================================================================
