------------------------------- MODULE RcaGraph -------------------------------
(***************************************************************************)
(* The RCA graph of one run (rca_graph.py), with the model client's call   *)
(* budget (rca_model.py) and the checkpoints of LangGraph, a library that  *)
(* is modelled by what it does for this graph: it runs a superstep's tasks *)
(* in parallel threads, keeps the result of every task that succeeds, and  *)
(* saves a checkpoint when all have; a task that raises ends the           *)
(* invocation once the other threads have ended; an invocation without     *)
(* input goes on from the checkpoint with the tasks that have no result.   *)
(*                                                                         *)
(* The model answers anything its output schema allows.  A call is one     *)
(* step: its reservation of the budget is what the threads share, and the  *)
(* answer depends on nothing that others change.                           *)
(***************************************************************************)
EXTENDS Naturals, Sequences, FiniteSets, SequencesExt

CONSTANTS
  Id,          \* evidence ids: those of the incident, and those a model invents
  Role,        \* the investigators
  RoleOf,      \* the role that ROLE_EVIDENCE_KINDS gives an evidence's kind to
  MaxCalls,    \* rca_max_model_calls
  None,
  MaxAttempts  \* bound: invocations and resumptions of the run

ASSUME GraphAssumption ==
  /\ IsFiniteSet(Role) /\ RoleOf \in [Id -> Role]
  /\ MaxCalls \in Nat /\ MaxAttempts \in Nat
  /\ None \notin [role : Role, cites : SUBSET Id, claims : BOOLEAN] \cup {"APPROVED", "REJECTED"}
  /\ Role \cap {"load_context", "commander", "investigate", "synthesize", "citation_guard",
                "reject_citations", "verifier", "none", "end"} = {}

VARIABLES
  saved,       \* the checkpoint: RcaState and what runs next
  pending,     \* the results kept for the superstep that is under way
  attempt,     \* whether an invocation is "running", and how the last one ended
  work,        \* how far the tasks of the superstep are in this attempt
  calls,       \* call_count of this attempt's model
  attempts,
  answered,    \* history: per task, the answers that became its result
  wasted       \* history: calls of this attempt that brought no result

history == <<answered, wasted>>
vars == <<saved, pending, attempt, work, calls, attempts, history>>

Abstract ==
  [next |-> saved.next, evidence |-> saved.evidence, draft |-> saved.draft,
   verdict |-> saved.verdict]
Promise == INSTANCE GraphPromise WITH saved <- Abstract

Task == Role \cup (Promise!Node \ {"investigate"})

(* claims: the finding has observations or hypotheses.                     *)
Finding == [role : Role, cites : SUBSET Id, claims : BOOLEAN]
PlanTask == [role : Role, ids : SUBSET Id]

(* RcaState, and the node that runs next.                                  *)
Checkpoint ==
  [next : Promise!Node \cup {"none", "end"}, evidence : SUBSET Id, plan : Seq(PlanTask),
   findings : Seq(Finding), draft : SUBSET Id, errors : SUBSET Id,
   verdict : {None, "APPROVED", "REJECTED"}, steps : Seq(Task)]

Input(E) ==
  [next |-> "load_context", evidence |-> E, plan |-> <<>>, findings |-> <<>>,
   draft |-> {}, errors |-> {}, verdict |-> None, steps |-> <<>>]
NoCheckpoint == [Input({}) EXCEPT !.next = "none"]

AllReady == [t \in Task |-> "ready"]
NothingPending == [r \in Role |-> None]

TypeOK ==
  /\ saved \in Checkpoint
  /\ pending \in [Role -> Finding \cup {None}]
  /\ attempt \in {"idle", "running", "failed", "returned"}
  /\ work \in [Task -> {"ready", "again", "failed", "exhausted"}]
  /\ calls \in 0..MaxCalls
  /\ attempts \in 0..MaxAttempts
  /\ answered \in [Task -> Nat]
  /\ wasted \in 0..MaxCalls

Init ==
  /\ saved = NoCheckpoint
  /\ pending = NothingPending
  /\ attempt = "idle"
  /\ work = AllReady
  /\ calls = 0
  /\ attempts = 0
  /\ answered = [t \in Task |-> 0]
  /\ wasted = 0

(* The tasks of the superstep that have no result yet.                     *)
ToDo ==
  IF saved.next = "investigate"
  THEN {r \in Role : pending[r] = None}
  ELSE {saved.next} \cap Task

Runs(t) == attempt = "running" /\ t \in ToDo /\ work[t] \in {"ready", "again"}

AsksModel(t) == t \in Role \cup {"commander", "synthesize", "verifier"}

(* Mutated, like the operations of the section below: the count is read    *)
(* and increased without the lock, and two threads that see the last call  *)
(* left both take it.                                                      *)
ReserveWithoutLock ==
  /\ calls < MaxCalls
  /\ calls' = IF saved.next = "investigate" THEN calls + 2 ELSE calls + 1

(* Mutated: two calls are reserved for every completion.                   *)
ReserveTwo ==
  /\ calls < MaxCalls
  /\ calls' = IF calls + 2 <= MaxCalls THEN calls + 2 ELSE MaxCalls

(* _reserve_call, under the model's lock.                                  *)
Reserve ==
  /\ calls < MaxCalls
  /\ calls' = calls + 1

Fails(t) ==
  /\ work' = [work EXCEPT ![t] = "failed"]
  /\ wasted' = wasted + 1
  /\ UNCHANGED <<saved, pending, attempt, attempts, answered>>

(* The answer is the result of task t.                                     *)
Answered(t) ==
  /\ answered' = [answered EXCEPT ![t] = @ + 1]
  /\ UNCHANGED <<attempts, wasted>>

(* A superstep of one task ends: its writes make the next checkpoint.      *)
Save(t, checkpoint) ==
  /\ saved' = [checkpoint EXCEPT !.steps = Append(@, t)]
  /\ work' = AllReady
  /\ attempt' = IF checkpoint.next = "end" THEN "returned" ELSE "running"
  /\ UNCHANGED <<pending, attempts>>

-----------------------------------------------------------------------------
(* Mutated operations.  No specification uses them: each is a bug that the *)
(* operation it varies could have, and that a property must notice.        *)

(* The input is passed again: the graph starts over, and the reducers of   *)
(* findings and steps append to what the thread has.                       *)
ResumeWithInput ==
  /\ attempt \in {"failed", "returned"}
  /\ attempts < MaxAttempts
  /\ attempts' = attempts + 1
  /\ saved' = [Input(saved.evidence) EXCEPT !.findings = saved.findings, !.steps = saved.steps]
  /\ attempt' = "running"
  /\ pending' = NothingPending
  /\ work' = AllReady
  /\ calls' = 0
  /\ wasted' = 0
  /\ UNCHANGED answered

(* The plan's evidence ids are taken as the model wrote them.              *)
CommanderTrusts ==
  /\ Runs("commander")
  /\ Reserve
  /\ \E ids \in SUBSET saved.evidence :
       Save("commander", [saved EXCEPT !.next = "investigate",
         !.plan = [n \in 1..Cardinality(Role) |->
                     [role |-> SetToSeq(Role)[n], ids |-> ids]]])
  /\ Answered("commander")

(* The guard lets the verifier judge the citations.                        *)
CitationGuardOff ==
  /\ Runs("citation_guard")
  /\ Save("citation_guard", [saved EXCEPT !.next = "verifier"])
  /\ UNCHANGED <<calls, history>>

(* An empty answer is asked for again, for as long as it takes, on the     *)
(* first reservation.                                                      *)
EmptyAnswerUnreserved(t) ==
  /\ Runs(t) /\ AsksModel(t)
  /\ work' = [work EXCEPT ![t] = IF work[t] = "ready" THEN "again" ELSE "ready"]
  /\ UNCHANGED <<saved, pending, attempt, calls, attempts, history>>

-----------------------------------------------------------------------------
(* invoke: LangGraph saves the input before the first superstep.           *)
Invoke(E) ==
  /\ saved = NoCheckpoint
  /\ attempt = "idle"
  /\ attempts < MaxAttempts
  /\ attempts' = attempts + 1
  /\ saved' = Input(E)
  /\ attempt' = "running"
  /\ UNCHANGED <<pending, work, calls, history>>

(* resume, with a model of its own: a graph that has ended returns its     *)
(* state and runs nothing.                                                 *)
Resume ==
  /\ attempt \in {"failed", "returned"}
  /\ attempts < MaxAttempts
  /\ attempts' = attempts + 1
  /\ attempt' = IF saved.next = "end" THEN "returned" ELSE "running"
  /\ calls' = 0
  /\ wasted' = 0
  /\ UNCHANGED <<saved, pending, work, answered>>

LoadContext ==
  /\ Runs("load_context")
  /\ Save("load_context", [saved EXCEPT !.next = "commander"])
  /\ UNCHANGED <<calls, history>>

(* The ids of a task are those of its role's kinds, whatever the model     *)
(* wrote.  Its plan has one task per role, in an order of its choice.      *)
Assigned(E, r) == {e \in E : RoleOf[e] = r}

Commander ==
  /\ Runs("commander")
  /\ Reserve
  /\ \E order \in SetToSeqs(Role) :
       Save("commander", [saved EXCEPT !.next = "investigate",
         !.plan = [n \in DOMAIN order |->
                     [role |-> order[n], ids |-> Assigned(saved.evidence, order[n])]]])
  /\ Answered("commander")

(* An investigator answers for its own task, cites only what it was given, *)
(* and without evidence claims nothing and says so.                        *)
AllowedIds(r) == UNION {task.ids : task \in {t \in ToSet(saved.plan) : t.role = r}}

Acceptable(r, finding, limitations) ==
  /\ finding.role = r
  /\ finding.cites \subseteq AllowedIds(r)
  /\ AllowedIds(r) = {} => ~finding.claims /\ limitations

Investigate(r) ==
  /\ Runs(r)
  /\ Reserve
  /\ \E finding \in Finding, limitations \in BOOLEAN :
       \/ /\ Acceptable(r, finding, limitations)
          /\ pending' = [pending EXCEPT ![r] = finding]
          /\ Answered(r)
          /\ UNCHANGED <<saved, attempt, work>>
       \/ /\ ~Acceptable(r, finding, limitations)
          /\ Fails(r)

(* All investigators have succeeded: LangGraph applies their writes in the *)
(* order of the plan, not of their answers.                                *)
Merge ==
  /\ attempt = "running"
  /\ saved.next = "investigate"
  /\ ToDo = {}
  /\ saved' = [saved EXCEPT !.next = "synthesize",
       !.findings = @ \o [n \in DOMAIN saved.plan |-> pending[saved.plan[n].role]],
       !.steps = @ \o [n \in DOMAIN saved.plan |-> saved.plan[n].role]]
  /\ pending' = NothingPending
  /\ work' = AllReady
  /\ UNCHANGED <<attempt, calls, attempts, history>>

Synthesize ==
  /\ Runs("synthesize")
  /\ Reserve
  /\ \E draft \in Promise!Draft :
       Save("synthesize", [saved EXCEPT !.next = "citation_guard", !.draft = draft])
  /\ Answered("synthesize")

CitationGuard ==
  LET errors == saved.draft \ saved.evidence IN
  /\ Runs("citation_guard")
  /\ Save("citation_guard", [saved EXCEPT !.errors = errors,
       !.next = IF errors # {} THEN "reject_citations" ELSE "verifier"])
  /\ UNCHANGED <<calls, history>>

RejectCitations ==
  /\ Runs("reject_citations")
  /\ Save("reject_citations", [saved EXCEPT !.next = "end", !.verdict = "REJECTED"])
  /\ UNCHANGED <<calls, history>>

(* An approval with objections is a rejection.                             *)
Verifier ==
  /\ Runs("verifier")
  /\ Reserve
  /\ \E decision \in {"APPROVED", "REJECTED"}, objections \in BOOLEAN :
       Save("verifier", [saved EXCEPT !.next = "end",
         !.verdict = IF objections THEN "REJECTED" ELSE decision])
  /\ Answered("verifier")

-----------------------------------------------------------------------------
(* _complete: an empty answer is asked for once more ...                   *)
EmptyAnswer(t) ==
  /\ Runs(t) /\ AsksModel(t)
  /\ Reserve
  /\ work' = [work EXCEPT ![t] = IF work[t] = "ready" THEN "again" ELSE "failed"]
  /\ wasted' = wasted + 1
  /\ UNCHANGED <<saved, pending, attempt, attempts, answered>>

(* ... an error, or an answer outside the schema, is raised.               *)
CallFails(t) ==
  /\ Runs(t) /\ AsksModel(t)
  /\ Reserve
  /\ Fails(t)

BudgetExhausted(t) ==
  /\ Runs(t) /\ AsksModel(t)
  /\ calls >= MaxCalls
  /\ work' = [work EXCEPT ![t] = "exhausted"]
  /\ UNCHANGED <<saved, pending, attempt, calls, attempts, history>>

(* A node without a model fails only with the saver.                       *)
SaverFails(t) ==
  /\ Runs(t) /\ ~AsksModel(t)
  /\ work' = [work EXCEPT ![t] = "failed"]
  /\ UNCHANGED <<saved, pending, attempt, calls, attempts, history>>

(* The invocation raises.  Other tasks may have ended before; what they    *)
(* had done and not saved is lost.                                         *)
Raise ==
  /\ attempt = "running"
  /\ \E t \in Task : work[t] \in {"failed", "exhausted"}
  /\ attempt' = "failed"
  /\ work' = AllReady
  /\ UNCHANGED <<saved, pending, calls, attempts, history>>

Progress ==
  \/ LoadContext \/ Commander \/ Merge \/ Synthesize
  \/ CitationGuard \/ RejectCitations \/ Verifier \/ Raise
  \/ \E r \in Role : Investigate(r)
  \/ \E t \in Task : EmptyAnswer(t) \/ CallFails(t) \/ BudgetExhausted(t) \/ SaverFails(t)

Next ==
  \/ \E E \in (SUBSET Id) \ {{}} : Invoke(E)
  \/ Resume
  \/ Progress

Spec == Init /\ [][Next]_vars

(* A node runs its calls to their end: each has a timeout.                 *)
FairSpec == Spec /\ WF_vars(Progress)

-----------------------------------------------------------------------------
(* The steps that a finished run stores tell the graph's path, each node   *)
(* once and the investigators in the order of the plan, whatever failed    *)
(* and was resumed in between (RcaState.steps, rca_graph.py:41).           *)
StepsTellThePath ==
  LET roles == [n \in DOMAIN saved.plan |-> saved.plan[n].role]
      path == <<"load_context", "commander">> \o roles \o
              <<"synthesize", "citation_guard",
                IF saved.errors = {} THEN "verifier" ELSE "reject_citations">>
  IN /\ IsPrefix(saved.steps, path)
     /\ saved.next = "end" => saved.steps = path

(* Every finding, kept or merged, cites only evidence that the run has and *)
(* that the finding's role may see, and claims nothing where there is none *)
(* (_commander, _investigate); merged findings are one per role.           *)
FindingsStayInRole ==
  /\ \A finding \in ToSet(saved.findings) \cup ({pending[r] : r \in Role} \ {None}) :
       /\ finding.cites \subseteq Assigned(saved.evidence, finding.role)
       /\ Assigned(saved.evidence, finding.role) = {} => ~finding.claims
  /\ saved.findings # <<>> =>
       [n \in DOMAIN saved.findings |-> saved.findings[n].role]
         = [n \in DOMAIN saved.plan |-> saved.plan[n].role]

(* An approved draft cites evidence, only evidence of the run, and the     *)
(* verifier has approved it; the verifier is not asked about a draft with  *)
(* foreign citations (_route_after_citation_guard).                        *)
ApprovedIsGrounded ==
  /\ saved.verdict = "APPROVED" =>
       saved.draft # {} /\ saved.draft \subseteq saved.evidence /\ answered["verifier"] = 1
  /\ ~(saved.draft \subseteq saved.evidence) => answered["verifier"] = 0

(* However often a run is resumed, no node's answer is asked for again     *)
(* once it has become the node's result (graph.resume, rca_graph.py:237).  *)
AnsweredOnce == \A t \in Task : answered[t] <= 1

(* The budget of one attempt ends early only because calls were wasted:    *)
(* parallel investigators cannot use up what the later nodes need          *)
(* (_reserve_call, rca_model.py:95).                                       *)
ResultCalls == Cardinality(Role) + 3
BudgetSuffices ==
  (\E t \in Task : work[t] = "exhausted") => wasted + ResultCalls > MaxCalls

(* An invocation ends: it returns or raises (_complete, rca_model.py:101). *)
AttemptEnds == attempt = "running" ~> attempt # "running"

(* What the runtime relies on: the checkpoint takes the graph's nodes in   *)
(* order and nothing takes it back (module GraphPromise).                  *)
KeepsPromise == Promise!Spec
===============================================================================
