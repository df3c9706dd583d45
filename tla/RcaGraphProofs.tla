---------------------------- MODULE RcaGraphProofs ----------------------------
(***************************************************************************)
(* Proofs about RcaGraph, for every set of investigators and evidence,     *)
(* every budget and any number of attempts.                                *)
(***************************************************************************)
EXTENDS RcaGraph, SequenceTheorems, FiniteSetTheorems, TLAPS

(* The nodes in front of which the checkpoint stands when a node is done.  *)
GuardDone == {"reject_citations", "verifier", "end"}
SynthesisDone == GuardDone \cup {"citation_guard"}
InvestigationDone == SynthesisDone \cup {"synthesize"}
PlanDone == InvestigationDone \cup {"investigate"}

(* The inductive invariant.  What the checkpoint holds, by how far it is:  *)
Staged ==
  /\ saved.next = "none" => saved = NoCheckpoint
  /\ saved.next \notin PlanDone => saved.plan = <<>>
  /\ saved.next \notin InvestigationDone => saved.findings = <<>>
  /\ saved.next # "investigate" => pending = NothingPending
  /\ saved.next \in SynthesisDone => saved.draft # {}
  /\ saved.errors = IF saved.next \in GuardDone THEN saved.draft \ saved.evidence ELSE {}
  /\ saved.next = "verifier" => saved.errors = {}
  /\ saved.next = "reject_citations" => saved.errors # {}
  /\ saved.verdict = "APPROVED" => saved.next = "end" /\ saved.errors = {}

(* the steps are the path up to there: *)
Roles == [n \in DOMAIN saved.plan |-> saved.plan[n].role]
Opening == <<"load_context", "commander">>
Closing ==
  <<"synthesize", "citation_guard", IF saved.errors = {} THEN "verifier" ELSE "reject_citations">>
StepsUpToNext ==
  /\ saved.next \in {"none", "load_context"} => saved.steps = <<>>
  /\ saved.next = "commander" => saved.steps = <<"load_context">>
  /\ saved.next = "investigate" => saved.steps = Opening
  /\ saved.next = "synthesize" => saved.steps = Opening \o Roles
  /\ saved.next = "citation_guard" => saved.steps = (Opening \o Roles) \o <<"synthesize">>
  /\ saved.next \in {"verifier", "reject_citations"} =>
       saved.steps = (Opening \o Roles) \o <<"synthesize", "citation_guard">>
  /\ saved.next = "end" => saved.steps = (Opening \o Roles) \o Closing

(* a planned task has the evidence of its role, and a kept finding is that *)
(* of its investigator: *)
InRole ==
  /\ \A n \in DOMAIN saved.plan :
       saved.plan[n].ids = Assigned(saved.evidence, saved.plan[n].role)
  /\ \A r \in Role : pending[r] # None => pending[r].role = r
  /\ FindingsStayInRole

(* each result was answered once, and nothing else was: *)
HasResult(t) ==
  \/ t \in Role /\ (pending[t] # None \/ saved.next \in InvestigationDone)
  \/ t = "commander" /\ saved.next \in PlanDone
  \/ t = "synthesize" /\ saved.next \in SynthesisDone
  \/ t = "verifier" /\ saved.next = "end" /\ saved.errors = {}
AnswersAreResults == \A t \in Task : answered[t] = IF HasResult(t) THEN 1 ELSE 0

(* and a call of this attempt brought a result or was wasted.              *)
ResultsOf(ans) == {t \in Task : AsksModel(t) /\ ans[t] # 0}
Results == ResultsOf(answered)
CallsAccounted ==
  /\ attempt # "running" => work = AllReady
  /\ wasted <= calls
  /\ calls <= wasted + Cardinality(Results)
  /\ BudgetSuffices

IInv == TypeOK /\ Staged /\ StepsUpToNext /\ InRole /\ AnswersAreResults /\ CallsAccounted
-----------------------------------------------------------------------------
(* What runs: a node is the next of the checkpoint, an investigator is one *)
(* without a finding.                                                      *)
LEMMA RunningNode ==
  ASSUME NEW t \in Promise!Node, Runs(t)
  PROVE  saved.next = t /\ t # "investigate"
BY GraphAssumption DEF Runs, ToDo, Promise!Node

(* An investigator runs only before its result is there.                    *)
LEMMA RunningRole ==
  ASSUME TypeOK, NEW r \in Role, Runs(r)
  PROVE  saved.next = "investigate" /\ pending[r] = None
BY GraphAssumption DEF Runs, ToDo, TypeOK, Checkpoint, Promise!Node

(* The checkpoint, written out.                                            *)
CheckpointOf(n, p, f, d, e, v, s) ==
  [next |-> n, evidence |-> saved.evidence, plan |-> p, findings |-> f, draft |-> d,
   errors |-> e, verdict |-> v, steps |-> s]

(* What the steps that end a superstep write.                              *)
LEMMA LoadContextWrites ==
  ASSUME TypeOK, LoadContext
  PROVE  /\ saved.next = "load_context"
         /\ saved' = CheckpointOf("commander", saved.plan, saved.findings, saved.draft,
                                  saved.errors, saved.verdict, Append(saved.steps, "load_context"))
BY RunningNode DEF LoadContext, Save, TypeOK, Checkpoint, CheckpointOf, Promise!Node

(* What the commander writes.                                               *)
LEMMA CommanderWrites ==
  ASSUME TypeOK, Commander
  PROVE  /\ saved.next = "commander"
         /\ \E order \in SetToSeqs(Role) :
              saved' = CheckpointOf("investigate",
                [n \in DOMAIN order |-> [role |-> order[n], ids |-> Assigned(saved.evidence, order[n])]],
                saved.findings, saved.draft, saved.errors, saved.verdict,
                Append(saved.steps, "commander"))
<1>1. saved.next = "commander"
  BY RunningNode DEF Commander, Promise!Node
<1> PICK order \in SetToSeqs(Role) :
      Save("commander", [saved EXCEPT !.next = "investigate",
        !.plan = [n \in DOMAIN order |->
                    [role |-> order[n], ids |-> Assigned(saved.evidence, order[n])]]])
  BY DEF Commander
<1> DEFINE plan == [n \in DOMAIN order |-> [role |-> order[n], ids |-> Assigned(saved.evidence, order[n])]]
<1>2. ASSUME NEW p, saved' = [[saved EXCEPT !.next = "investigate", !.plan = p]
                                EXCEPT !.steps = Append(@, "commander")]
      PROVE  saved' = CheckpointOf("investigate", p, saved.findings, saved.draft, saved.errors,
                                   saved.verdict, Append(saved.steps, "commander"))
  BY <1>2 DEF TypeOK, Checkpoint, CheckpointOf
<1> QED
  BY <1>1, <1>2 DEF Save

(* What the merge of all findings writes.                                   *)
LEMMA MergeWrites ==
  ASSUME TypeOK, Merge
  PROVE  /\ saved.next = "investigate"
         /\ saved' = CheckpointOf("synthesize", saved.plan,
              saved.findings \o [n \in DOMAIN saved.plan |-> pending[saved.plan[n].role]],
              saved.draft, saved.errors, saved.verdict, saved.steps \o Roles)
<1>1. ASSUME NEW f, NEW s, saved' = [saved EXCEPT !.next = "synthesize", !.findings = f, !.steps = s]
      PROVE  saved' = CheckpointOf("synthesize", saved.plan, f, saved.draft, saved.errors,
                                   saved.verdict, s)
  BY <1>1 DEF TypeOK, Checkpoint, CheckpointOf
<1> QED
  BY <1>1 DEF Merge, Roles

(* What the synthesis writes.                                               *)
LEMMA SynthesizeWrites ==
  ASSUME TypeOK, Synthesize
  PROVE  /\ saved.next = "synthesize"
         /\ \E draft \in Promise!Draft :
              saved' = CheckpointOf("citation_guard", saved.plan, saved.findings, draft,
                saved.errors, saved.verdict, Append(saved.steps, "synthesize"))
BY RunningNode DEF Synthesize, Save, TypeOK, Checkpoint, CheckpointOf, Promise!Node

(* What the citation guard writes.                                          *)
LEMMA CitationGuardWrites ==
  ASSUME TypeOK, CitationGuard
  PROVE  LET errors == saved.draft \ saved.evidence IN
         /\ saved.next = "citation_guard"
         /\ saved' = CheckpointOf(IF errors # {} THEN "reject_citations" ELSE "verifier",
              saved.plan, saved.findings, saved.draft, errors, saved.verdict,
              Append(saved.steps, "citation_guard"))
BY RunningNode DEF CitationGuard, Save, TypeOK, Checkpoint, CheckpointOf, Promise!Node

(* What the rejection of the citations writes.                              *)
LEMMA RejectCitationsWrites ==
  ASSUME TypeOK, RejectCitations
  PROVE  /\ saved.next = "reject_citations"
         /\ saved' = CheckpointOf("end", saved.plan, saved.findings, saved.draft, saved.errors,
              "REJECTED", Append(saved.steps, "reject_citations"))
BY RunningNode DEF RejectCitations, Save, TypeOK, Checkpoint, CheckpointOf, Promise!Node

(* What the verifier writes.                                                *)
LEMMA VerifierWrites ==
  ASSUME TypeOK, Verifier
  PROVE  /\ saved.next = "verifier"
         /\ \E verdict \in {"APPROVED", "REJECTED"} :
              saved' = CheckpointOf("end", saved.plan, saved.findings, saved.draft, saved.errors,
                verdict, Append(saved.steps, "verifier"))
BY RunningNode DEF Verifier, Save, TypeOK, Checkpoint, CheckpointOf, Promise!Node

-----------------------------------------------------------------------------
(* The shape of what is written.                                           *)
LEMMA PlanType ==
  ASSUME NEW E \in SUBSET Id, NEW order \in SetToSeqs(Role)
  PROVE  /\ order \in Seq(Role)
         /\ [n \in DOMAIN order |-> [role |-> order[n], ids |-> Assigned(E, order[n])]] \in Seq(PlanTask)
<1>1. Cardinality(Role) \in Nat
  BY GraphAssumption, FS_CardinalityType
<1>2. order \in [1..Cardinality(Role) -> Role]
  BY DEF SetToSeqs
<1>3. ASSUME NEW n \in DOMAIN order
      PROVE  [role |-> order[n], ids |-> Assigned(E, order[n])] \in PlanTask
  BY <1>2 DEF PlanTask, Assigned
<1> QED
  BY <1>1, <1>2, <1>3

(* A plan is a sequence of roles.                                           *)
LEMMA RolesType ==
  ASSUME saved.plan \in Seq(PlanTask)
  PROVE  /\ DOMAIN saved.plan = 1..Len(saved.plan) /\ Len(saved.plan) \in Nat
         /\ \A n \in DOMAIN saved.plan : saved.plan[n].role \in Role
         /\ Roles \in Seq(Role)
<1>1. DOMAIN saved.plan = 1..Len(saved.plan) /\ Len(saved.plan) \in Nat
  BY LenProperties
<1>2. ASSUME NEW n \in DOMAIN saved.plan
      PROVE  saved.plan[n].role \in Role
  <2>1. saved.plan[n] \in PlanTask
    BY <1>1, ElementOfSeq
  <2> QED
    BY <2>1 DEF PlanTask
<1> QED
  BY <1>1, <1>2 DEF Roles

(* The findings of all roles, in the order of the plan.                     *)
LEMMA FindingsType ==
  ASSUME TypeOK, \A r \in Role : pending[r] # None
  PROVE  [n \in DOMAIN saved.plan |-> pending[saved.plan[n].role]] \in Seq(Finding)
<1>1. saved.plan \in Seq(PlanTask) /\ \A r \in Role : pending[r] \in Finding
  BY DEF TypeOK, Checkpoint
<1> QED
  BY <1>1, RolesType

(* The steps told stay steps.                                               *)
LEMMA StepType ==
  ASSUME NEW s \in Seq(Task), NEW t \in Task
  PROVE  Append(s, t) \in Seq(Task)
OBVIOUS

(* The shape of every state, and with it that a wasted call was counted.   *)
Counts == wasted <= calls

(* The graph's checkpoints keep their shape, however attempts interleave,   *)
(* fail and are resumed.                                                    *)
THEOREM Typing == Spec => [](TypeOK /\ Counts)
<1> USE GraphAssumption
<1>1. Init => TypeOK /\ Counts
  <2>1. <<>> \in Seq(PlanTask) /\ <<>> \in Seq(Finding) /\ <<>> \in Seq(Task)
    OBVIOUS
  <2>2. NoCheckpoint \in Checkpoint
    BY <2>1 DEF NoCheckpoint, Input, Checkpoint
  <2> QED
    BY <2>2 DEF Init, TypeOK, Counts, NothingPending, AllReady
<1>2. TypeOK /\ Counts /\ [Next]_vars => TypeOK' /\ Counts'
  <2> SUFFICES ASSUME TypeOK, Counts, [Next]_vars PROVE TypeOK' /\ Counts'
    OBVIOUS
  <2>0. /\ saved \in Checkpoint /\ saved.plan \in Seq(PlanTask) /\ saved.findings \in Seq(Finding)
        /\ saved.draft \in SUBSET Id /\ saved.evidence \in SUBSET Id /\ saved.errors \in SUBSET Id
        /\ saved.verdict \in {None, "APPROVED", "REJECTED"} /\ saved.steps \in Seq(Task)
    BY DEF TypeOK, Checkpoint
  <2>a. \A t \in Promise!Node \ {"investigate"} : t \in Task /\ Append(saved.steps, t) \in Seq(Task)
    BY <2>0, StepType DEF Task
  <2>1. ASSUME NEW E \in SUBSET Id, Invoke(E)
        PROVE  TypeOK' /\ Counts'
    <3>1. saved' \in Checkpoint
      BY <2>1 DEF Invoke, Input, Checkpoint, Promise!Node
    <3> QED
      BY <2>1, <3>1 DEF Invoke, TypeOK, Counts, history
  <2>2. CASE Resume
    BY <2>2 DEF Resume, TypeOK, Counts
  <2>3. CASE LoadContext
    <3>0. PICK s \in Seq(Task) : s = Append(saved.steps, "load_context")
      BY <2>a DEF Promise!Node
    <3>1. saved' \in Checkpoint
      <4>1. saved' = CheckpointOf("commander", saved.plan, saved.findings, saved.draft,
                                  saved.errors, saved.verdict, s)
        BY <2>3, <3>0, LoadContextWrites
      <4> QED
        BY <2>0, <4>1 DEF Checkpoint, CheckpointOf, Promise!Node
    <3> QED
      BY <2>3, <3>1 DEF LoadContext, Save, TypeOK, AllReady, Counts, history
  <2>4. CASE Commander
    <3>0. PICK s \in Seq(Task) : s = Append(saved.steps, "commander")
      BY <2>a DEF Promise!Node
    <3>1. saved' \in Checkpoint
      <4>1. PICK p \in Seq(PlanTask) :
              saved' = CheckpointOf("investigate", p, saved.findings, saved.draft, saved.errors,
                                    saved.verdict, s)
        BY <2>0, <2>4, <3>0, CommanderWrites, PlanType
      <4> QED
        BY <2>0, <4>1 DEF Checkpoint, CheckpointOf, Promise!Node
    <3>2. "commander" \in Task
      BY <2>a DEF Promise!Node
    <3> QED
      BY <2>4, <3>1, <3>2 DEF Commander, Reserve, Answered, Save, TypeOK, AllReady, Counts
  <2>5. CASE Merge
    <3>1. \A r \in Role : pending[r] # None
      BY <2>5 DEF Merge, ToDo
    <3>2. PICK s \in Seq(Task) : s = saved.steps \o Roles
      <4>1. Roles \in Seq(Task)
        BY <2>0, RolesType, SeqMonotonic DEF Task
      <4> QED
        BY <2>0, <4>1, ConcatProperties
    <3>3. PICK f \in Seq(Finding) :
            f = saved.findings \o [n \in DOMAIN saved.plan |-> pending[saved.plan[n].role]]
      <4>1. [n \in DOMAIN saved.plan |-> pending[saved.plan[n].role]] \in Seq(Finding)
        BY <3>1, FindingsType
      <4> QED
        BY <2>0, <4>1, ConcatProperties
    <3>4. saved' \in Checkpoint
      <4>1. saved' = CheckpointOf("synthesize", saved.plan, f, saved.draft, saved.errors,
                                  saved.verdict, s)
        BY <2>5, <3>2, <3>3, MergeWrites
      <4> QED
        BY <2>0, <4>1 DEF Checkpoint, CheckpointOf, Promise!Node
    <3> QED
      BY <2>5, <3>4 DEF Merge, NothingPending, TypeOK, AllReady, Counts, history
  <2>6. CASE Synthesize
    <3>0. PICK s \in Seq(Task) : s = Append(saved.steps, "synthesize")
      BY <2>a DEF Promise!Node
    <3>1. saved' \in Checkpoint
      <4>1. PICK d \in SUBSET Id :
              saved' = CheckpointOf("citation_guard", saved.plan, saved.findings, d, saved.errors,
                                    saved.verdict, s)
        BY <2>6, <3>0, SynthesizeWrites DEF Promise!Draft
      <4> QED
        BY <2>0, <4>1 DEF Checkpoint, CheckpointOf, Promise!Node
    <3>2. "synthesize" \in Task
      BY <2>a DEF Promise!Node
    <3> QED
      BY <2>6, <3>1, <3>2 DEF Synthesize, Reserve, Answered, Save, TypeOK, AllReady, Counts
  <2>7. CASE CitationGuard
    <3>0. PICK s \in Seq(Task) : s = Append(saved.steps, "citation_guard")
      BY <2>a DEF Promise!Node
    <3>1. saved' \in Checkpoint
      <4>1. PICK n \in Promise!Node, e \in SUBSET Id :
              saved' = CheckpointOf(n, saved.plan, saved.findings, saved.draft, e,
                                    saved.verdict, s)
        BY <2>0, <2>7, <3>0, CitationGuardWrites DEF Promise!Node
      <4> QED
        BY <2>0, <4>1 DEF Checkpoint, CheckpointOf, Promise!Node
    <3> QED
      BY <2>7, <3>1 DEF CitationGuard, Save, TypeOK, AllReady, Counts, history
  <2>8. CASE RejectCitations
    <3>0. PICK s \in Seq(Task) : s = Append(saved.steps, "reject_citations")
      BY <2>a DEF Promise!Node
    <3>1. saved' \in Checkpoint
      <4>1. saved' = CheckpointOf("end", saved.plan, saved.findings, saved.draft, saved.errors,
                                  "REJECTED", s)
        BY <2>8, <3>0, RejectCitationsWrites
      <4> QED
        BY <2>0, <4>1 DEF Checkpoint, CheckpointOf, Promise!Node
    <3> QED
      BY <2>8, <3>1 DEF RejectCitations, Save, TypeOK, AllReady, Counts, history
  <2>9. CASE Verifier
    <3>0. PICK s \in Seq(Task) : s = Append(saved.steps, "verifier")
      BY <2>a DEF Promise!Node
    <3>1. saved' \in Checkpoint
      <4>1. PICK v \in {"APPROVED", "REJECTED"} :
              saved' = CheckpointOf("end", saved.plan, saved.findings, saved.draft, saved.errors, v, s)
        BY <2>9, <3>0, VerifierWrites
      <4> QED
        BY <2>0, <4>1 DEF Checkpoint, CheckpointOf, Promise!Node
    <3>2. "verifier" \in Task
      BY <2>a DEF Promise!Node
    <3> QED
      BY <2>9, <3>1, <3>2 DEF Verifier, Reserve, Answered, Save, TypeOK, AllReady, Counts
  <2>10. CASE Raise
    BY <2>10 DEF Raise, TypeOK, AllReady, Counts, history
  <2>11. ASSUME NEW r \in Role, Investigate(r)
         PROVE  TypeOK' /\ Counts'
    BY <2>11 DEF Investigate, Reserve, Answered, Fails, TypeOK, Counts, Task
  <2>12. ASSUME NEW t \in Task, EmptyAnswer(t) \/ CallFails(t) \/ BudgetExhausted(t) \/ SaverFails(t)
         PROVE  TypeOK' /\ Counts'
    BY <2>12 DEF EmptyAnswer, CallFails, BudgetExhausted, SaverFails, Fails, Reserve, TypeOK, Counts, history
  <2>13. CASE UNCHANGED vars
    BY <2>13 DEF vars, history, TypeOK, Counts
  <2> QED
    BY <2>1, <2>2, <2>3, <2>4, <2>5, <2>6, <2>7, <2>8, <2>9, <2>10, <2>11, <2>12, <2>13
       DEF Next, Progress
<1> QED
  BY <1>1, <1>2, PTL DEF Spec

-----------------------------------------------------------------------------
(* An investigator's answer is kept.                                       *)
Accepts(r, f) ==
  /\ saved.next = "investigate" /\ pending[r] = None
  /\ f.role = r /\ f.cites \subseteq AllowedIds(r) /\ (AllowedIds(r) = {} => ~f.claims)
  /\ pending' = [pending EXCEPT ![r] = f]
  /\ answered' = [answered EXCEPT ![r] = @ + 1]
  /\ saved' = saved

(* Every step keeps the checkpoint and the results, or is one of these.    *)
LEMMA StepKinds ==
  ASSUME TypeOK, [Next]_vars
  PROVE  \/ UNCHANGED <<saved, pending, answered>>
         \/ \E E \in (SUBSET Id) \ {{}} : Invoke(E)
         \/ \E r \in Role, f \in Finding : Accepts(r, f)
         \/ LoadContext \/ Commander \/ Merge \/ Synthesize
         \/ CitationGuard \/ RejectCitations \/ Verifier
<1>1. ASSUME NEW r \in Role, Investigate(r)
      PROVE  \/ UNCHANGED <<saved, pending, answered>>
             \/ \E f \in Finding : Accepts(r, f)
  <2>1. saved.next = "investigate" /\ pending[r] = None
    BY <1>1, RunningRole DEF Investigate
  <2> QED
    BY <1>1, <2>1 DEF Investigate, Accepts, Acceptable, Answered, Fails
<1>2. CASE \E t \in Task : EmptyAnswer(t) \/ CallFails(t) \/ BudgetExhausted(t) \/ SaverFails(t)
  BY <1>2 DEF EmptyAnswer, CallFails, BudgetExhausted, SaverFails, Fails, history
<1>3. CASE Resume \/ Raise \/ UNCHANGED vars
  BY <1>3 DEF Resume, Raise, vars, history
<1> QED
  BY <1>1, <1>2, <1>3 DEF Next, Progress

(* What the checkpoint holds goes with how far it is.                      *)
LEMMA StagedInitially == Init => Staged
BY GraphAssumption DEF Init, Staged, NoCheckpoint, Input, PlanDone, InvestigationDone, SynthesisDone, GuardDone

(* Every step keeps what the stages owe each other.                         *)
LEMMA StagedKept ==
  ASSUME TypeOK, Staged, [Next]_vars
  PROVE  Staged'
<1> USE GraphAssumption DEF PlanDone, InvestigationDone, SynthesisDone, GuardDone, CheckpointOf
<1>1. CASE UNCHANGED <<saved, pending, answered>>
  BY <1>1 DEF Staged
<1>2. ASSUME NEW E \in (SUBSET Id) \ {{}}, Invoke(E)
      PROVE  Staged'
  <2>1. saved' = Input(E) /\ pending' = NothingPending
    BY <1>2 DEF Invoke, Staged, NoCheckpoint, Input
  <2> QED
    BY <2>1 DEF Staged, Input
<1>3. ASSUME NEW r \in Role, NEW f \in Finding, Accepts(r, f)
      PROVE  Staged'
  BY <1>3 DEF Accepts, Staged
<1>4. CASE LoadContext
  BY <1>4, LoadContextWrites DEF LoadContext, Save, Staged
<1>5. CASE Commander
  BY <1>5, CommanderWrites DEF Commander, Save, Staged
<1>6. CASE Merge
  BY <1>6, MergeWrites DEF Merge, Staged
<1>7. CASE Synthesize
  BY <1>7, SynthesizeWrites DEF Synthesize, Save, Promise!Draft, Staged
<1>8. CASE CitationGuard
  BY <1>8, CitationGuardWrites DEF CitationGuard, Save, Staged
<1>9. CASE RejectCitations
  BY <1>9, RejectCitationsWrites DEF RejectCitations, Save, Staged
<1>10. CASE Verifier
  BY <1>10, VerifierWrites DEF Verifier, Save, Staged
<1> QED
  BY <1>1, <1>2, <1>3, <1>4, <1>5, <1>6, <1>7, <1>8, <1>9, <1>10, StepKinds

-----------------------------------------------------------------------------
(* The steps are the path up to the node that runs next.                   *)
LEMMA StepsInitially == Init => StepsUpToNext
BY DEF Init, StepsUpToNext, NoCheckpoint, Input

(* Paths are short sequences, told one by one:                              *)
LEMMA AppendToOne ==
  ASSUME NEW t, NEW u
  PROVE  Append(<<t>>, u) = <<t, u>>
<1> DEFINE S == {t, u}
<1>1. <<t>> \in Seq(S) /\ <<t, u>> \in Seq(S) /\ Len(<<t>>) = 1 /\ Len(<<t, u>>) = 2
  OBVIOUS
<1>2. /\ Append(<<t>>, u) \in Seq(S) /\ Len(Append(<<t>>, u)) = 2
      /\ Append(<<t>>, u)[1] = t /\ Append(<<t>>, u)[2] = u
  BY <1>1, AppendProperties
<1>3. \A i \in 1..2 : Append(<<t>>, u)[i] = <<t, u>>[i]
  <2>1. \A i \in 1..2 : i = 1 \/ i = 2
    OBVIOUS
  <2> QED
    BY <1>2, <2>1
<1> HIDE DEF S
<1> QED
  BY <1>1, <1>2, <1>3, SeqEqual

(* two more,                                                                *)
LEMMA AppendTwice ==
  ASSUME NEW s \in Seq(Task), NEW t \in Task, NEW u \in Task
  PROVE  /\ Append(s, t) = s \o <<t>>
         /\ Append(s \o <<t>>, u) = s \o <<t, u>>
OBVIOUS

(* and three.                                                               *)
LEMMA AppendThrice ==
  ASSUME NEW s \in Seq(Task), NEW t \in Task, NEW u \in Task, NEW v \in Task
  PROVE  Append(s \o <<t, u>>, v) = s \o <<t, u, v>>
OBVIOUS

(* All nodes but the fan-out are tasks.                                     *)
LEMMA NodesAreTasks == Promise!Node \ {"investigate"} \subseteq Task
BY DEF Task

(* Every step keeps the path told.                                          *)
LEMMA StepsKept ==
  ASSUME TypeOK, Staged, StepsUpToNext, [Next]_vars
  PROVE  StepsUpToNext'
<1> USE DEF PlanDone, InvestigationDone, SynthesisDone, GuardDone, CheckpointOf
<1>0. saved.steps \in Seq(Task) /\ Opening \o Roles \in Seq(Task)
  <2>1. saved.steps \in Seq(Task) /\ saved.plan \in Seq(PlanTask)
    BY DEF TypeOK, Checkpoint
  <2>2. Roles \in Seq(Task)
    BY <2>1, RolesType, SeqMonotonic DEF Task
  <2>3. Opening \in Seq(Task)
    BY NodesAreTasks DEF Opening, Promise!Node
  <2> QED
    BY <2>1, <2>2, <2>3, ConcatProperties
<1>a. saved'.plan = saved.plan => Roles' = Roles
  BY DEF Roles
<1>1. CASE UNCHANGED <<saved, pending, answered>>
  BY <1>1 DEF StepsUpToNext, Roles, Closing
<1>2. ASSUME NEW E \in (SUBSET Id) \ {{}}, Invoke(E)
      PROVE  StepsUpToNext'
  BY <1>2 DEF Invoke, StepsUpToNext, Input
<1>3. ASSUME NEW r \in Role, NEW f \in Finding, Accepts(r, f)
      PROVE  StepsUpToNext'
  BY <1>3 DEF Accepts, StepsUpToNext, Roles, Closing
<1>4. CASE LoadContext
  BY <1>4, LoadContextWrites DEF StepsUpToNext
<1>5. CASE Commander
  <2>1. saved'.steps = Append(saved.steps, "commander") /\ saved'.next = "investigate"
        /\ saved.steps = <<"load_context">>
    BY <1>5, CommanderWrites DEF StepsUpToNext
  <2>2. Append(<<"load_context">>, "commander") = Opening
    BY AppendToOne DEF Opening
  <2> QED
    BY <2>1, <2>2 DEF StepsUpToNext
<1>6. CASE Merge
  <2>1. saved'.plan = saved.plan /\ saved'.next = "synthesize" /\ saved.steps = Opening
        /\ saved'.steps = saved.steps \o Roles
    BY <1>6, MergeWrites DEF StepsUpToNext
  <2> QED
    BY <1>a, <2>1 DEF StepsUpToNext
<1>7. CASE Synthesize
  <2>1. saved'.steps = Append(Opening \o Roles, "synthesize") /\ saved'.plan = saved.plan
        /\ saved'.next = "citation_guard"
    BY <1>7, SynthesizeWrites DEF StepsUpToNext
  <2> QED
    BY <1>0, <1>a, <2>1, AppendTwice, NodesAreTasks DEF StepsUpToNext, Promise!Node
<1>8. CASE CitationGuard
  <2>1. \E n \in {"reject_citations", "verifier"}, e \in SUBSET Id :
          saved' = CheckpointOf(n, saved.plan, saved.findings, saved.draft, e, saved.verdict,
                                Append(saved.steps, "citation_guard"))
    BY <1>8, CitationGuardWrites DEF TypeOK, Checkpoint
  <2>2. saved.steps = (Opening \o Roles) \o <<"synthesize">>
    BY <1>8, CitationGuardWrites DEF StepsUpToNext
  <2>3. saved'.steps = Append((Opening \o Roles) \o <<"synthesize">>, "citation_guard")
        /\ saved'.plan = saved.plan /\ saved'.next \in {"verifier", "reject_citations"}
    BY <2>1, <2>2
  <2> QED
    BY <1>0, <1>a, <2>3, AppendTwice, NodesAreTasks DEF StepsUpToNext, Promise!Node
<1>9. CASE RejectCitations
  <2>1. saved'.steps = Append(saved.steps, "reject_citations")
        /\ saved'.plan = saved.plan /\ saved'.next = "end" /\ saved'.errors # {}
    BY <1>9, RejectCitationsWrites DEF Staged
  <2>2. saved.steps = (Opening \o Roles) \o <<"synthesize", "citation_guard">>
    BY <1>9, RejectCitationsWrites DEF StepsUpToNext
  <2>3. saved'.steps = (Opening \o Roles) \o <<"synthesize", "citation_guard", "reject_citations">>
    <3>1. "synthesize" \in Task /\ "citation_guard" \in Task /\ "reject_citations" \in Task
      BY NodesAreTasks DEF Promise!Node
    <3>2. PICK x \in Seq(Task) : x = Opening \o Roles
      BY <1>0
    <3>3. Append(x \o <<"synthesize", "citation_guard">>, "reject_citations")
            = x \o <<"synthesize", "citation_guard", "reject_citations">>
      BY <3>1, AppendThrice
    <3> QED
      BY <2>1, <2>2, <3>2, <3>3
  <2>4. Closing' = <<"synthesize", "citation_guard", "reject_citations">>
    BY <2>1 DEF Closing
  <2> QED
    BY <1>a, <2>1, <2>3, <2>4 DEF StepsUpToNext
<1>10. CASE Verifier
  <2>1. saved'.steps = Append(saved.steps, "verifier")
        /\ saved'.plan = saved.plan /\ saved'.next = "end" /\ saved'.errors = {}
    BY <1>10, VerifierWrites DEF Staged
  <2>2. saved.steps = (Opening \o Roles) \o <<"synthesize", "citation_guard">>
    BY <1>10, VerifierWrites DEF StepsUpToNext
  <2>3. saved'.steps = (Opening \o Roles) \o <<"synthesize", "citation_guard", "verifier">>
    <3>1. "synthesize" \in Task /\ "citation_guard" \in Task /\ "verifier" \in Task
      BY NodesAreTasks DEF Promise!Node
    <3>2. PICK x \in Seq(Task) : x = Opening \o Roles
      BY <1>0
    <3>3. Append(x \o <<"synthesize", "citation_guard">>, "verifier")
            = x \o <<"synthesize", "citation_guard", "verifier">>
      BY <3>1, AppendThrice
    <3> QED
      BY <2>1, <2>2, <3>2, <3>3
  <2>4. Closing' = <<"synthesize", "citation_guard", "verifier">>
    BY <2>1 DEF Closing
  <2> QED
    BY <1>a, <2>1, <2>3, <2>4 DEF StepsUpToNext
<1> QED
  BY <1>1, <1>2, <1>3, <1>4, <1>5, <1>6, <1>7, <1>8, <1>9, <1>10, StepKinds

-----------------------------------------------------------------------------
(* Plans and findings stay in their roles.                                 *)
LEMMA RolesInitially == Init => InRole
BY DEF Init, InRole, FindingsStayInRole, NoCheckpoint, Input, NothingPending, ToSet

(* What _investigate accepts is within the role's evidence.                *)
LEMMA AllowedIsAssigned ==
  ASSUME TypeOK, InRole, NEW r \in Role
  PROVE  AllowedIds(r) \subseteq Assigned(saved.evidence, r)
BY DEF AllowedIds, InRole, ToSet

InItsRole(f, E) ==
  f.cites \subseteq Assigned(E, f.role) /\ (Assigned(E, f.role) = {} => ~f.claims)

(* Every step keeps results in their role.                                  *)
LEMMA RolesKept ==
  ASSUME TypeOK, Staged, InRole, [Next]_vars
  PROVE  InRole'
<1> USE DEF PlanDone, InvestigationDone, SynthesisDone, GuardDone, CheckpointOf
<1>0. \A f \in ToSet(saved.findings) \cup ({pending[r] : r \in Role} \ {None}) :
        InItsRole(f, saved.evidence)
  BY DEF InRole, FindingsStayInRole, InItsRole
<1>1. ASSUME UNCHANGED pending, saved'.plan = saved.plan, saved'.evidence = saved.evidence,
             saved'.findings = saved.findings
      PROVE  InRole'
  BY <1>1 DEF InRole, FindingsStayInRole
<1>2. ASSUME NEW E \in (SUBSET Id) \ {{}}, Invoke(E)
      PROVE  InRole'
  <2>1. saved' = Input(E) /\ pending' = NothingPending
    BY <1>2 DEF Invoke, Staged, NoCheckpoint, Input
  <2> QED
    BY <2>1 DEF Input, InRole, FindingsStayInRole, NothingPending, ToSet
<1>3. ASSUME NEW r \in Role, NEW f \in Finding, Accepts(r, f)
      PROVE  InRole'
  <2>1. InItsRole(f, saved.evidence)
    BY <1>3, AllowedIsAssigned DEF Accepts, InItsRole
  <2>2. \A q \in Role : pending'[q] = IF q = r THEN f ELSE pending[q]
    BY <1>3 DEF Accepts, TypeOK
  <2>3. \A g \in ToSet(saved.findings) \cup ({pending'[q] : q \in Role} \ {None}) :
          InItsRole(g, saved.evidence)
    BY <1>0, <2>1, <2>2
  <2> QED
    BY <1>3, <2>2, <2>3 DEF Accepts, InRole, FindingsStayInRole, InItsRole
<1>4. CASE LoadContext
  BY <1>1, <1>4, LoadContextWrites DEF LoadContext, Save
<1>5. CASE Commander
  <2> PICK order \in SetToSeqs(Role) :
        saved' = CheckpointOf("investigate",
                [n \in DOMAIN order |-> [role |-> order[n], ids |-> Assigned(saved.evidence, order[n])]],
                saved.findings, saved.draft, saved.errors, saved.verdict,
                Append(saved.steps, "commander"))
    BY <1>5, CommanderWrites
  <2>1. \A n \in DOMAIN saved'.plan : saved'.plan[n].ids = Assigned(saved'.evidence, saved'.plan[n].role)
    OBVIOUS
  <2>2. saved'.findings = <<>> /\ pending' = NothingPending /\ pending' = pending
    BY <1>5, CommanderWrites DEF Commander, Save, Staged
  <2> QED
    BY <2>1, <2>2 DEF InRole, FindingsStayInRole, NothingPending, ToSet
<1>6. CASE Merge
  <2> DEFINE found == [n \in DOMAIN saved.plan |-> pending[saved.plan[n].role]]
  <2>1. saved.next = "investigate" /\ saved.findings = <<>> /\ pending' = NothingPending
        /\ \A r \in Role : pending[r] # None
    BY <1>6 DEF Merge, Staged, ToDo
  <2>2. saved.plan \in Seq(PlanTask)
    BY DEF TypeOK, Checkpoint
  <2>3. found \in Seq(Finding)
    BY <2>1, FindingsType
  <2>4. saved'.findings = found /\ saved'.plan = saved.plan /\ saved'.evidence = saved.evidence
    <3>1. saved.findings \o found = found
      BY <2>1, <2>3, ConcatEmptySeq
    <3>2. PICK f \in Seq(Finding) : f = found
      BY <2>3
    <3>3. saved' = CheckpointOf("synthesize", saved.plan, f, saved.draft, saved.errors,
                                saved.verdict, saved.steps \o Roles)
      BY <1>6, <3>1, <3>2, MergeWrites
    <3> QED
      BY <3>2, <3>3
  <2>5. \A n \in DOMAIN saved.plan : found[n].role = saved.plan[n].role /\ InItsRole(found[n], saved.evidence)
    BY <1>0, <2>1, <2>2, RolesType DEF InRole
  <2>6. DOMAIN found = DOMAIN saved.plan
    OBVIOUS
  <2> HIDE DEF found
  <2>7. \A n \in DOMAIN saved'.plan : saved'.plan[n].ids = Assigned(saved'.evidence, saved'.plan[n].role)
    BY <2>4 DEF InRole
  <2>8. \A g \in ToSet(saved'.findings) \cup ({pending'[q] : q \in Role} \ {None}) :
          InItsRole(g, saved'.evidence)
    BY <2>1, <2>4, <2>5, <2>6 DEF ToSet, NothingPending
  <2>9. [n \in DOMAIN saved'.findings |-> saved'.findings[n].role]
          = [n \in DOMAIN saved'.plan |-> saved'.plan[n].role]
    BY <2>4, <2>5, <2>6
  <2> QED
    BY <2>1, <2>7, <2>8, <2>9 DEF InRole, FindingsStayInRole, InItsRole, NothingPending
<1>7. CASE Synthesize
  BY <1>1, <1>7, SynthesizeWrites DEF Synthesize, Save
<1>8. CASE CitationGuard
  BY <1>1, <1>8, CitationGuardWrites DEF CitationGuard, Save
<1>9. CASE RejectCitations
  BY <1>1, <1>9, RejectCitationsWrites DEF RejectCitations, Save
<1>10. CASE Verifier
  BY <1>1, <1>10, VerifierWrites DEF Verifier, Save
<1> QED
  BY <1>1, <1>2, <1>3, <1>4, <1>5, <1>6, <1>7, <1>8, <1>9, <1>10, StepKinds

-----------------------------------------------------------------------------
(* Each result was answered once.                                          *)
LEMMA AnswersInitially == Init => AnswersAreResults
BY GraphAssumption DEF Init, AnswersAreResults, HasResult, NoCheckpoint, Input, NothingPending,
   PlanDone, InvestigationDone, SynthesisDone, GuardDone

(* Every step keeps an answer for each result.                              *)
LEMMA AnswersKept ==
  ASSUME TypeOK, Staged, AnswersAreResults, [Next]_vars
  PROVE  AnswersAreResults'
<1> USE GraphAssumption DEF PlanDone, InvestigationDone, SynthesisDone, GuardDone, CheckpointOf
<1>0. /\ answered \in [Task -> Nat] /\ pending \in [Role -> Finding \cup {None}]
      /\ \A r \in Role : r \in Task /\ r \notin {"commander", "synthesize", "verifier"}
      /\ {"commander", "synthesize", "verifier"} \subseteq Task
  BY DEF TypeOK, Task, Promise!Node
<1>1. CASE UNCHANGED <<saved, pending, answered>>
  BY <1>1 DEF AnswersAreResults, HasResult
<1>a. ASSUME UNCHANGED answered, \A t \in Task : HasResult(t)' <=> HasResult(t)
      PROVE  AnswersAreResults'
  BY <1>a DEF AnswersAreResults
<1>b. ASSUME NEW t \in Task, answered' = [answered EXCEPT ![t] = @ + 1], ~HasResult(t),
             \A u \in Task : HasResult(u)' <=> HasResult(u) \/ u = t
      PROVE  AnswersAreResults'
  BY <1>0, <1>b DEF AnswersAreResults
<1>2. ASSUME NEW E \in (SUBSET Id) \ {{}}, Invoke(E)
      PROVE  AnswersAreResults'
  BY <1>a, <1>2 DEF Invoke, HasResult, Staged, NoCheckpoint, Input, history
<1>3. ASSUME NEW r \in Role, NEW f \in Finding, Accepts(r, f)
      PROVE  AnswersAreResults'
  <2>1. f # None
    BY DEF Finding
  <2>2. ~HasResult(r) /\ \A u \in Task : HasResult(u)' <=> HasResult(u) \/ u = r
    BY <1>0, <1>3, <2>1 DEF Accepts, HasResult
  <2> QED
    BY <1>0, <1>3, <1>b, <2>2 DEF Accepts
<1>4. CASE LoadContext
  BY <1>a, <1>4, LoadContextWrites DEF LoadContext, Save, HasResult, history
<1>5. CASE Commander
  <2>1. ~HasResult("commander") /\ \A u \in Task : HasResult(u)' <=> HasResult(u) \/ u = "commander"
    BY <1>0, <1>5, CommanderWrites DEF Commander, Save, HasResult
  <2> QED
    BY <1>0, <1>5, <1>b, <2>1 DEF Commander, Answered
<1>6. CASE Merge
  <2>1. \A r \in Role : pending[r] # None
    BY <1>6 DEF Merge, ToDo
  <2>2. saved.next = "investigate" /\ saved'.next = "synthesize"
    BY <1>6, MergeWrites
  <2> QED
    BY <1>0, <1>6, <1>a, <2>1, <2>2 DEF Merge, HasResult, history
<1>7. CASE Synthesize
  <2>1. ~HasResult("synthesize") /\ \A u \in Task : HasResult(u)' <=> HasResult(u) \/ u = "synthesize"
    BY <1>0, <1>7, SynthesizeWrites DEF Synthesize, Save, HasResult
  <2> QED
    BY <1>0, <1>7, <1>b, <2>1 DEF Synthesize, Answered
<1>8. CASE CitationGuard
  <2>1. saved.next = "citation_guard" /\ saved'.next \in {"verifier", "reject_citations"}
    BY <1>8, CitationGuardWrites
  <2> QED
    BY <1>0, <1>8, <1>a, <2>1 DEF CitationGuard, Save, HasResult, history
<1>9. CASE RejectCitations
  <2>1. saved.next = "reject_citations" /\ saved'.next = "end" /\ saved'.errors # {}
    BY <1>9, RejectCitationsWrites DEF Staged
  <2> QED
    BY <1>0, <1>9, <1>a, <2>1 DEF RejectCitations, Save, HasResult, history
<1>10. CASE Verifier
  <2>1. saved.next = "verifier" /\ saved'.next = "end" /\ saved'.errors = {}
    BY <1>10, VerifierWrites DEF Staged
  <2>2. ~HasResult("verifier") /\ \A u \in Task : HasResult(u)' <=> HasResult(u) \/ u = "verifier"
    BY <1>0, <1>10, <2>1 DEF Verifier, Save, HasResult
  <2> QED
    BY <1>0, <1>10, <1>b, <2>2 DEF Verifier, Answered
<1> QED
  BY <1>1, <1>2, <1>3, <1>4, <1>5, <1>6, <1>7, <1>8, <1>9, <1>10, StepKinds

-----------------------------------------------------------------------------
(* The calls of an attempt.                                                *)
LEMMA ResultsAreFinite ==
  ASSUME NEW ans
  PROVE  /\ IsFiniteSet(ResultsOf(ans)) /\ Cardinality(ResultsOf(ans)) \in Nat
         /\ \A t \in Task : AsksModel(t) /\ ans[t] = 0 => Cardinality(ResultsOf(ans)) < ResultCalls
<1> DEFINE asking == {"commander", "synthesize", "verifier"}
<1>1. IsFiniteSet(asking) /\ Cardinality(asking) = 3
  <2>1. IsFiniteSet({"commander"}) /\ Cardinality({"commander"}) = 1
    BY FS_Singleton
  <2>2. IsFiniteSet({"commander"} \cup {"synthesize"}) /\ Cardinality({"commander"} \cup {"synthesize"}) = 2
    BY <2>1, FS_AddElement
  <2>3. asking = ({"commander"} \cup {"synthesize"}) \cup {"verifier"}
    OBVIOUS
  <2> QED
    BY <2>2, <2>3, FS_AddElement
<1>2. Role \cap asking = {}
  BY GraphAssumption
<1>3. IsFiniteSet(Role \cup asking) /\ Cardinality(Role \cup asking) = ResultCalls
  <2>1. IsFiniteSet(Role) /\ Cardinality(Role) \in Nat
    BY GraphAssumption, FS_CardinalityType
  <2>2. Cardinality(Role \cap asking) = 0
    BY <1>2, FS_EmptySet
  <2>3. /\ IsFiniteSet(Role \cup asking)
        /\ Cardinality(Role \cup asking)
             = Cardinality(Role) + Cardinality(asking) - Cardinality(Role \cap asking)
    BY <1>1, <2>1, FS_Union
  <2> HIDE DEF asking
  <2> QED
    BY <1>1, <2>1, <2>2, <2>3 DEF ResultCalls
<1>4. ResultsOf(ans) \subseteq Role \cup asking
  BY DEF ResultsOf, AsksModel
<1>5. IsFiniteSet(ResultsOf(ans)) /\ Cardinality(ResultsOf(ans)) \in Nat
  BY <1>3, <1>4, FS_Subset, FS_CardinalityType
<1>6. ASSUME NEW t \in Task, AsksModel(t), ans[t] = 0
      PROVE  Cardinality(ResultsOf(ans)) < ResultCalls
  <2>1. ResultsOf(ans) \subseteq Role \cup asking /\ ResultsOf(ans) # Role \cup asking
    BY <1>4, <1>6 DEF ResultsOf, AsksModel
  <2>2. Cardinality(ResultsOf(ans)) <= ResultCalls /\ Cardinality(ResultsOf(ans)) # ResultCalls
    BY <1>3, <2>1, FS_Subset
  <2> QED
    BY <1>3, <1>5, <2>2, FS_CardinalityType
<1> QED
  BY <1>5, <1>6

(* A first answer is one result more.                                       *)
LEMMA ResultsGrow ==
  ASSUME TypeOK, NEW t \in Task, AsksModel(t), answered[t] = 0,
         answered' = [answered EXCEPT ![t] = @ + 1]
  PROVE  Cardinality(Results') = Cardinality(Results) + 1
<1>1. Results' = Results \cup {t} /\ t \notin Results
  BY DEF TypeOK, Results, ResultsOf, AsksModel
<1> QED
  BY <1>1, ResultsAreFinite, FS_AddElement DEF Results

(* What runs has no answer yet.                                            *)
LEMMA RunningIsUnanswered ==
  ASSUME TypeOK, Staged, AnswersAreResults, NEW t \in Task, Runs(t)
  PROVE  answered[t] = 0
<1>1. CASE t \in Role
  <2>1. saved.next = "investigate" /\ pending[t] = None
    BY <1>1, RunningRole
  <2> QED
    BY <1>1, <2>1, GraphAssumption
       DEF AnswersAreResults, HasResult, InvestigationDone, SynthesisDone, GuardDone, PlanDone
<1>2. CASE t \in Promise!Node
  <2>1. saved.next = t /\ t \notin Role
    BY <1>2, RunningNode, GraphAssumption DEF Promise!Node
  <2> QED
    BY <2>1 DEF AnswersAreResults, HasResult, InvestigationDone, SynthesisDone, GuardDone, PlanDone
<1> QED
  BY <1>1, <1>2 DEF Task

(* No calls were made before the first attempt.                             *)
LEMMA CallsInitially == Init => CallsAccounted
<1> SUFFICES ASSUME Init PROVE CallsAccounted
  OBVIOUS
<1>1. Cardinality(Results) \in Nat
  BY ResultsAreFinite DEF Results
<1> QED
  BY <1>1 DEF Init, CallsAccounted, BudgetSuffices, AllReady

(* Every step keeps the account of calls.                                   *)
LEMMA CallsKept ==
  ASSUME TypeOK, TypeOK', Staged, AnswersAreResults, CallsAccounted, [Next]_vars
  PROVE  CallsAccounted'
<1>0. /\ calls \in Nat /\ wasted \in Nat /\ MaxCalls \in Nat /\ work \in [Task -> {"ready", "again", "failed", "exhausted"}]
      /\ Cardinality(Results) \in Nat /\ Cardinality(Results') \in Nat /\ ResultCalls \in Nat
      /\ calls' \in Nat /\ wasted' \in Nat
      /\ (\E t \in Task : work[t] = "exhausted") => wasted + ResultCalls > MaxCalls
      /\ wasted <= calls /\ calls <= wasted + Cardinality(Results)
  <2>1. Cardinality(Results) \in Nat /\ Cardinality(Results') \in Nat
    BY ResultsAreFinite DEF Results
  <2>2. ResultCalls \in Nat
    BY GraphAssumption, FS_CardinalityType DEF ResultCalls
  <2> QED
    BY <2>1, <2>2, GraphAssumption DEF TypeOK, CallsAccounted, BudgetSuffices
<1>1. ASSUME UNCHANGED answered
      PROVE  Cardinality(Results') = Cardinality(Results)
  <2>1. Results' = Results
    BY <1>1 DEF Results
  <2> QED
    BY <2>1
(* A step that saves a checkpoint makes all tasks ready. *)
<1>2. ASSUME work' = AllReady, UNCHANGED <<calls, wasted, answered>>
      PROVE  CallsAccounted'
  BY <1>0, <1>1, <1>2 DEF CallsAccounted, BudgetSuffices, AllReady
<1>3. ASSUME NEW t \in Task, Runs(t), AsksModel(t), Reserve, Answered(t), work' = AllReady
      PROVE  CallsAccounted'
  <2>1. Cardinality(Results') = Cardinality(Results) + 1
    BY <1>3, RunningIsUnanswered, ResultsGrow DEF Answered
  <2> QED
    BY <1>0, <1>3, <2>1 DEF Reserve, Answered, CallsAccounted, BudgetSuffices, AllReady
<1>4. ASSUME NEW E \in SUBSET Id, Invoke(E)
      PROVE  CallsAccounted'
  BY <1>0, <1>1, <1>4 DEF Invoke, CallsAccounted, BudgetSuffices, AllReady, history
<1>5. CASE Resume
  <2>1. calls' = 0 /\ wasted' = 0 /\ work' = AllReady
    BY <1>5 DEF Resume, CallsAccounted
  <2> QED
    BY <1>0, <2>1 DEF CallsAccounted, BudgetSuffices, AllReady
<1>6. CASE LoadContext \/ CitationGuard \/ RejectCitations \/ Merge \/ Raise
  BY <1>2, <1>6 DEF LoadContext, CitationGuard, RejectCitations, Merge, Raise, Save, history
<1>7. {"commander", "synthesize", "verifier"} \subseteq Task
  BY NodesAreTasks DEF Promise!Node
<1>8. CASE Commander
  BY <1>3, <1>7, <1>8 DEF Commander, Save, AsksModel
<1>9. CASE Synthesize
  BY <1>3, <1>7, <1>9 DEF Synthesize, Save, AsksModel
<1>10. CASE Verifier
  BY <1>3, <1>7, <1>10 DEF Verifier, Save, AsksModel
(* A wasted call. *)
<1>11. ASSUME NEW t \in Task, Reserve, wasted' = wasted + 1, UNCHANGED <<attempt, answered>>,
              attempt = "running",
              \E x \in {"again", "failed"} : work' = [work EXCEPT ![t] = x]
       PROVE  CallsAccounted'
  <2>1. (\E u \in Task : work'[u] = "exhausted") => \E u \in Task : work[u] = "exhausted"
    BY <1>0, <1>11
  <2> QED
    BY <1>0, <1>1, <1>11, <2>1 DEF Reserve, CallsAccounted, BudgetSuffices
<1>12. ASSUME NEW r \in Role, Investigate(r)
       PROVE  CallsAccounted'
  <2>0. r \in Task /\ Runs(r) /\ AsksModel(r) /\ Reserve /\ attempt = "running"
    BY <1>12 DEF Investigate, Task, AsksModel, Runs
  <2>1. CASE Answered(r) /\ UNCHANGED <<saved, attempt, work>>
    <3>1. Cardinality(Results') = Cardinality(Results) + 1
      BY <2>0, <2>1, RunningIsUnanswered, ResultsGrow DEF Answered
    <3> QED
      BY <1>0, <2>0, <2>1, <3>1 DEF Reserve, Answered, CallsAccounted, BudgetSuffices
  <2>2. CASE Fails(r)
    BY <1>11, <2>0, <2>2 DEF Fails
  <2> QED
    BY <1>12, <2>1, <2>2 DEF Investigate
<1>13. ASSUME NEW t \in Task, EmptyAnswer(t) \/ CallFails(t)
       PROVE  CallsAccounted'
  BY <1>11, <1>13 DEF EmptyAnswer, CallFails, Fails, Runs
(* An exhausted budget: what it was spent on is not the result of t. *)
<1>14. ASSUME NEW t \in Task, BudgetExhausted(t)
       PROVE  CallsAccounted'
  <2>1. Cardinality(Results) < ResultCalls
    BY <1>14, RunningIsUnanswered, ResultsAreFinite DEF BudgetExhausted, Results
  <2>2. wasted + ResultCalls > MaxCalls
    BY <1>0, <1>14, <2>1 DEF BudgetExhausted
  <2> QED
    BY <1>0, <1>1, <1>14, <2>2 DEF BudgetExhausted, Runs, CallsAccounted, BudgetSuffices, history
<1>15. ASSUME NEW t \in Task, SaverFails(t)
       PROVE  CallsAccounted'
  <2>1. (\E u \in Task : work'[u] = "exhausted") => \E u \in Task : work[u] = "exhausted"
    BY <1>0, <1>15 DEF SaverFails
  <2> QED
    BY <1>0, <1>1, <1>15, <2>1 DEF SaverFails, Runs, CallsAccounted, BudgetSuffices, history
<1>16. CASE UNCHANGED vars
  BY <1>0, <1>1, <1>16 DEF vars, history, CallsAccounted, BudgetSuffices
<1> QED
  BY <1>4, <1>5, <1>6, <1>8, <1>9, <1>10, <1>12, <1>13, <1>14, <1>15, <1>16 DEF Next, Progress

-----------------------------------------------------------------------------
(* Every reachable state satisfies the inductive invariant.                *)
THEOREM Inductive == Spec => []IInv
<1>1. Init => Staged /\ StepsUpToNext /\ InRole /\ AnswersAreResults /\ CallsAccounted
  BY StagedInitially, StepsInitially, RolesInitially, AnswersInitially, CallsInitially
<1>2. /\ TypeOK /\ TypeOK'
      /\ Staged /\ StepsUpToNext /\ InRole /\ AnswersAreResults /\ CallsAccounted
      /\ [Next]_vars
      => (Staged /\ StepsUpToNext /\ InRole /\ AnswersAreResults /\ CallsAccounted)'
  BY StagedKept, StepsKept, RolesKept, AnswersKept, CallsKept
<1> QED
  BY <1>1, <1>2, Typing, PTL DEF Spec, IInv

(* What is appended leaves what was there.                                  *)
LEMMA PrefixOfConcat ==
  ASSUME NEW S, NEW s \in Seq(S), NEW t \in Seq(S), NEW u \in Seq(S)
  PROVE  /\ IsPrefix(s, s \o t)
         /\ IsPrefix(s, (s \o t) \o u)
<1>1. ASSUME NEW v \in Seq(S)
      PROVE  IsPrefix(s, s \o v)
  <2>1. s \o v \in Seq(S) /\ Len(s \o v) = Len(s) + Len(v) /\ Len(s) \in Nat /\ Len(v) \in Nat
    BY ConcatProperties, LenProperties
  <2>2. SubSeq(s \o v, 1, Len(s)) = s
    BY SubSeqOfConcat1, SubSeqFull, <2>1
  <2>3. SubSeq(s, 1, Len(s)) = s
    BY SubSeqFull
  <2> QED
    BY <2>1, <2>2, <2>3 DEF IsPrefix
<1>2. (s \o t) \o u = s \o (t \o u) /\ t \o u \in Seq(S)
  BY ConcatAssociative, ConcatProperties
<1> QED
  BY <1>1, <1>2

(* Concatenation associates.                                                *)
LEMMA Regroup ==
  ASSUME NEW x \in Seq(Task), NEW y \in Seq(Task), NEW z \in Seq(Task)
  PROVE  (x \o y) \o z = x \o (y \o z)
BY ConcatAssociative

(* The steps a finished run stores tell the graph's path, each node once   *)
(* and the investigators in the order of the plan, through every failure   *)
(* and resumption (RcaState.steps, resume).                                *)
THEOREM PathIsTold == Spec => []StepsTellThePath
<1>1. ASSUME IInv
      PROVE  StepsTellThePath
  <2> DEFINE path == (Opening \o Roles) \o Closing
  <2>1. Roles \in Seq(Task)
    BY <1>1, RolesType, SeqMonotonic DEF IInv, TypeOK, Checkpoint, Task
  <2>2. Opening \in Seq(Task) /\ Closing \in Seq(Task)
    BY NodesAreTasks DEF Opening, Closing, Promise!Node
  <2>3. Opening \o Roles \in Seq(Task) /\ path \in Seq(Task)
    BY <2>1, <2>2, ConcatProperties
  <2>5. IsPrefix(saved.steps, path)
    <3>1. CASE saved.next \in {"none", "load_context"}
      <4>1. saved.steps = <<>> /\ <<>> \in Seq(Task) /\ <<>> \o path = path
        BY <1>1, <2>3, <3>1, ConcatEmptySeq DEF IInv, StepsUpToNext
      <4> QED
        BY <2>3, <4>1, PrefixOfConcat
    <3>2. CASE saved.next = "commander"
      <4>1. <<"load_context">> \in Seq(Task) /\ <<"commander">> \in Seq(Task)
            /\ Opening = <<"load_context">> \o <<"commander">>
        BY NodesAreTasks, AppendToOne DEF Opening, Promise!Node
      <4>2. path = <<"load_context">> \o ((<<"commander">> \o Roles) \o Closing)
        BY <2>1, <2>2, <4>1, ConcatAssociative, ConcatProperties
      <4>3. saved.steps = <<"load_context">> /\ (<<"commander">> \o Roles) \o Closing \in Seq(Task)
        BY <1>1, <2>1, <2>2, <3>2, <4>1, ConcatProperties DEF IInv, StepsUpToNext
      <4> QED
        BY <4>1, <4>2, <4>3, PrefixOfConcat
    <3>3. CASE saved.next = "investigate"
      <4>1. saved.steps = Opening
        BY <1>1, <3>3 DEF IInv, StepsUpToNext
      <4> QED
        BY <2>1, <2>2, <4>1, PrefixOfConcat
    <3>4. CASE saved.next = "synthesize"
      <4>1. saved.steps = Opening \o Roles
        BY <1>1, <3>4 DEF IInv, StepsUpToNext
      <4> QED
        BY <2>2, <2>3, <4>1, PrefixOfConcat
    <3>5. CASE saved.next \in {"citation_guard", "verifier", "reject_citations"}
      <4> DEFINE last == IF saved.errors = {} THEN "verifier" ELSE "reject_citations"
      <4>1. /\ "synthesize" \in Task /\ "citation_guard" \in Task /\ last \in Task
        BY NodesAreTasks DEF Promise!Node
      <4>2. Closing = <<"synthesize">> \o <<"citation_guard", last>>
            /\ Closing = <<"synthesize", "citation_guard">> \o <<last>>
        BY DEF Closing
      <4>3. PICK s \in Seq(Task), t \in Seq(Task) :
              Closing = s \o t /\ saved.steps = (Opening \o Roles) \o s
        <5>1. CASE saved.next = "citation_guard"
          <6>1. saved.steps = (Opening \o Roles) \o <<"synthesize">>
            BY <1>1, <5>1 DEF IInv, StepsUpToNext
          <6>2. <<"synthesize">> \in Seq(Task) /\ <<"citation_guard", last>> \in Seq(Task)
            BY <4>1
          <6> QED
            BY <4>2, <6>1, <6>2
        <5>2. CASE saved.next \in {"verifier", "reject_citations"}
          <6>1. saved.steps = (Opening \o Roles) \o <<"synthesize", "citation_guard">>
            BY <1>1, <5>2 DEF IInv, StepsUpToNext
          <6>2. <<"synthesize", "citation_guard">> \in Seq(Task) /\ <<last>> \in Seq(Task)
            BY <4>1
          <6> QED
            BY <4>2, <6>1, <6>2
        <5> QED
          BY <3>5, <5>1, <5>2
      <4>4. path = ((Opening \o Roles) \o s) \o t /\ (Opening \o Roles) \o s \in Seq(Task)
        <5>1. PICK x \in Seq(Task) : x = Opening \o Roles
          BY <2>3
        <5>2. (x \o s) \o t = x \o (s \o t)
          BY Regroup
        <5>3. x \o s \in Seq(Task)
          BY <4>3, <5>1, ConcatProperties
        <5> QED
          BY <4>3, <5>1, <5>2, <5>3
      <4> QED
        BY <2>3, <4>3, <4>4, PrefixOfConcat
    <3>6. CASE saved.next = "end"
      <4>1. saved.steps = path /\ path \o <<>> = path /\ <<>> \in Seq(Task)
        BY <1>1, <2>3, <3>6, ConcatEmptySeq DEF IInv, StepsUpToNext
      <4> QED
        BY <2>3, <4>1, PrefixOfConcat
    <3> QED
      BY <1>1, <3>1, <3>2, <3>3, <3>4, <3>5, <3>6 DEF IInv, TypeOK, Checkpoint, Promise!Node
  <2>6. saved.next = "end" => saved.steps = path
    BY <1>1 DEF IInv, StepsUpToNext
  <2> QED
    BY <2>5, <2>6 DEF StepsTellThePath, Roles, Opening, Closing
<1> QED
  BY <1>1, Inductive, PTL

(* Findings, kept or merged, cite only what their role may see and claim   *)
(* nothing where there is nothing (_commander, _investigate).              *)
THEOREM RolesRespected == Spec => []FindingsStayInRole
<1>1. IInv => FindingsStayInRole
  BY DEF IInv, InRole
<1> QED
  BY <1>1, Inductive, PTL

(* An approved draft cites evidence, and only evidence of the run, and the *)
(* verifier was asked about it, and about no other                         *)
(* (_route_after_citation_guard).                                          *)
THEOREM Grounded == Spec => []ApprovedIsGrounded
<1>1. ASSUME IInv
      PROVE  ApprovedIsGrounded
  <2>1. "verifier" \in Task /\ "verifier" \notin Role
    BY NodesAreTasks, GraphAssumption DEF Promise!Node
  <2>2. answered["verifier"] = IF saved.next = "end" /\ saved.errors = {} THEN 1 ELSE 0
    BY <1>1, <2>1 DEF IInv, AnswersAreResults, HasResult
  <2> QED
    BY <1>1, <2>2 DEF IInv, Staged, SynthesisDone, GuardDone, ApprovedIsGrounded
<1> QED
  BY <1>1, Inductive, PTL

(* However often a run is resumed, no node is answered twice (resume).     *)
THEOREM OneAnswerEach == Spec => []AnsweredOnce
<1>1. IInv => AnsweredOnce
  BY DEF IInv, AnswersAreResults, AnsweredOnce
<1> QED
  BY <1>1, Inductive, PTL

(* An attempt's budget ends early only because calls were wasted, for      *)
(* every budget and number of parallel investigators (_reserve_call).      *)
THEOREM BudgetIsEnough == Spec => []BudgetSuffices
<1>1. IInv => BudgetSuffices
  BY DEF IInv, CallsAccounted
<1> QED
  BY <1>1, Inductive, PTL

-----------------------------------------------------------------------------
(* The updates of an abstract checkpoint that change a second field.       *)
LEMMA DraftUpdate ==
  ASSUME NEW t \in Promise!Checkpoint, NEW x
  PROVE  [t EXCEPT !.next = "citation_guard", !.draft = x]
           = [next |-> "citation_guard", evidence |-> t.evidence, draft |-> x, verdict |-> t.verdict]
<1>1. PICK u : u = [t EXCEPT !.next = "citation_guard"]
  OBVIOUS
<1>2. u = [next |-> "citation_guard", evidence |-> t.evidence, draft |-> t.draft, verdict |-> t.verdict]
  BY <1>1 DEF Promise!Checkpoint
<1>3. [u EXCEPT !.draft = x]
        = [next |-> "citation_guard", evidence |-> t.evidence, draft |-> x, verdict |-> t.verdict]
  BY <1>2
<1> QED
  BY <1>1, <1>3

(* A verdict ends the graph and leaves the draft.                           *)
LEMMA VerdictUpdate ==
  ASSUME NEW t \in Promise!Checkpoint, NEW x
  PROVE  [t EXCEPT !.next = "end", !.verdict = x]
           = [next |-> "end", evidence |-> t.evidence, draft |-> t.draft, verdict |-> x]
<1>1. PICK u : u = [t EXCEPT !.next = "end"]
  OBVIOUS
<1>2. u = [next |-> "end", evidence |-> t.evidence, draft |-> t.draft, verdict |-> t.verdict]
  BY <1>1 DEF Promise!Checkpoint
<1>3. [u EXCEPT !.verdict = x]
        = [next |-> "end", evidence |-> t.evidence, draft |-> t.draft, verdict |-> x]
  BY <1>2
<1> QED
  BY <1>1, <1>3

(* The graph implements what it promises to the runtime: its checkpoint    *)
(* takes the graph's nodes in their order, each at most once, however the  *)
(* graph fails and is resumed (_build, invoke, resume).                    *)
THEOREM Refines == Spec => KeepsPromise
<1>1. Init => Promise!Init
  BY DEF Init, Promise!Init, Promise!NoCheckpoint, Abstract, NoCheckpoint, Input
<1>2. ASSUME TypeOK, [Next]_vars
      PROVE  [Promise!Next]_Abstract
  <2>0. Abstract \in Promise!Checkpoint
    BY <1>2 DEF Abstract, TypeOK, Checkpoint, Promise!Checkpoint, Promise!Node
  <2>a. /\ Abstract.evidence = saved.evidence /\ Abstract.draft = saved.draft
        /\ Abstract.verdict = saved.verdict
    BY DEF Abstract
  <2> USE <1>2 DEF CheckpointOf, Abstract
  <2>1. CASE UNCHANGED <<saved, pending, answered>>
    BY <2>1
  <2>2. ASSUME NEW E \in (SUBSET Id) \ {{}}, Invoke(E)
        PROVE  Promise!Next
    <3>1. Abstract = Promise!NoCheckpoint /\ Abstract' = Promise!Input(E)
      BY <2>2 DEF Invoke, NoCheckpoint, Input, Promise!NoCheckpoint, Promise!Input
    <3> QED
      BY <3>1 DEF Promise!Next
  <2>3. ASSUME NEW r \in Role, NEW f \in Finding, Accepts(r, f)
        PROVE  UNCHANGED Abstract
    BY <2>3 DEF Accepts
  <2>4. CASE LoadContext
    <3>1. Abstract.next = "load_context" /\ Abstract' = [Abstract EXCEPT !.next = "commander"]
      BY <2>4, LoadContextWrites
    <3> QED
      BY <3>1 DEF Promise!Next, Promise!After
  <2>5. CASE Commander
    <3>1. Abstract.next = "commander" /\ Abstract' = [Abstract EXCEPT !.next = "investigate"]
      BY <2>5, CommanderWrites
    <3> QED
      BY <3>1 DEF Promise!Next, Promise!After
  <2>6. CASE Merge
    <3>1. Abstract.next = "investigate" /\ Abstract' = [Abstract EXCEPT !.next = "synthesize"]
      BY <2>6, MergeWrites
    <3> QED
      BY <3>1 DEF Promise!Next, Promise!After
  <2>7. CASE Synthesize
    <3>1. /\ Abstract.next = "synthesize"
          /\ \E cited \in Promise!Draft :
               Abstract' = [Abstract EXCEPT !.next = "citation_guard", !.draft = cited]
      <4>1. PICK cited \in Promise!Draft : saved'.draft = cited /\ saved'.next = "citation_guard"
              /\ saved'.evidence = saved.evidence /\ saved'.verdict = saved.verdict
        BY <2>7, SynthesizeWrites
      <4>2. Abstract.next = "synthesize"
        BY <2>7, SynthesizeWrites
      <4>3. Abstract' = [next |-> "citation_guard", evidence |-> saved.evidence,
                         draft |-> cited, verdict |-> saved.verdict]
        BY <4>1
      <4> HIDE DEF Abstract
      <4>4. [Abstract EXCEPT !.next = "citation_guard", !.draft = cited]
              = [next |-> "citation_guard", evidence |-> Abstract.evidence,
                 draft |-> cited, verdict |-> Abstract.verdict]
        BY <2>0, DraftUpdate
      <4>5. Abstract' = [Abstract EXCEPT !.next = "citation_guard", !.draft = cited]
        BY <2>a, <4>3, <4>4
      <4> QED
        BY <4>2, <4>3, <4>5
    <3> QED
      BY <3>1 DEF Promise!Next, Promise!After
  <2>8. CASE CitationGuard
    <3>1. /\ Abstract.next = "citation_guard"
          /\ Abstract' = [Abstract EXCEPT !.next =
               IF Abstract.draft \subseteq Abstract.evidence THEN "verifier" ELSE "reject_citations"]
      BY <2>8, CitationGuardWrites
    <3> QED
      BY <3>1 DEF Promise!Next, Promise!After
  <2>9. CASE RejectCitations
    <3>1. /\ Abstract.next = "reject_citations"
          /\ Abstract' = [Abstract EXCEPT !.next = "end", !.verdict = "REJECTED"]
      <4>1. /\ saved.next = "reject_citations" /\ saved'.next = "end"
            /\ saved'.draft = saved.draft /\ saved'.evidence = saved.evidence
            /\ saved'.verdict = "REJECTED"
        BY <2>9, RejectCitationsWrites
      <4>2. Abstract' = [next |-> "end", evidence |-> saved.evidence,
                         draft |-> saved.draft, verdict |-> "REJECTED"]
        BY <4>1
      <4>3. Abstract.next = "reject_citations"
        BY <4>1
      <4> HIDE DEF Abstract
      <4>4. [Abstract EXCEPT !.next = "end", !.verdict = "REJECTED"]
              = [next |-> "end", evidence |-> Abstract.evidence,
                 draft |-> Abstract.draft, verdict |-> "REJECTED"]
        BY <2>0, VerdictUpdate
      <4>5. Abstract' = [Abstract EXCEPT !.next = "end", !.verdict = "REJECTED"]
        BY <2>a, <4>2, <4>4
      <4> QED
        BY <4>2, <4>3, <4>5
    <3> QED
      BY <3>1 DEF Promise!Next, Promise!After
  <2>10. CASE Verifier
    <3>1. /\ Abstract.next = "verifier"
          /\ \E v \in {"APPROVED", "REJECTED"} :
               Abstract' = [Abstract EXCEPT !.next = "end", !.verdict = v]
      <4>1. PICK v \in {"APPROVED", "REJECTED"} : saved'.verdict = v /\ saved'.next = "end"
              /\ saved'.draft = saved.draft /\ saved'.evidence = saved.evidence
        BY <2>10, VerifierWrites
      <4>2. Abstract.next = "verifier"
        BY <2>10, VerifierWrites
      <4>3. Abstract' = [next |-> "end", evidence |-> saved.evidence,
                         draft |-> saved.draft, verdict |-> v]
        BY <4>1
      <4> HIDE DEF Abstract
      <4>4. [Abstract EXCEPT !.next = "end", !.verdict = v]
              = [next |-> "end", evidence |-> Abstract.evidence,
                 draft |-> Abstract.draft, verdict |-> v]
        BY <2>0, VerdictUpdate
      <4>5. Abstract' = [Abstract EXCEPT !.next = "end", !.verdict = v]
        BY <2>a, <4>3, <4>4
      <4> QED
        BY <4>2, <4>3, <4>5
    <3> QED
      BY <3>1 DEF Promise!Next, Promise!After
  <2> QED
    BY <2>1, <2>2, <2>3, <2>4, <2>5, <2>6, <2>7, <2>8, <2>9, <2>10, StepKinds
<1>3. QED
  BY <1>1, <1>2, Typing, PTL DEF Spec, KeepsPromise, Promise!Spec

===============================================================================
