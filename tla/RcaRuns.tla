-------------------------------- MODULE RcaRuns --------------------------------
(***************************************************************************)
(* RCA runs: the API's calls that start, resume and settle them            *)
(* (rca_runtime.py) over the tables agent_runs, agent_run_contexts,        *)
(* agent_run_steps and rca_reports (rca_repository.py), the checkpoints of *)
(* their graphs and the memory of verified reports (rca_memory.py).        *)
(*                                                                         *)
(* Calls run in the API's worker threads, any number at a time; each       *)
(* transaction is a step, and so is each superstep of a graph, which goes  *)
(* as GraphPromise says and RcaGraph implements.  MaxFaults bounds what    *)
(* goes wrong: a failing node or check, a transaction that is rolled back  *)
(* or whose commit is not heard of, a process that stops.                  *)
(***************************************************************************)
EXTENDS Naturals, FiniteSets

CONSTANTS
  Incident,
  Id,          \* evidence ids, collected ones and others that a model invents
  Run,         \* the uuids that run may draw
  Call,        \* run and resume calls in progress at one time
  None,        \* SQL NULL
  MaxFaults

ASSUME RunsAssumption ==
  /\ None \notin (Incident \cup Run \cup {"APPROVED", "REJECTED"})
  /\ MaxFaults \in Nat

VARIABLES
  evidence,    \* table evidence: per incident, the ids collected for it
  runs,        \* table agent_runs
  contexts,    \* table agent_run_contexts: the runs that have one
  stepRows,    \* per run: how often its steps were inserted into agent_run_steps
  reports,     \* table rca_reports: per run, its report's incident and citations
  memory,      \* the runs whose report is in the vector store
  thread,      \* per run: the checkpoint of its graph
  call,        \* the calls in progress
  spent,       \* history: model calls made for a run
  raced,       \* history: the runs resumed by a call that another had overtaken
  faults

tables == <<runs, contexts, stepRows, reports>>
history == <<spent, raced>>
vars == <<evidence, tables, memory, thread, call, history, faults>>

Graph == INSTANCE GraphPromise WITH saved <- thread

Final == {"COMPLETED", "REJECTED"}

(* calls stands for model_calls, total_tokens and duration_ms, which are   *)
(* read, added up and written alike.                                       *)
RunRow ==
  [status : {"ABSENT", "RUNNING", "FAILED"} \cup Final, incident : Incident \cup {None},
   evidence : SUBSET Id, verdict : {None, "APPROVED", "REJECTED"}, calls : Nat]
NoRun ==
  [status |-> "ABSENT", incident |-> None, evidence |-> {}, verdict |-> None, calls |-> 0]

Report == [incident : Incident, cites : SUBSET Id]

ASSUME ReportAssumption == None \notin Report

(* step: "create" - run has read incident and evidence; "prepare" - the    *)
(* run has its row; "resume" - resume has read the failed row; "invoke",   *)
(* "graph" - before and in the graph; "finish", "index", "fail" - before   *)
(* that transaction or upsert.  known: the counters that resume read;      *)
(* used: the calls of this call's own model.  alone is history: nobody     *)
(* else has resumed the run since this call read it.                       *)
CallState ==
  [step : {"idle", "create", "prepare", "resume", "invoke", "graph", "finish", "index", "fail"},
   run : Run \cup {None}, incident : Incident \cup {None}, evidence : SUBSET Id,
   known : Nat, used : Nat, alone : BOOLEAN]
Idle ==
  [step |-> "idle", run |-> None, incident |-> None, evidence |-> {}, known |-> 0, used |-> 0,
   alone |-> TRUE]

TypeOK ==
  /\ evidence \in [Incident -> SUBSET Id]
  /\ runs \in [Run -> RunRow]
  /\ contexts \subseteq Run
  /\ stepRows \in [Run -> Nat]
  /\ reports \in [Run -> Report \cup {None}]
  /\ memory \subseteq Run
  /\ thread \in [Run -> Graph!Checkpoint]
  /\ call \in [Call -> CallState]
  /\ \A c \in Call : call[c].step # "idle" => call[c].run \in Run /\ call[c].incident \in Incident
  /\ spent \in [Run -> Nat]
  /\ raced \subseteq Run
  /\ faults \in 0..MaxFaults

Init ==
  /\ evidence = [i \in Incident |-> {}]
  /\ runs = [r \in Run |-> NoRun]
  /\ contexts = {}
  /\ stepRows = [r \in Run |-> 0]
  /\ reports = [r \in Run |-> None]
  /\ memory = {}
  /\ thread = [r \in Run |-> Graph!NoCheckpoint]
  /\ call = [c \in Call |-> Idle]
  /\ spent = [r \in Run |-> 0]
  /\ raced = {}
  /\ faults = 0

Fault == faults < MaxFaults /\ faults' = faults + 1
NoFault == UNCHANGED faults

Go(c, step) == call' = [call EXCEPT ![c] = [call[c] EXCEPT !.step = step]]
End(c) == call' = [call EXCEPT ![c] = Idle]

AsksModel(node) == node \in {"commander", "investigate", "synthesize", "verifier"}

-----------------------------------------------------------------------------
(* Mutated operations.  No specification uses them: each is a bug that the *)
(* operation it varies could have, and that a property must notice.        *)

(* The evidence is listed without its incident.                            *)
StartRunAllEvidence(c, i, r) ==
  /\ call[c].step = "idle"
  /\ runs[r].status = "ABSENT"
  /\ \A d \in Call : call[d].run # r
  /\ call' = [call EXCEPT ![c] =
       [Idle EXCEPT !.step = "create", !.run = r, !.incident = i,
                    !.evidence = UNION {evidence[j] : j \in Incident}]]
  /\ UNCHANGED <<evidence, tables, memory, thread, history, faults>>

(* The run is resumed without its incident.                                *)
StartResumeNoIncident(c, r) ==
  /\ call[c].step = "idle"
  /\ runs[r].status = "FAILED"
  /\ call' = [call EXCEPT ![c] =
       [Idle EXCEPT !.step = "resume", !.run = r, !.known = runs[r].calls]]
  /\ UNCHANGED <<evidence, tables, memory, thread, history, faults>>

(* The UPDATE trusts the status that was read before it.                   *)
ResumeRunTrusting(c) ==
  /\ call[c].step = "resume"
  /\ runs' = [runs EXCEPT ![call[c].run].status = "RUNNING"]
  /\ Go(c, "graph")
  /\ UNCHANGED <<evidence, contexts, stepRows, reports, memory, thread, history, faults>>

(* The steps are inserted in a transaction of their own.                   *)
FinishRunInTwo(c) ==
  /\ call[c].step = "finish"
  /\ Fault
  /\ stepRows' = [stepRows EXCEPT ![call[c].run] = @ + 1]
  /\ Go(c, "fail")
  /\ UNCHANGED <<evidence, runs, contexts, reports, memory, thread, history>>

(* The UPDATE in fail_run lacks its status.                                *)
FailRunAnyStatus(c) ==
  /\ call[c].step = "fail"
  /\ runs' = [runs EXCEPT ![call[c].run].status = "FAILED"]
  /\ End(c)
  /\ UNCHANGED <<evidence, contexts, stepRows, reports, memory, thread, history, faults>>

(* The counters of a resumed run start again.                              *)
FailRunForgets(c) ==
  LET r == call[c].run IN
  /\ call[c].step = "fail"
  /\ runs' = IF runs[r].status = "RUNNING"
             THEN [runs EXCEPT ![r] = [@ EXCEPT !.status = "FAILED", !.calls = call[c].used]]
             ELSE runs
  /\ End(c)
  /\ UNCHANGED <<evidence, contexts, stepRows, reports, memory, thread, history, faults>>

(* The UPDATE is repeated until it changes a row.                          *)
FailRunInsists(c) ==
  /\ call[c].step = "fail"
  /\ runs[call[c].run].status = "RUNNING"
  /\ runs' = [runs EXCEPT ![call[c].run].status = "FAILED"]
  /\ End(c)
  /\ UNCHANGED <<evidence, contexts, stepRows, reports, memory, thread, history, faults>>

-----------------------------------------------------------------------------
(* POST /incidents/{id}/evidence/...: evidence of the incident grows.      *)
Collect(i, e) ==
  /\ \A j \in Incident : e \notin evidence[j]
  /\ evidence' = [evidence EXCEPT ![i] = @ \cup {e}]
  /\ UNCHANGED <<tables, memory, thread, call, history, faults>>

(* run reads the incident and its evidence and draws the run's id ...      *)
StartRun(c, i, r) ==
  /\ call[c].step = "idle"
  /\ runs[r].status = "ABSENT"
  /\ \A d \in Call : call[d].run # r
  /\ call' = [call EXCEPT ![c] =
       [Idle EXCEPT !.step = "create", !.run = r, !.incident = i, !.evidence = evidence[i]]]
  /\ UNCHANGED <<evidence, tables, memory, thread, history, faults>>

(* ... and inserts the run.  No except branch is open yet: an error ends   *)
(* the call, with or without the row.                                      *)
CreateRun(c) ==
  /\ call[c].step = "create"
  /\ \/ /\ runs' = [runs EXCEPT ![call[c].run] =
             [NoRun EXCEPT !.status = "RUNNING", !.incident = call[c].incident,
                           !.evidence = call[c].evidence]]
        /\ \/ /\ NoFault
              /\ Go(c, "prepare")
           \/ /\ Fault
              /\ End(c)
     \/ /\ Fault
        /\ End(c)
        /\ UNCHANGED runs
  /\ UNCHANGED <<evidence, contexts, stepRows, reports, memory, thread, history>>

(* The model's configuration, the evidence and its compaction are checked  *)
(* and the context is inserted.                                            *)
Prepare(c) ==
  LET r == call[c].run IN
  /\ call[c].step = "prepare"
  /\ \/ /\ call[c].evidence # {}
        /\ contexts' = contexts \cup {r}
        /\ \/ /\ NoFault
              /\ Go(c, "invoke")
           \/ /\ Fault
              /\ Go(c, "fail")
     \/ /\ call[c].evidence = {}
        /\ NoFault
        /\ Go(c, "fail")
        /\ UNCHANGED contexts
     \/ /\ Fault
        /\ Go(c, "fail")
        /\ UNCHANGED contexts
  /\ UNCHANGED <<evidence, runs, stepRows, reports, memory, thread, history>>

-----------------------------------------------------------------------------
(* resume reads the run and goes on if it has failed ...                   *)
StartResume(c, r) ==
  /\ call[c].step = "idle"
  /\ runs[r].status = "FAILED"
  /\ call' = [call EXCEPT ![c] =
       [Idle EXCEPT !.step = "resume", !.run = r, !.incident = runs[r].incident,
                    !.known = runs[r].calls]]
  /\ UNCHANGED <<evidence, tables, memory, thread, history, faults>>

(* The other calls about to resume this run are overtaken.                 *)
Overtaken(c) ==
  [d \in Call |-> IF call[d].step = "resume" /\ call[d].run = call[c].run
                  THEN [call[d] EXCEPT !.alone = FALSE] ELSE call[d]]

(* ... and takes it with an UPDATE WHERE status='FAILED'; if that changes  *)
(* nothing, or raises, the call ends in an error.                          *)
ResumeRun(c) ==
  LET r == call[c].run IN
  /\ call[c].step = "resume"
  /\ \/ /\ runs[r].status = "FAILED"
        /\ runs' = [runs EXCEPT ![r] = [runs[r] EXCEPT !.status = "RUNNING"]]
        /\ \/ /\ NoFault
              /\ call' = [Overtaken(c) EXCEPT ![c] = [call[c] EXCEPT !.step = "graph"]]
              /\ raced' = IF call[c].alone THEN raced ELSE raced \cup {r}
           \/ /\ Fault
              /\ call' = [Overtaken(c) EXCEPT ![c] = Idle]
              /\ UNCHANGED raced
     \/ /\ (runs[r].status # "FAILED" /\ NoFault) \/ Fault
        /\ End(c)
        /\ UNCHANGED <<runs, raced>>
  /\ UNCHANGED <<evidence, contexts, stepRows, reports, memory, thread, spent>>

-----------------------------------------------------------------------------
(* graph.invoke: the input becomes the first checkpoint.                   *)
Invoke(c) ==
  /\ call[c].step = "invoke"
  /\ thread' = [thread EXCEPT ![call[c].run] = Graph!Input(call[c].evidence)]
  /\ Go(c, "graph")
  /\ UNCHANGED <<evidence, tables, memory, history, faults>>

(* A superstep costs model calls if its node asks the model; how many      *)
(* RcaGraph says, one stands for them here.                                *)
Spend(c, n) ==
  /\ call' = [call EXCEPT ![c] = [call[c] EXCEPT !.used = call[c].used + n]]
  /\ spent' = [spent EXCEPT ![call[c].run] = @ + n]

Superstep(c) ==
  LET r == call[c].run IN
  /\ call[c].step = "graph"
  /\ \E next \in Graph!After(thread[r]) : thread' = [thread EXCEPT ![r] = next]
  /\ Spend(c, IF AsksModel(thread[r].next) THEN 1 ELSE 0)
  /\ UNCHANGED <<evidence, tables, memory, raced, faults>>

(* The graph raises: a node or its checkpoint failed, before or after      *)
(* calls were made; or there is no checkpoint to resume from.              *)
GraphRaises(c) ==
  LET r == call[c].run IN
  /\ call[c].step \in {"invoke", "graph"}
  /\ \/ /\ thread[r].next = "none" /\ call[c].step = "graph"
        /\ NoFault
        /\ Go(c, "fail")
        /\ UNCHANGED spent
     \/ /\ Fault
        /\ \E n \in IF AsksModel(thread[r].next) THEN {0, 1} ELSE {0} :
             /\ call' = [call EXCEPT ![c] =
                  [call[c] EXCEPT !.step = "fail", !.used = call[c].used + n]]
             /\ spent' = [spent EXCEPT ![r] = @ + n]
  /\ UNCHANGED <<evidence, tables, memory, thread, raced>>

GraphReturns(c) ==
  /\ call[c].step = "graph"
  /\ thread[call[c].run].next = "end"
  /\ Go(c, "finish")
  /\ UNCHANGED <<evidence, tables, memory, thread, history, faults>>

-----------------------------------------------------------------------------
(* finish_run: steps, status and report in one transaction, which raises   *)
(* if the run is not RUNNING.  Any error goes to the except branch.        *)
FinishRun(c) ==
  LET r == call[c].run
      approved == thread[r].verdict = "APPROVED"
  IN
  /\ call[c].step = "finish"
  /\ \/ /\ runs[r].status = "RUNNING"
        /\ stepRows' = [stepRows EXCEPT ![r] = @ + 1]
        /\ runs' = [runs EXCEPT ![r] =
             [runs[r] EXCEPT !.status = IF approved THEN "COMPLETED" ELSE "REJECTED",
                             !.verdict = thread[r].verdict,
                             !.calls = call[c].known + call[c].used]]
        /\ reports' = IF approved
                      THEN [reports EXCEPT ![r] =
                              [incident |-> call[c].incident, cites |-> thread[r].draft]]
                      ELSE reports
        /\ \/ /\ NoFault
              /\ IF approved THEN Go(c, "index") ELSE End(c)
           \/ /\ Fault
              /\ Go(c, "fail")
     \/ /\ (runs[r].status # "RUNNING" /\ NoFault) \/ Fault
        /\ Go(c, "fail")
        /\ UNCHANGED <<runs, stepRows, reports>>
  /\ UNCHANGED <<evidence, contexts, memory, thread, history>>

(* The report is read back and indexed.  A failing vector store is logged, *)
(* a failing read goes to the except branch.                               *)
IndexReport(c) ==
  LET r == call[c].run IN
  /\ call[c].step = "index"
  /\ \/ /\ memory' = IF reports[r] # None THEN memory \cup {r} ELSE memory
        /\ NoFault
        /\ End(c)
     \/ /\ Fault
        /\ End(c)
        /\ UNCHANGED memory
     \/ /\ Fault
        /\ Go(c, "fail")
        /\ UNCHANGED memory
  /\ UNCHANGED <<evidence, tables, thread, history>>

(* fail_run, the except branch: WHERE status='RUNNING', and whether it     *)
(* changed a row is not looked at.                                         *)
FailRun(c) ==
  LET r == call[c].run IN
  /\ call[c].step = "fail"
  /\ \/ /\ runs' = IF runs[r].status = "RUNNING"
                   THEN [runs EXCEPT ![r] =
                           [runs[r] EXCEPT !.status = "FAILED",
                                           !.calls = call[c].known + call[c].used]]
                   ELSE runs
        /\ NoFault \/ Fault
     \/ /\ Fault
        /\ UNCHANGED runs
  /\ End(c)
  /\ UNCHANGED <<evidence, contexts, stepRows, reports, memory, thread, history>>

(* The process stops.                                                      *)
CallStops(c) ==
  /\ call[c].step # "idle"
  /\ Fault
  /\ End(c)
  /\ UNCHANGED <<evidence, tables, memory, thread, history>>

-----------------------------------------------------------------------------
Continue(c) ==
  \/ CreateRun(c) \/ Prepare(c) \/ ResumeRun(c)
  \/ Invoke(c) \/ Superstep(c) \/ GraphRaises(c) \/ GraphReturns(c)
  \/ FinishRun(c) \/ IndexReport(c) \/ FailRun(c)

Next ==
  \/ \E i \in Incident, e \in Id : Collect(i, e)
  \/ \E c \in Call :
       \/ \E i \in Incident, r \in Run : StartRun(c, i, r)
       \/ \E r \in Run : StartResume(c, r)
       \/ Continue(c)
       \/ CallStops(c)

Spec == Init /\ [][Next]_vars

(* A call in progress goes on: every request it waits for has a timeout.   *)
FairSpec == Spec /\ \A c \in Call : WF_vars(Continue(c))

-----------------------------------------------------------------------------
Working(c) == call[c].step \in {"prepare", "invoke", "graph", "finish"}

(* At most one call works on a run and on its checkpoint, and while it     *)
(* does the run is RUNNING: of several resumes the UPDATE in resume_run    *)
(* lets one through (rca_repository.py:144).                               *)
OneWorker ==
  \A c \in Call : Working(c) =>
    /\ runs[call[c].run].status = "RUNNING"
    /\ \A d \in Call \ {c} :
         call[d].run = call[c].run => call[d].step = "resume"

(* A run that is completed or rejected stays as it is, with its report and *)
(* its steps, whatever calls are late (the WHERE clauses of finish_run,    *)
(* fail_run and resume_run).                                               *)
FinalStays ==
  [][\A r \in Run : runs[r].status \in Final =>
       runs'[r] = runs[r] /\ reports'[r] = reports[r] /\ stepRows'[r] = stepRows[r]]_vars

(* A run, its verdict, its steps, its context and its report tell one      *)
(* story: finish_run writes all of them or none; and the memory holds only *)
(* reports that are stored, and so verified (_index_verified_report,       *)
(* rca_runtime.py:90).                                                     *)
OneStory ==
  \A r \in Run :
    /\ reports[r] # None <=> runs[r].status = "COMPLETED"
    /\ runs[r].status = "COMPLETED" <=> runs[r].verdict = "APPROVED"
    /\ runs[r].status = "REJECTED" <=> runs[r].verdict = "REJECTED"
    /\ stepRows[r] = IF runs[r].status \in Final THEN 1 ELSE 0
    /\ runs[r].status \in Final => r \in contexts
    /\ r \in memory => runs[r].status = "COMPLETED"

(* A report is about its run's incident and cites evidence, and only what  *)
(* the run was started with, which is evidence of that incident.           *)
ReportGrounded ==
  \A r \in Run : reports[r] # None =>
    /\ reports[r].incident = runs[r].incident
    /\ reports[r].cites # {}
    /\ reports[r].cites \subseteq runs[r].evidence
    /\ runs[r].evidence \subseteq evidence[runs[r].incident]

(* A settled run's counters never count a call that was not made, and      *)
(* count every call made for it, over all its resumes, unless a resume     *)
(* overtook another (rca_runtime.py:212).                                  *)
CallsCounted ==
  \A r \in Run :
    /\ runs[r].calls <= spent[r]
    /\ runs[r].status \in Final \cup {"FAILED"} /\ r \notin raced => runs[r].calls = spent[r]

(* Every call is answered, if only with an error.                          *)
CallsAnswered == \A c \in Call : call[c].step # "idle" ~> call[c].step = "idle"

(* docs/optimization-evaluation.md:12 and README.md:57: a run that is      *)
(* interrupted is resumed from its checkpoint.  So no run with a           *)
(* checkpoint that no call works on is in a status that resume refuses.    *)
InterruptedResumable ==
  \A r \in Run :
    runs[r].status = "RUNNING" /\ thread[r] # Graph!NoCheckpoint =>
      \E c \in Call : call[c].run = r
===============================================================================
