---------------------------- MODULE RcaRunsProofs -----------------------------
(***************************************************************************)
(* Proofs about RcaRuns, for every number of incidents, runs, calls and    *)
(* faults.                                                                 *)
(***************************************************************************)
EXTENDS RcaRuns, TLAPS

(* What a checkpoint says of itself: the verdict is the graph's last word, *)
(* and an approved draft cites evidence of the run and nothing else.       *)
GoodThread(t) ==
  /\ t \in Graph!Checkpoint
  /\ t.next = "end" <=> t.verdict # None
  /\ t.next \in {"citation_guard", "verifier"} => t.draft # {}
  /\ t.next = "verifier" => t.draft \subseteq t.evidence
  /\ t.verdict = "APPROVED" => t.draft # {} /\ t.draft \subseteq t.evidence

(* The input of the graph is a checkpoint like others.                      *)
LEMMA InputGood ==
  /\ GoodThread(Graph!NoCheckpoint)
  /\ Graph!NoCheckpoint.next = "none"
  /\ \A E \in SUBSET Id :
       GoodThread(Graph!Input(E)) /\ Graph!Input(E).next = "load_context" /\ Graph!Input(E).evidence = E
  BY RunsAssumption DEF GoodThread, Graph!NoCheckpoint, Graph!Input, Graph!Checkpoint, Graph!Node

(* A superstep keeps that, and the evidence.                               *)
LEMMA AfterGood ==
  ASSUME NEW t, GoodThread(t), NEW u \in Graph!After(t)
  PROVE  GoodThread(u) /\ u.next # "none" /\ u.evidence = t.evidence
         /\ t.next \notin {"none", "end"}
<1>0. t \in Graph!Checkpoint /\ t.next \in Graph!Node \cup {"none", "end"}
  BY DEF GoodThread, Graph!Checkpoint
<1>1. CASE t.next = "load_context"
  <2>1. u = [t EXCEPT !.next = "commander"]
    BY <1>1 DEF Graph!After
  <2> QED
    BY <1>0, <1>1, <2>1 DEF GoodThread, Graph!Checkpoint, Graph!Node
<1>2. CASE t.next = "commander"
  <2>1. u = [t EXCEPT !.next = "investigate"]
    BY <1>2 DEF Graph!After
  <2> QED
    BY <1>0, <1>2, <2>1 DEF GoodThread, Graph!Checkpoint, Graph!Node
<1>3. CASE t.next = "investigate"
  <2>1. u = [t EXCEPT !.next = "synthesize"]
    BY <1>3 DEF Graph!After
  <2> QED
    BY <1>0, <1>3, <2>1 DEF GoodThread, Graph!Checkpoint, Graph!Node
<1>4. CASE t.next = "synthesize"
  <2>1. \E d \in Graph!Draft : u = [t EXCEPT !.next = "citation_guard", !.draft = d]
    BY <1>4 DEF Graph!After
  <2>2. PICK d \in (SUBSET Id) \ {{}} : u = [t EXCEPT !.next = "citation_guard", !.draft = d]
    BY <2>1 DEF Graph!Draft
  <2>3. u \in Graph!Checkpoint
    BY <1>0, <2>2 DEF Graph!Checkpoint, Graph!Node
  <2>4. u.next = "citation_guard" /\ u.draft = d /\ u.evidence = t.evidence /\ u.verdict = t.verdict
    BY <1>0, <2>2 DEF Graph!Checkpoint
  <2>5. t.verdict = None
    BY <1>4 DEF GoodThread
  <2>6. None # "APPROVED" /\ d # {}
    BY <2>2, RunsAssumption
  <2>7. GoodThread(u)
    BY <2>3, <2>4, <2>5, <2>6 DEF GoodThread
  <2> QED
    BY <1>4, <2>4, <2>7
<1>5. CASE t.next = "citation_guard"
  <2>1. u = [t EXCEPT !.next = IF t.draft \subseteq t.evidence THEN "verifier" ELSE "reject_citations"]
    BY <1>5 DEF Graph!After
  <2> QED
    BY <1>0, <1>5, <2>1 DEF GoodThread, Graph!Checkpoint, Graph!Node
<1>6. CASE t.next = "reject_citations"
  <2>1. u = [t EXCEPT !.next = "end", !.verdict = "REJECTED"]
    BY <1>6 DEF Graph!After
  <2> QED
    BY <1>0, <1>6, <2>1, RunsAssumption DEF GoodThread, Graph!Checkpoint, Graph!Node
<1>7. CASE t.next = "verifier"
  <2>1. PICK v \in {"APPROVED", "REJECTED"} : u = [t EXCEPT !.next = "end", !.verdict = v]
    BY <1>7 DEF Graph!After
  <2> QED
    BY <1>0, <1>7, <2>1, RunsAssumption DEF GoodThread, Graph!Checkpoint, Graph!Node
<1>8. CASE t.next \in {"none", "end"}
  <2>1. Graph!After(t) = {}
    BY <1>8 DEF Graph!After
  <2> QED
    BY <2>1
<1> QED
  BY <1>0, <1>1, <1>2, <1>3, <1>4, <1>5, <1>6, <1>7, <1>8 DEF Graph!Node

-----------------------------------------------------------------------------
(* The shape of one call: TypeOK, and an idle call has no run.             *)
GoodCall(s) ==
  /\ s \in CallState
  /\ s.step = "idle" => s.run = None
  /\ s.step # "idle" => s.run \in Run /\ s.incident \in Incident

Step == {"create", "prepare", "resume", "invoke", "graph", "finish", "index", "fail"}

(* An idle call says nothing.                                               *)
LEMMA IdleGood == GoodCall(Idle)
  BY DEF GoodCall, CallState, Idle

(* A call that starts or resumes a run.                                     *)
LEMMA StartGood ==
  ASSUME NEW i \in Incident, NEW r \in Run, NEW E \in SUBSET Id, NEW n \in Nat
  PROVE  /\ GoodCall([Idle EXCEPT !.step = "create", !.run = r, !.incident = i, !.evidence = E])
         /\ GoodCall([Idle EXCEPT !.step = "resume", !.run = r, !.incident = i, !.known = n])
<1> DEFINE s == [Idle EXCEPT !.step = "create", !.run = r, !.incident = i, !.evidence = E]
           t == [Idle EXCEPT !.step = "resume", !.run = r, !.incident = i, !.known = n]
<1>1. s \in CallState /\ t \in CallState
  BY DEF CallState, Idle
<1>2. /\ s.step = "create" /\ s.run = r /\ s.incident = i
      /\ t.step = "resume" /\ t.run = r /\ t.incident = i
  BY DEF Idle
<1> HIDE DEF s, t
<1>3. GoodCall(s) /\ GoodCall(t)
  BY <1>1, <1>2 DEF GoodCall
<1> QED
  BY <1>3 DEF s, t

(* A call that goes on.                                                     *)
LEMMA StepGood ==
  ASSUME NEW s, GoodCall(s), s.step # "idle", NEW step \in Step, NEW n \in Nat
  PROVE  LET t == [s EXCEPT !.step = step]
             u == [s EXCEPT !.step = step, !.used = s.used + n]
         IN /\ GoodCall(t) /\ t.step = step /\ t.run = s.run /\ t.incident = s.incident
            /\ t.evidence = s.evidence
            /\ GoodCall(u) /\ u.step = step /\ u.run = s.run /\ u.incident = s.incident
            /\ u.evidence = s.evidence
<1> DEFINE t == [s EXCEPT !.step = step]
           u == [s EXCEPT !.step = step, !.used = s.used + n]
<1>0. s \in CallState /\ s.used \in Nat /\ s.run \in Run /\ s.incident \in Incident
  BY DEF GoodCall, CallState
<1>1. s.used + n \in Nat
  BY <1>0
<1>2. t \in CallState /\ u \in CallState
  BY <1>0, <1>1 DEF CallState, Step
<1>3. /\ t.step = step /\ t.run = s.run /\ t.incident = s.incident /\ t.evidence = s.evidence
      /\ u.step = step /\ u.run = s.run /\ u.incident = s.incident /\ u.evidence = s.evidence
  BY <1>0 DEF CallState
<1>4. step # "idle"
  BY DEF Step
<1> HIDE DEF t, u
<1>5. GoodCall(t) /\ GoodCall(u)
  BY <1>0, <1>2, <1>3, <1>4 DEF GoodCall
<1> QED
  BY <1>3, <1>5 DEF t, u

(* A call that used more calls of the model.                                *)
LEMMA UsedGood ==
  ASSUME NEW s, GoodCall(s), NEW n \in Nat
  PROVE  LET t == [s EXCEPT !.used = s.used + n]
         IN /\ GoodCall(t) /\ t.step = s.step /\ t.run = s.run /\ t.incident = s.incident
            /\ t.evidence = s.evidence
<1> DEFINE t == [s EXCEPT !.used = s.used + n]
<1>0. s \in CallState /\ s.used + n \in Nat
  BY DEF GoodCall, CallState
<1>1. t \in CallState
  BY <1>0 DEF CallState
<1>2. t.step = s.step /\ t.run = s.run /\ t.incident = s.incident /\ t.evidence = s.evidence
  BY <1>0 DEF CallState
<1> HIDE DEF t
<1>3. GoodCall(t)
  BY <1>1, <1>2 DEF GoodCall
<1> QED
  BY <1>2, <1>3 DEF t

(* Calls that are overtaken are else the same.                              *)
LEMMA OvertakenGood ==
  ASSUME call \in [Call -> CallState], \A c \in Call : GoodCall(call[c]), NEW c \in Call
  PROVE  /\ Overtaken(c) \in [Call -> CallState]
         /\ \A d \in Call :
              /\ GoodCall(Overtaken(c)[d])
              /\ Overtaken(c)[d].step = call[d].step /\ Overtaken(c)[d].run = call[d].run
              /\ Overtaken(c)[d].incident = call[d].incident
              /\ Overtaken(c)[d].evidence = call[d].evidence
<1>1. ASSUME NEW s, GoodCall(s)
      PROVE  LET t == [s EXCEPT !.alone = FALSE]
             IN /\ GoodCall(t) /\ t.step = s.step /\ t.run = s.run /\ t.incident = s.incident
                /\ t.evidence = s.evidence
  <2> DEFINE t == [s EXCEPT !.alone = FALSE]
  <2>1. t \in CallState
    BY <1>1 DEF GoodCall, CallState
  <2>2. t.step = s.step /\ t.run = s.run /\ t.incident = s.incident /\ t.evidence = s.evidence
    BY <1>1 DEF GoodCall, CallState
  <2> HIDE DEF t
  <2>3. GoodCall(t)
    BY <1>1, <2>1, <2>2 DEF GoodCall
  <2> QED
    BY <2>2, <2>3 DEF t
<1>2. ASSUME NEW d \in Call
      PROVE  /\ GoodCall(Overtaken(c)[d])
             /\ Overtaken(c)[d].step = call[d].step /\ Overtaken(c)[d].run = call[d].run
             /\ Overtaken(c)[d].incident = call[d].incident
             /\ Overtaken(c)[d].evidence = call[d].evidence
  BY <1>1 DEF Overtaken
<1>3. \A d \in Call : Overtaken(c)[d] \in CallState
  BY <1>2 DEF GoodCall
<1> QED
  BY <1>2, <1>3 DEF Overtaken

-----------------------------------------------------------------------------
(* Types, with what calls and checkpoints say of themselves.               *)
Shape ==
  /\ TypeOK
  /\ \A c \in Call : GoodCall(call[c])
  /\ \A r \in Run : GoodThread(thread[r])
  /\ \A r \in Run : runs[r].status # "ABSENT" => runs[r].incident \in Incident

(* Every step keeps the shape.                                              *)
LEMMA ShapeStep == Shape /\ [Next]_vars => Shape'
<1> DEFINE Tables ==
      /\ evidence \in [Incident -> SUBSET Id]
      /\ runs \in [Run -> RunRow]
      /\ \A r \in Run : runs[r].status # "ABSENT" => runs[r].incident \in Incident
      /\ contexts \subseteq Run
      /\ stepRows \in [Run -> Nat]
      /\ reports \in [Run -> Report \cup {None}]
      /\ memory \subseteq Run
<1> DEFINE Threads == thread \in [Run -> Graph!Checkpoint] /\ \A r \in Run : GoodThread(thread[r])
<1> DEFINE Calls == call \in [Call -> CallState] /\ \A c \in Call : GoodCall(call[c])
<1> DEFINE History == spent \in [Run -> Nat] /\ raced \subseteq Run /\ faults \in 0..MaxFaults
<1>0. Shape <=> Tables /\ Threads /\ Calls /\ History
  BY DEF Shape, TypeOK, GoodCall
<1>00. Shape' <=> Tables' /\ Threads' /\ Calls' /\ History'
  BY DEF Shape, TypeOK, GoodCall
<1> HIDE DEF Tables, Threads, Calls, History
<1> SUFFICES ASSUME Tables, Threads, Calls, History, [Next]_vars
             PROVE  Tables' /\ Threads' /\ Calls' /\ History'
  BY <1>0, <1>00
<1>a. ASSUME NEW c \in Call, NEW s, GoodCall(s), call' = [call EXCEPT ![c] = s]
      PROVE  Calls'
  BY <1>a DEF Calls, GoodCall
<1>b. ASSUME NEW c \in Call, NEW step \in Step, call[c].step # "idle", Go(c, step)
      PROVE  Calls'
  <2>1. GoodCall(call[c])
    BY DEF Calls
  <2>2. GoodCall([call[c] EXCEPT !.step = step])
    BY <2>1, <1>b, StepGood
  <2> QED
    BY <1>a, <1>b, <2>2 DEF Go
<1>c. ASSUME NEW c \in Call, End(c)
      PROVE  Calls'
  BY <1>a, <1>c, IdleGood DEF End
<1>d. ASSUME Fault \/ NoFault
      PROVE  faults' \in 0..MaxFaults
  BY <1>d, RunsAssumption DEF Fault, NoFault, History
<1>e. ASSUME NEW c \in Call, call[c].step # "idle"
      PROVE  /\ call[c].run \in Run /\ call[c].incident \in Incident /\ call[c].evidence \in SUBSET Id
             /\ call[c].known \in Nat /\ call[c].used \in Nat
             /\ GoodThread(thread[call[c].run]) /\ runs[call[c].run] \in RunRow
  BY <1>e DEF Calls, GoodCall, CallState, Threads, Tables
<1>1. ASSUME NEW i \in Incident, NEW e \in Id, Collect(i, e)
      PROVE  Tables' /\ Threads' /\ Calls' /\ History'
  BY <1>1 DEF Collect, Tables, Threads, Calls, History, tables, history
<1>2. ASSUME NEW c \in Call, NEW i \in Incident, NEW r \in Run, StartRun(c, i, r)
      PROVE  Tables' /\ Threads' /\ Calls' /\ History'
  <2>1. evidence[i] \in SUBSET Id
    BY DEF Tables
  <2>2. Calls'
    BY <1>2, <2>1, <1>a, StartGood DEF StartRun
  <2> QED
    BY <1>2, <2>2 DEF StartRun, Tables, Threads, History, tables, history
<1>3. ASSUME NEW c \in Call, NEW r \in Run, StartResume(c, r)
      PROVE  Tables' /\ Threads' /\ Calls' /\ History'
  <2>1. runs[r].incident \in Incident /\ runs[r].calls \in Nat
    BY <1>3 DEF Tables, RunRow, StartResume
  <2>2. GoodCall([Idle EXCEPT !.step = "resume", !.run = r, !.incident = runs[r].incident,
                              !.known = runs[r].calls])
    BY <2>1, StartGood
  <2>3. Calls'
    BY <1>3, <2>2, <1>a DEF StartResume
  <2> QED
    BY <1>3, <2>3 DEF StartResume, Tables, Threads, History, tables, history
<1>4. ASSUME NEW c \in Call, CreateRun(c)
      PROVE  Tables' /\ Threads' /\ Calls' /\ History'
  <2>1. call[c].step # "idle"
    BY <1>4 DEF CreateRun
  <2>2. Calls'
    BY <1>4, <2>1, <1>b, <1>c DEF CreateRun, Step
  <2> DEFINE new == [NoRun EXCEPT !.status = "RUNNING", !.incident = call[c].incident,
                                  !.evidence = call[c].evidence]
  <2>3. new \in RunRow /\ new.incident \in Incident
    BY <2>1, <1>e DEF RunRow, NoRun
  <2>4. runs' = [runs EXCEPT ![call[c].run] = new] \/ runs' = runs
    BY <1>4 DEF CreateRun
  <2> HIDE DEF new
  <2>5. Tables'
    BY <1>4, <2>1, <1>e, <2>3, <2>4 DEF CreateRun, Tables
  <2>6. History'
    BY <1>4, <1>d DEF CreateRun, History, history
  <2> QED
    BY <1>4, <2>2, <2>5, <2>6 DEF CreateRun, Threads
<1>5. ASSUME NEW c \in Call, Prepare(c)
      PROVE  Tables' /\ Threads' /\ Calls' /\ History'
  <2>1. call[c].step # "idle" /\ call[c].run \in Run
    BY <1>5, <1>e DEF Prepare
  <2>2. Calls'
    BY <1>5, <2>1, <1>b DEF Prepare, Step
  <2>3. Tables'
    BY <1>5, <2>1 DEF Prepare, Tables
  <2>4. History'
    BY <1>5, <1>d DEF Prepare, History, history
  <2> QED
    BY <1>5, <2>2, <2>3, <2>4 DEF Prepare, Threads
<1>6. ASSUME NEW c \in Call, ResumeRun(c)
      PROVE  Tables' /\ Threads' /\ Calls' /\ History'
  <2>1. call[c].step # "idle" /\ call[c].run \in Run
    BY <1>6, <1>e DEF ResumeRun
  <2>2. Calls'
    <3>1. GoodCall([call[c] EXCEPT !.step = "graph"]) /\ GoodCall(Idle)
      BY <2>1, StepGood, IdleGood DEF Calls, Step
    <3>2. /\ Overtaken(c) \in [Call -> CallState]
          /\ \A d \in Call : GoodCall(Overtaken(c)[d])
      BY OvertakenGood DEF Calls
    <3>3. ASSUME NEW s, GoodCall(s), call' = [Overtaken(c) EXCEPT ![c] = s]
          PROVE  Calls'
      BY <3>2, <3>3 DEF Calls, GoodCall
    <3> QED
      BY <1>6, <3>1, <3>3, <1>c DEF ResumeRun
  <2> DEFINE new == [runs[call[c].run] EXCEPT !.status = "RUNNING"]
  <2>3. runs[call[c].run].status = "FAILED" => new \in RunRow /\ new.incident \in Incident
    <3>1. /\ runs[call[c].run] \in RunRow
          /\ runs[call[c].run].status = "FAILED" => runs[call[c].run].incident \in Incident
      BY <2>1 DEF Tables
    <3>2. new \in RunRow /\ new.incident = runs[call[c].run].incident
      BY <3>1 DEF RunRow
    <3> HIDE DEF new
    <3> QED
      BY <3>1, <3>2
  <2>4. \/ runs[call[c].run].status = "FAILED" /\ runs' = [runs EXCEPT ![call[c].run] = new]
        \/ runs' = runs
    BY <1>6 DEF ResumeRun
  <2> HIDE DEF new
  <2>5. Tables'
    BY <1>6, <2>1, <2>3, <2>4 DEF ResumeRun, Tables
  <2>6. History'
    BY <1>6, <2>1, <1>d DEF ResumeRun, History
  <2> QED
    BY <1>6, <2>2, <2>5, <2>6 DEF ResumeRun, Threads
<1>7. ASSUME NEW c \in Call, Invoke(c)
      PROVE  Tables' /\ Threads' /\ Calls' /\ History'
  <2>1. call[c].step # "idle" /\ call[c].run \in Run /\ call[c].evidence \in SUBSET Id
    BY <1>7, <1>e DEF Invoke
  <2>2. Calls'
    BY <1>7, <2>1, <1>b DEF Invoke, Step
  <2>3. GoodThread(Graph!Input(call[c].evidence))
    BY <2>1, InputGood
  <2>4. thread' = [thread EXCEPT ![call[c].run] = Graph!Input(call[c].evidence)]
    BY <1>7 DEF Invoke
  <2>5. Threads'
    BY <2>1, <2>3, <2>4 DEF Threads, GoodThread
  <2> QED
    BY <1>7, <2>2, <2>5 DEF Invoke, Tables, History, tables, history
<1>8. ASSUME NEW c \in Call, Superstep(c)
      PROVE  Tables' /\ Threads' /\ Calls' /\ History'
  <2> DEFINE n == IF AsksModel(thread[call[c].run].next) THEN 1 ELSE 0
  <2>1. call[c].step # "idle" /\ call[c].run \in Run /\ n \in Nat
    BY <1>8, <1>e DEF Superstep
  <2>a. Spend(c, n)
    BY <1>8 DEF Superstep
  <2> HIDE DEF n
  <2>2. Calls'
    <3>1. GoodCall([call[c] EXCEPT !.used = call[c].used + n])
      BY <2>1, UsedGood DEF Calls
    <3> QED
      BY <1>a, <2>a, <3>1 DEF Spend
  <2>3. PICK next \in Graph!After(thread[call[c].run]) : thread' = [thread EXCEPT ![call[c].run] = next]
    BY <1>8 DEF Superstep
  <2>4. GoodThread(next)
    BY <2>1, <1>e, AfterGood
  <2>5. Threads'
    BY <2>1, <2>3, <2>4 DEF Threads, GoodThread
  <2>6. History'
    BY <1>8, <2>1, <2>a DEF Superstep, Spend, History
  <2> QED
    BY <1>8, <2>2, <2>5, <2>6 DEF Superstep, Tables, tables
<1>9. ASSUME NEW c \in Call, GraphRaises(c)
      PROVE  Tables' /\ Threads' /\ Calls' /\ History'
  <2>1. call[c].step # "idle" /\ call[c].run \in Run /\ "fail" \in Step /\ GoodCall(call[c])
    BY <1>9, <1>e DEF GraphRaises, Step, Calls
  <2>2. Calls' /\ spent' \in [Run -> Nat]
    <3>1. CASE Go(c, "fail") /\ UNCHANGED spent
      BY <1>b, <2>1, <3>1 DEF History
    <3>2. ASSUME NEW n \in Nat, spent' = [spent EXCEPT ![call[c].run] = @ + n],
                 call' = [call EXCEPT ![c] =
                            [call[c] EXCEPT !.step = "fail", !.used = call[c].used + n]]
          PROVE  Calls' /\ spent' \in [Run -> Nat]
      <4>1. GoodCall([call[c] EXCEPT !.step = "fail", !.used = call[c].used + n])
        BY <2>1, StepGood
      <4>2. Calls'
        BY <1>a, <3>2, <4>1
      <4>3. spent' \in [Run -> Nat]
        BY <2>1, <3>2 DEF History
      <4> QED
        BY <4>2, <4>3
    <3>3. CASE ~(Go(c, "fail") /\ UNCHANGED spent)
      <4> DEFINE N == IF AsksModel(thread[call[c].run].next) THEN {0, 1} ELSE {0}
      <4>1. PICK n \in N :
              /\ call' = [call EXCEPT ![c] =
                            [call[c] EXCEPT !.step = "fail", !.used = call[c].used + n]]
              /\ spent' = [spent EXCEPT ![call[c].run] = @ + n]
        BY <1>9, <3>3 DEF GraphRaises
      <4>2. n \in Nat
        OBVIOUS
      <4> QED
        BY <3>2, <4>1, <4>2
    <3> QED
      BY <3>1, <3>3
  <2>3. faults' \in 0..MaxFaults
    BY <1>9, <1>d DEF GraphRaises
  <2> QED
    BY <1>9, <2>2, <2>3 DEF GraphRaises, Tables, Threads, History, tables
<1>10. ASSUME NEW c \in Call, GraphReturns(c)
       PROVE  Tables' /\ Threads' /\ Calls' /\ History'
  <2>1. Calls'
    BY <1>10, <1>b DEF GraphReturns, Step
  <2> QED
    BY <1>10, <2>1 DEF GraphReturns, Tables, Threads, History, tables, history
<1>11. ASSUME NEW c \in Call, FinishRun(c)
       PROVE  Tables' /\ Threads' /\ Calls' /\ History'
  <2> DEFINE r == call[c].run
             st == IF thread[r].verdict = "APPROVED" THEN "COMPLETED" ELSE "REJECTED"
             new == [runs[r] EXCEPT !.status = st, !.verdict = thread[r].verdict,
                                    !.calls = call[c].known + call[c].used]
             report == [incident |-> call[c].incident, cites |-> thread[r].draft]
  <2>1. call[c].step # "idle" /\ r \in Run
    BY <1>11, <1>e DEF FinishRun
  <2>2. Calls'
    BY <1>11, <2>1, <1>b, <1>c DEF FinishRun, Step
  <2>3. thread[r].verdict \in {None, "APPROVED", "REJECTED"} /\ thread[r].draft \in SUBSET Id
    BY <2>1, <1>e DEF GoodThread, Graph!Checkpoint
  <2>4. call[c].known + call[c].used \in Nat /\ runs[r] \in RunRow /\ call[c].incident \in Incident
    BY <2>1, <1>e
  <2>5. new \in RunRow /\ new.incident = runs[r].incident
    BY <2>3, <2>4 DEF RunRow, Final
  <2>6. report \in Report
    BY <2>3, <2>4 DEF Report
  <2>7. \/ /\ runs[r].status = "RUNNING"
           /\ runs' = [runs EXCEPT ![r] = new]
           /\ stepRows' = [stepRows EXCEPT ![r] = @ + 1]
           /\ reports' = [reports EXCEPT ![r] = report] \/ reports' = reports
        \/ UNCHANGED <<runs, stepRows, reports>>
    BY <1>11 DEF FinishRun
  <2> HIDE DEF new, report, st
  <2>8. Tables'
    BY <1>11, <2>1, <2>5, <2>6, <2>7 DEF FinishRun, Tables
  <2>9. History'
    BY <1>11, <1>d DEF FinishRun, History, history
  <2> QED
    BY <1>11, <2>2, <2>8, <2>9 DEF FinishRun, Threads
<1>12. ASSUME NEW c \in Call, IndexReport(c)
       PROVE  Tables' /\ Threads' /\ Calls' /\ History'
  <2>1. call[c].step # "idle" /\ call[c].run \in Run
    BY <1>12, <1>e DEF IndexReport
  <2>2. Calls'
    BY <1>12, <2>1, <1>b, <1>c DEF IndexReport, Step
  <2>3. Tables'
    BY <1>12, <2>1 DEF IndexReport, Tables, tables
  <2>4. History'
    BY <1>12, <1>d DEF IndexReport, History, history
  <2> QED
    BY <1>12, <2>2, <2>3, <2>4 DEF IndexReport, Threads
<1>13. ASSUME NEW c \in Call, FailRun(c)
       PROVE  Tables' /\ Threads' /\ Calls' /\ History'
  <2> DEFINE r == call[c].run
             new == [runs[r] EXCEPT !.status = "FAILED", !.calls = call[c].known + call[c].used]
  <2>1. call[c].step # "idle" /\ r \in Run
    BY <1>13, <1>e DEF FailRun
  <2>2. Calls'
    BY <1>13, <1>c DEF FailRun
  <2>3. call[c].known + call[c].used \in Nat /\ runs[r] \in RunRow
    BY <2>1, <1>e
  <2>4. new \in RunRow /\ new.incident = runs[r].incident
    BY <2>3 DEF RunRow
  <2>5. (runs[r].status = "RUNNING" /\ runs' = [runs EXCEPT ![r] = new]) \/ runs' = runs
    BY <1>13 DEF FailRun
  <2> HIDE DEF new
  <2>6. Tables'
    BY <1>13, <2>1, <2>4, <2>5 DEF FailRun, Tables
  <2>7. History'
    BY <1>13, <1>d DEF FailRun, History, history
  <2> QED
    BY <1>13, <2>2, <2>6, <2>7 DEF FailRun, Threads
<1>14. ASSUME NEW c \in Call, CallStops(c)
       PROVE  Tables' /\ Threads' /\ Calls' /\ History'
  <2>1. Calls' /\ faults' \in 0..MaxFaults
    BY <1>14, <1>c, <1>d DEF CallStops
  <2> QED
    BY <1>14, <2>1 DEF CallStops, Tables, Threads, History, tables, history
<1>15. CASE UNCHANGED vars
  BY <1>15 DEF vars, tables, history, Tables, Threads, Calls, History
<1> QED
  BY <1>1, <1>2, <1>3, <1>4, <1>5, <1>6, <1>7, <1>8, <1>9, <1>10, <1>11, <1>12, <1>13, <1>14,
     <1>15 DEF Next, Continue

(* The shape at the start.                                                  *)
LEMMA ShapeInit == Init => Shape
<1> SUFFICES ASSUME Init PROVE Shape
  OBVIOUS
<1>1. \A r \in Run : GoodThread(thread[r]) /\ runs[r] = NoRun
  BY InputGood DEF Init
<1>2. \A c \in Call : GoodCall(call[c])
  BY IdleGood DEF Init
<1>3. NoRun \in RunRow /\ NoRun.status = "ABSENT"
  BY DEF NoRun, RunRow
<1>4. /\ call \in [Call -> CallState]
      /\ thread \in [Run -> Graph!Checkpoint]
      /\ runs \in [Run -> RunRow]
  BY <1>1, <1>2, <1>3 DEF Init, GoodThread, GoodCall
<1> QED
  BY <1>1, <1>2, <1>3, <1>4, RunsAssumption DEF Init, Shape, TypeOK, GoodCall

(* The shape, always.                                                       *)
LEMMA ShapeHolds == Spec => []Shape
  BY ShapeInit, ShapeStep, PTL DEF Spec

(* Every state has the shape TypeOK says.                                  *)
THEOREM Typing == Spec => []TypeOK
<1>1. Shape => TypeOK
  BY DEF Shape
<1> QED
  BY <1>1, ShapeHolds, PTL

-----------------------------------------------------------------------------
(* Who works on a run.  A call holds it from drawing its id or winning it  *)
(* until it is settled; the run's status tells how far the holder is; the  *)
(* other calls on the run have only read its row.                          *)
Holder(c) == call[c].step \notin {"idle", "resume"}

StatusAt(step) ==
  CASE step = "create" -> {"ABSENT"}
    [] step \in {"prepare", "invoke", "graph", "finish"} -> {"RUNNING"}
    [] step = "index" -> {"COMPLETED"}
    [] step = "fail" -> {"RUNNING"} \cup Final
    [] step = "resume" -> {"RUNNING", "FAILED"} \cup Final

WorkInv ==
  \A c \in Call : call[c].step # "idle" =>
    /\ runs[call[c].run].status \in StatusAt(call[c].step)
    /\ Holder(c) => \A d \in Call \ {c} : call[d].run = call[c].run => call[d].step = "resume"

(* A call c that moves on on its run r keeps that.                         *)
LEMMA Moves ==
  ASSUME Shape, Shape', WorkInv, NEW c \in Call, NEW r \in Run,
         call[c].step # "idle", call[c].run = r,
         \A d \in Call \ {c} : call'[d].step = call[d].step /\ call'[d].run = call[d].run,
         \A q \in Run \ {r} : runs'[q].status = runs[q].status,
         \/ call'[c].step = "idle"
         \/ call'[c].run = r /\ runs'[r].status \in StatusAt(call'[c].step),
         call[c].step = "resume" =>
           \/ runs[r].status = "FAILED"
           \/ call'[c].step = "idle" /\ runs'[r].status = runs[r].status,
         runs'[r].status = "ABSENT" => runs[r].status = "ABSENT"
  PROVE  WorkInv'
<1>0. \A d \in Call : /\ GoodCall(call[d]) /\ GoodCall(call[d])'
                      /\ call[d].step \in Step \cup {"idle"} /\ call'[d].step \in Step \cup {"idle"}
  BY DEF Shape, TypeOK, CallState, Step
<1>1. None \notin Run
  BY RunsAssumption
<1>2. \A d \in Call : /\ call[d].step = "idle" => call[d].run = None
                      /\ call'[d].step = "idle" => call'[d].run = None
  BY <1>0 DEF GoodCall
<1>3. runs'[r].status \in {"ABSENT", "RUNNING", "FAILED"} \cup Final
  BY DEF Shape, TypeOK, RunRow
<1>4. \A d \in Call : Holder(d) /\ call[d].run = r => runs[r].status # "FAILED"
  BY <1>0 DEF WorkInv, Holder, StatusAt, Final, Step
<1>5. \A d \in Call \ {c} : call[d].run = r /\ (Holder(c) \/ runs[r].status = "FAILED")
                            => call[d].step = "resume"
  BY <1>1, <1>2, <1>4 DEF WorkInv, Holder
<1>6. \A d \in Call : call[d].run = r /\ call[d].step = "resume" => runs[r].status # "ABSENT"
  BY DEF WorkInv, StatusAt, Final
<1>7. Holder(c) \/ call[c].step = "resume"
  BY DEF Holder
<1>8. ASSUME NEW d \in Call, call'[d].step # "idle"
      PROVE  runs'[call'[d].run].status \in StatusAt(call'[d].step)
  <2>1. CASE d = c
    BY <1>8, <2>1
  <2>2. CASE d # c /\ call[d].run # r
    <3>1. call[d].step # "idle" /\ call[d].run \in Run
      BY <1>0, <1>8, <2>2 DEF GoodCall
    <3> QED
      BY <2>2, <3>1 DEF WorkInv
  <2>3. CASE d # c /\ call[d].run = r
    <3>1. call[d].step # "idle" /\ runs[r].status \in StatusAt(call[d].step)
      BY <1>8, <2>3 DEF WorkInv
    <3>2. CASE call[d].step = "resume"
      <4>1. runs'[r].status # "ABSENT"
        BY <1>6, <2>3, <3>2
      <4> QED
        BY <1>3, <2>3, <3>2, <4>1 DEF StatusAt
    <3>3. CASE call[d].step # "resume"
      <4>1. call[c].step = "resume" /\ runs[r].status # "FAILED"
        BY <1>5, <1>7, <2>3, <3>3
      <4> QED
        BY <2>3, <3>1, <4>1
    <3> QED
      BY <3>2, <3>3
  <2> QED
    BY <2>1, <2>2, <2>3
<1>9. ASSUME NEW d \in Call, call'[d].step \notin {"idle", "resume"},
             NEW e \in Call \ {d}, call'[e].run = call'[d].run
      PROVE  call'[e].step = "resume"
  <2>0. call'[d].run \in Run
    BY <1>0, <1>9 DEF GoodCall
  <2>1. CASE d = c
    <3>1. call'[c].run = r
      BY <1>9, <2>1
    <3>2. Holder(c) \/ runs[r].status = "FAILED"
      BY <1>7, <1>9, <2>1
    <3> QED
      BY <1>5, <1>9, <2>1, <3>1, <3>2
  <2>2. CASE d # c /\ e = c
    <3>1. call'[c].step # "idle" /\ call'[c].run = r /\ call[d].run = r
      BY <1>1, <1>2, <1>9, <2>0, <2>2
    <3>2. Holder(d)
      BY <1>9, <2>2 DEF Holder
    <3>3. runs[r].status # "FAILED" /\ call[c].step = "resume"
      BY <1>4, <3>1, <3>2, <2>2 DEF WorkInv, Holder
    <3> QED
      BY <3>1, <3>3
  <2>3. CASE d # c /\ e # c
    BY <1>9, <2>3 DEF WorkInv, Holder
  <2> QED
    BY <2>1, <2>2, <2>3
<1> QED
  BY <1>8, <1>9 DEF WorkInv, Holder

(* Every step leaves a run to one holder.                                   *)
LEMMA WorkStep == Shape /\ Shape' /\ WorkInv /\ [Next]_vars => WorkInv'
<1> SUFFICES ASSUME Shape, Shape', WorkInv, [Next]_vars
             PROVE  WorkInv'
  OBVIOUS
<1>0. /\ \A c \in Call : GoodCall(call[c])
      /\ runs \in [Run -> RunRow] /\ call \in [Call -> CallState]
  BY DEF Shape, TypeOK
<1>a. ASSUME NEW c \in Call, call[c].step # "idle", NEW step \in Step, Go(c, step)
      PROVE  /\ \A d \in Call \ {c} : call'[d] = call[d]
             /\ call'[c].step = step /\ call'[c].run = call[c].run
  BY <1>0, <1>a, StepGood DEF Go
<1>b. ASSUME NEW c \in Call, End(c)
      PROVE  call'[c].step = "idle" /\ \A d \in Call \ {c} : call'[d] = call[d]
  BY <1>0, <1>b DEF End, Idle
<1>c. ASSUME NEW c \in Call, call[c].step # "idle"
      PROVE  call[c].run \in Run /\ runs[call[c].run] \in RunRow
             /\ runs[call[c].run].status \in StatusAt(call[c].step)
  BY <1>0, <1>c DEF GoodCall, WorkInv
<1>1. ASSUME NEW c \in Call, NEW i \in Incident, NEW r \in Run, StartRun(c, i, r)
      PROVE  WorkInv'
  <2>1. call'[c].step = "create" /\ call'[c].run = r /\ \A d \in Call \ {c} : call'[d] = call[d]
    BY <1>0, <1>1 DEF StartRun, Idle
  <2>2. runs' = runs /\ runs[r].status = "ABSENT" /\ \A d \in Call : call[d].run # r
    BY <1>1 DEF StartRun, tables
  <2>3. \A d \in Call \ {c} : call'[d].run # call'[c].run
    BY <2>1, <2>2
  <2>4. StatusAt("create") = {"ABSENT"}
    BY DEF StatusAt
  <2> QED
    BY <2>1, <2>2, <2>3, <2>4 DEF WorkInv, Holder
<1>2. ASSUME NEW c \in Call, NEW r \in Run, StartResume(c, r)
      PROVE  WorkInv'
  <2>1. call'[c].step = "resume" /\ call'[c].run = r /\ \A d \in Call \ {c} : call'[d] = call[d]
    BY <1>0, <1>2 DEF StartResume, Idle
  <2>2. runs' = runs /\ runs[r].status = "FAILED"
    BY <1>2 DEF StartResume, tables
  <2>3. "FAILED" \in StatusAt("resume")
    BY DEF StatusAt
  <2>4. \A d \in Call \ {c} : Holder(d) => call[d].run # r
    <3>1. \A d \in Call : call[d].step \in Step \cup {"idle"}
      BY <1>0 DEF CallState, Step
    <3> QED
      BY <2>2, <3>1 DEF WorkInv, Holder, StatusAt, Final, Step
  <2> QED
    BY <2>1, <2>2, <2>3, <2>4 DEF WorkInv, Holder
<1>3. ASSUME NEW c \in Call, CreateRun(c)
      PROVE  WorkInv'
  <2> DEFINE r == call[c].run
             new == [NoRun EXCEPT !.status = "RUNNING", !.incident = call[c].incident,
                                  !.evidence = call[c].evidence]
  <2>1. call[c].step = "create" /\ "prepare" \in Step /\ r \in Run
    BY <1>3, <1>c DEF CreateRun, Step
  <2>2. \/ runs' = [runs EXCEPT ![r] = new] /\ (Go(c, "prepare") \/ End(c))
        \/ runs' = runs /\ End(c)
    BY <1>3 DEF CreateRun
  <2>3. new.status = "RUNNING"
    BY DEF NoRun
  <2> HIDE DEF new
  <2>4. /\ \A q \in Run \ {r} : runs'[q].status = runs[q].status
        /\ \/ runs'[r].status = "RUNNING"
           \/ (runs' = runs /\ End(c))
    BY <1>0, <2>1, <2>2, <2>3
  <2>5. "RUNNING" \in StatusAt("prepare")
    BY DEF StatusAt
  <2>6. runs[r].status = "ABSENT"
    BY <1>c, <2>1 DEF StatusAt
  <2> QED
    BY <1>a, <1>b, <2>1, <2>2, <2>4, <2>5, <2>6, Moves
<1>4. ASSUME NEW c \in Call, runs' = runs, call[c].step \in {"prepare", "invoke", "graph"},
             \/ \E step \in {"invoke", "graph", "finish", "fail"} : 
                   /\ \A d \in Call \ {c} : call'[d] = call[d]
                   /\ call'[c].step = step /\ call'[c].run = call[c].run
      PROVE  WorkInv'
  <2>1. call[c].run \in Run /\ call[c].step # "idle" /\ call[c].step # "resume"
    BY <1>4, <1>c
  <2>2. runs[call[c].run].status = "RUNNING"
    BY <1>4, <1>c, <2>1 DEF StatusAt
  <2>3. \A step \in {"invoke", "graph", "finish", "fail"} : "RUNNING" \in StatusAt(step)
    BY DEF StatusAt
  <2> QED
    BY <1>4, <2>1, <2>2, <2>3, Moves
<1>5. ASSUME NEW c \in Call, Prepare(c)
      PROVE  WorkInv'
  <2>1. call[c].step = "prepare" /\ runs' = runs /\ (Go(c, "invoke") \/ Go(c, "fail"))
        /\ {"invoke", "fail"} \subseteq Step
    BY <1>5 DEF Prepare, Step
  <2> QED
    BY <2>1, <1>4, <1>a
<1>6. ASSUME NEW c \in Call, Invoke(c)
      PROVE  WorkInv'
  <2>1. call[c].step = "invoke" /\ runs' = runs /\ Go(c, "graph") /\ "graph" \in Step
    BY <1>6 DEF Invoke, Step, tables
  <2> QED
    BY <2>1, <1>4, <1>a
<1>7. ASSUME NEW c \in Call, Superstep(c)
      PROVE  WorkInv'
  <2>1. call[c].step = "graph" /\ runs' = runs
    BY <1>7 DEF Superstep, tables
  <2>2. PICK n \in Nat : call' = [call EXCEPT ![c] = [call[c] EXCEPT !.used = call[c].used + n]]
    <3>1. (IF AsksModel(thread[call[c].run].next) THEN 1 ELSE 0) \in Nat
      OBVIOUS
    <3> QED
      BY <1>7, <3>1 DEF Superstep, Spend
  <2>3. /\ \A d \in Call \ {c} : call'[d] = call[d]
        /\ call'[c].step = call[c].step /\ call'[c].run = call[c].run
    BY <1>0, <2>2, UsedGood
  <2> QED
    BY <2>1, <2>3, <1>4
<1>8. ASSUME NEW c \in Call, GraphRaises(c)
      PROVE  WorkInv'
  <2>1. call[c].step \in {"invoke", "graph"} /\ runs' = runs /\ "fail" \in Step
    BY <1>8 DEF GraphRaises, tables, Step
  <2>2. CASE Go(c, "fail")
    BY <2>1, <2>2, <1>4, <1>a
  <2>3. CASE ~Go(c, "fail")
    <3> DEFINE N == IF AsksModel(thread[call[c].run].next) THEN {0, 1} ELSE {0}
    <3>1. PICK n \in N : call' = [call EXCEPT ![c] =
                            [call[c] EXCEPT !.step = "fail", !.used = call[c].used + n]]
      BY <1>8, <2>3 DEF GraphRaises
    <3>2. n \in Nat
      OBVIOUS
    <3> HIDE DEF N
    <3> DEFINE u == [call[c] EXCEPT !.step = "fail", !.used = call[c].used + n]
    <3>u. u.step = "fail" /\ u.run = call[c].run
      BY <1>0 DEF CallState
    <3>v. call' = [call EXCEPT ![c] = u]
      BY <3>1
    <3> HIDE DEF u
    <3>3. /\ \A d \in Call \ {c} : call'[d] = call[d]
          /\ call'[c].step = "fail" /\ call'[c].run = call[c].run
      BY <1>0, <3>u, <3>v
    <3> QED
      BY <2>1, <3>3, <1>4
  <2> QED
    BY <2>2, <2>3
<1>9. ASSUME NEW c \in Call, GraphReturns(c)
      PROVE  WorkInv'
  <2>1. call[c].step = "graph" /\ runs' = runs /\ Go(c, "finish") /\ "finish" \in Step
    BY <1>9 DEF GraphReturns, Step, tables
  <2> QED
    BY <2>1, <1>4, <1>a
<1>10. ASSUME NEW c \in Call, ResumeRun(c)
       PROVE  WorkInv'
  <2> DEFINE r == call[c].run
             new == [runs[r] EXCEPT !.status = "RUNNING"]
  <2>1. call[c].step = "resume" /\ r \in Run /\ runs[r].status # "ABSENT" /\ "graph" \in Step
    BY <1>10, <1>c DEF ResumeRun, StatusAt, Final, Step
  <2>2. CASE runs' = runs /\ End(c)
    BY <1>b, <2>1, <2>2, Moves
  <2>3. CASE ~(runs' = runs /\ End(c))
    <3>1. /\ runs[r].status = "FAILED"
          /\ runs' = [runs EXCEPT ![r] = new]
          /\ \/ call' = [Overtaken(c) EXCEPT ![c] = [call[c] EXCEPT !.step = "graph"]]
             \/ call' = [Overtaken(c) EXCEPT ![c] = Idle]
      BY <1>10, <2>3 DEF ResumeRun
    <3>2. new.status = "RUNNING"
      BY <1>0, <2>1 DEF RunRow
    <3> HIDE DEF new
    <3>3. runs'[r].status = "RUNNING" /\ \A q \in Run \ {r} : runs'[q] = runs[q]
      BY <1>0, <2>1, <3>1, <3>2
    <3>4. Overtaken(c) \in [Call -> CallState]
          /\ \A d \in Call : Overtaken(c)[d].step = call[d].step /\ Overtaken(c)[d].run = call[d].run
      BY <1>0, OvertakenGood
    <3>5. \A d \in Call \ {c} : call'[d].step = call[d].step /\ call'[d].run = call[d].run
      BY <3>1, <3>4
    <3>6. call'[c].step = "idle" \/ (call'[c].step = "graph" /\ call'[c].run = r)
      <4>1. CASE call' = [Overtaken(c) EXCEPT ![c] = Idle]
        BY <3>4, <4>1 DEF Idle
      <4> DEFINE t == [call[c] EXCEPT !.step = "graph"]
      <4>2. CASE call' = [Overtaken(c) EXCEPT ![c] = t]
        <5>1. t.step = "graph" /\ t.run = r
          BY <1>0, <2>1, StepGood
        <5> HIDE DEF t
        <5> QED
          BY <3>4, <4>2, <5>1
      <4> QED
        BY <3>1, <4>1, <4>2
    <3>7. "RUNNING" \in StatusAt("graph")
      BY DEF StatusAt
    <3> QED
      BY <2>1, <3>1, <3>3, <3>5, <3>6, <3>7, Moves
  <2> QED
    BY <2>2, <2>3
<1>11. ASSUME NEW c \in Call, FinishRun(c)
       PROVE  WorkInv'
  <2> DEFINE r == call[c].run
             st == IF thread[r].verdict = "APPROVED" THEN "COMPLETED" ELSE "REJECTED"
             new == [runs[r] EXCEPT !.status = st, !.verdict = thread[r].verdict,
                                    !.calls = call[c].known + call[c].used]
  <2>1. call[c].step = "finish" /\ r \in Run /\ runs[r].status = "RUNNING"
        /\ {"index", "fail"} \subseteq Step
    BY <1>11, <1>c DEF FinishRun, StatusAt, Step
  <2>2. \/ /\ runs' = [runs EXCEPT ![r] = new]
           /\ \/ Go(c, "fail") \/ End(c)
              \/ Go(c, "index") /\ st = "COMPLETED"
        \/ runs' = runs /\ Go(c, "fail")
    BY <1>11 DEF FinishRun
  <2>3. new.status = st /\ st \in Final
    BY <1>0, <2>1 DEF RunRow, Final
  <2> HIDE DEF new, st
  <2>4. /\ \A q \in Run \ {r} : runs'[q].status = runs[q].status
        /\ \/ runs'[r].status = st
           \/ (runs' = runs /\ Go(c, "fail"))
    BY <1>0, <2>1, <2>2, <2>3
  <2>5. /\ StatusAt("fail") = {"RUNNING"} \cup Final
        /\ StatusAt("index") = {"COMPLETED"}
        /\ "ABSENT" \notin Final
    BY DEF StatusAt, Final
  <2> QED
    BY <1>a, <1>b, <2>1, <2>2, <2>3, <2>4, <2>5, Moves
<1>12. ASSUME NEW c \in Call, IndexReport(c)
       PROVE  WorkInv'
  <2>1. call[c].step = "index" /\ call[c].run \in Run /\ runs' = runs
        /\ runs[call[c].run].status = "COMPLETED" /\ "fail" \in Step
        /\ (End(c) \/ Go(c, "fail"))
    BY <1>12, <1>c DEF IndexReport, StatusAt, Step, tables
  <2>2. "COMPLETED" \in StatusAt("fail")
    BY DEF StatusAt, Final
  <2> QED
    BY <1>a, <1>b, <2>1, <2>2, Moves
<1>13. ASSUME NEW c \in Call, FailRun(c)
       PROVE  WorkInv'
  <2> DEFINE r == call[c].run
             new == [runs[r] EXCEPT !.status = "FAILED", !.calls = call[c].known + call[c].used]
  <2>1. call[c].step = "fail" /\ r \in Run /\ End(c)
    BY <1>13, <1>c DEF FailRun
  <2>2. runs' = [runs EXCEPT ![r] = new] \/ runs' = runs
    BY <1>13 DEF FailRun
  <2>3. new.status = "FAILED"
    BY <1>0, <2>1 DEF RunRow
  <2> HIDE DEF new
  <2>4. /\ \A q \in Run \ {r} : runs'[q].status = runs[q].status
        /\ runs'[r].status = "ABSENT" => runs[r].status = "ABSENT"
    BY <1>0, <2>1, <2>2, <2>3
  <2> QED
    BY <1>b, <2>1, <2>4, Moves
<1>14. ASSUME NEW c \in Call, CallStops(c)
       PROVE  WorkInv'
  <2>1. call[c].step # "idle" /\ runs' = runs /\ End(c) /\ call[c].run \in Run
    BY <1>14, <1>c DEF CallStops, tables
  <2> QED
    BY <1>b, <2>1, Moves
<1>15. CASE UNCHANGED vars \/ \E i \in Incident, e \in Id : Collect(i, e)
  <2>1. runs' = runs /\ call' = call
    BY <1>15 DEF vars, tables, Collect
  <2> QED
    BY <2>1 DEF WorkInv, Holder
<1> QED
  BY <1>1, <1>2, <1>3, <1>5, <1>6, <1>7, <1>8, <1>9, <1>10, <1>11, <1>12, <1>13, <1>14, <1>15
  DEF Next, Continue

(* One holder of each run, always.                                          *)
LEMMA WorkHolds == Spec => [](Shape /\ WorkInv)
<1>1. Init => WorkInv
  BY DEF Init, WorkInv, Holder, Idle
<1>2. Shape /\ WorkInv /\ [Next]_vars => (Shape /\ WorkInv)'
  BY ShapeStep, WorkStep
<1> QED
  BY <1>1, <1>2, ShapeInit, PTL DEF Spec

(* At most one call works on a run, whose status says so.                  *)
THEOREM WorkersAlone == Spec => []OneWorker
<1>1. Shape /\ WorkInv => OneWorker
  BY DEF WorkInv, OneWorker, Working, Holder, StatusAt
<1> QED
  BY <1>1, WorkHolds, PTL

(* Nothing changes a run that is completed or rejected, nor its report,    *)
(* nor its steps.                                                          *)
THEOREM FinalRuns == Spec => FinalStays
<1> DEFINE Stays == \A r \in Run : runs[r].status \in Final =>
              runs'[r] = runs[r] /\ reports'[r] = reports[r] /\ stepRows'[r] = stepRows[r]
<1>1. Shape /\ WorkInv /\ [Next]_vars => Stays
  <2> SUFFICES ASSUME Shape, WorkInv, [Next]_vars PROVE Stays
    OBVIOUS
  <2>1. /\ runs \in [Run -> RunRow] /\ stepRows \in [Run -> Nat]
        /\ reports \in [Run -> Report \cup {None}]
        /\ \A c \in Call : call[c].step # "idle" => call[c].run \in Run
    BY DEF Shape, TypeOK
  <2>2. \A c \in Call : call[c].step = "create" => runs[call[c].run].status = "ABSENT"
    BY DEF WorkInv, StatusAt
  <2>3. ASSUME NEW c \in Call, CreateRun(c)
        PROVE  Stays
    BY <2>1, <2>2, <2>3 DEF CreateRun, Final
  <2>4. ASSUME NEW c \in Call, ResumeRun(c)
        PROVE  Stays
    BY <2>1, <2>4 DEF ResumeRun, Final
  <2>5. ASSUME NEW c \in Call, FinishRun(c)
        PROVE  Stays
    BY <2>1, <2>5 DEF FinishRun, Final
  <2>6. ASSUME NEW c \in Call, FailRun(c)
        PROVE  Stays
    BY <2>1, <2>6 DEF FailRun, Final
  <2>7. CASE UNCHANGED <<runs, reports, stepRows>>
    BY <2>7
  <2> QED
    BY <2>3, <2>4, <2>5, <2>6, <2>7
    DEF Next, Continue, vars, tables, Collect, StartRun, StartResume, Prepare, Invoke, Superstep,
        GraphRaises, GraphReturns, IndexReport, CallStops
<1> QED
  BY <1>1, WorkHolds, PTL DEF Spec, FinalStays

-----------------------------------------------------------------------------
(* What a call in progress carries agrees with the tables and checkpoints. *)
CallOk(c) ==
  LET s == call[c]
      r == call[c].run
  IN
  /\ s.step = "create" => s.evidence \subseteq evidence[s.incident]
  /\ s.step # "create" => s.incident = runs[r].incident
  /\ s.step \in {"prepare", "invoke"} => thread[r].next = "none" /\ s.evidence = runs[r].evidence
  /\ s.step = "invoke" => r \in contexts
  /\ s.step = "finish" => thread[r].next = "end"

Story(r) ==
  /\ reports[r] # None <=> runs[r].status = "COMPLETED"
  /\ runs[r].status = "COMPLETED" <=> runs[r].verdict = "APPROVED"
  /\ runs[r].status = "REJECTED" <=> runs[r].verdict = "REJECTED"
  /\ stepRows[r] = IF runs[r].status \in Final THEN 1 ELSE 0

Cited(r) ==
  /\ reports[r] # None =>
       /\ reports[r].incident = runs[r].incident
       /\ reports[r].cites # {} /\ reports[r].cites \subseteq runs[r].evidence
  /\ runs[r].status # "ABSENT" => runs[r].evidence \subseteq evidence[runs[r].incident]

RunOk(r) ==
  /\ thread[r].next # "none" =>
       r \in contexts /\ thread[r].evidence = runs[r].evidence /\ runs[r].status # "ABSENT"
  /\ runs[r].status \in Final => r \in contexts
  /\ r \in memory => runs[r].status = "COMPLETED"
  /\ Story(r)
  /\ Cited(r)

Facts ==
  /\ \A c \in Call : call[c].step # "idle" => CallOk(c)
  /\ \A r \in Run : RunOk(r)

(* A call c that moves on on its run r need only keep its own facts.       *)
LEMMA Frame ==
  ASSUME Shape, WorkInv, Facts, Shape', NEW c \in Call, NEW r \in Run,
         call[c].step # "idle", call[c].run = r, evidence' = evidence,
         \A d \in Call \ {c} :
           /\ call'[d].step = call[d].step /\ call'[d].run = call[d].run
           /\ call'[d].incident = call[d].incident /\ call'[d].evidence = call[d].evidence,
         \A q \in Run \ {r} :
           /\ runs'[q] = runs[q] /\ thread'[q] = thread[q] /\ reports'[q] = reports[q]
           /\ stepRows'[q] = stepRows[q]
           /\ q \in contexts' <=> q \in contexts
           /\ q \in memory' <=> q \in memory,
         runs[r].status # "ABSENT" => runs'[r].incident = runs[r].incident,
         call[c].step = "resume" =>
           thread'[r] = thread[r] /\ runs'[r].evidence = runs[r].evidence /\ contexts' = contexts,
         call'[c].step # "idle" => CallOk(c)',
         RunOk(r)'
  PROVE  Facts'
<1>1. ASSUME NEW d \in Call \ {c}, call[d].run = r, call[d].step # "idle"
      PROVE  runs[r].status # "ABSENT" /\ (call[d].step = "resume" \/ call[c].step = "resume")
  <2>1. CASE call[c].step = "resume"
    BY <2>1 DEF WorkInv, StatusAt, Final
  <2>2. CASE call[c].step # "resume"
    <3>1. call[d].step = "resume"
      BY <1>1, <2>2 DEF WorkInv, Holder
    <3> QED
      BY <1>1, <3>1 DEF WorkInv, StatusAt, Final
  <2> QED
    BY <2>1, <2>2
<1>2. ASSUME NEW d \in Call \ {c}, call'[d].step # "idle"
      PROVE  CallOk(d)'
  <2>0. CallOk(d) /\ call[d].run \in Run
    BY <1>2 DEF Facts, Shape, GoodCall
  <2>1. CASE call[d].run # r
    BY <1>2, <2>0, <2>1 DEF CallOk
  <2>2. CASE call[d].run = r
    <3>1. call[d].step # "create"
      BY <1>1, <1>2, <2>2 DEF WorkInv, StatusAt
    <3>2. runs'[r].incident = runs[r].incident
      BY <1>1, <1>2, <2>2
    <3>3. CASE call[d].step = "resume"
      BY <1>2, <2>0, <2>2, <3>2, <3>3 DEF CallOk
    <3>4. CASE call[d].step # "resume"
      <4>1. call[c].step = "resume"
        BY <1>1, <1>2, <2>2, <3>4
      <4> QED
        BY <1>2, <2>0, <2>2, <3>1, <3>2, <4>1 DEF CallOk
    <3> QED
      BY <3>3, <3>4
  <2> QED
    BY <2>1, <2>2
<1>3. ASSUME NEW q \in Run \ {r}
      PROVE  RunOk(q)'
  <2>1. RunOk(q)
    BY DEF Facts
  <2> QED
    BY <2>1 DEF RunOk, Story, Cited
<1> QED
  BY <1>2, <1>3 DEF Facts

(* Every step keeps what calls and checkpoints say of their runs.           *)
LEMMA FactsStep == Shape /\ Shape' /\ WorkInv /\ Facts /\ [Next]_vars => Facts'
<1> SUFFICES ASSUME Shape, Shape', WorkInv, Facts, [Next]_vars
             PROVE  Facts'
  OBVIOUS
<1>0. /\ \A c \in Call : GoodCall(call[c])
      /\ \A r \in Run : GoodThread(thread[r])
      /\ runs \in [Run -> RunRow] /\ call \in [Call -> CallState]
      /\ thread \in [Run -> Graph!Checkpoint]
      /\ stepRows \in [Run -> Nat] /\ reports \in [Run -> Report \cup {None}]
      /\ evidence \in [Incident -> SUBSET Id]
  BY DEF Shape, TypeOK
<1>a. ASSUME NEW c \in Call, call[c].step # "idle", NEW step \in Step, Go(c, step)
      PROVE  /\ \A d \in Call \ {c} : call'[d] = call[d]
             /\ call'[c].step = step /\ call'[c].run = call[c].run
             /\ call'[c].incident = call[c].incident /\ call'[c].evidence = call[c].evidence
  <2> DEFINE t == [call[c] EXCEPT !.step = step]
  <2>1. t.step = step /\ t.run = call[c].run /\ t.incident = call[c].incident
        /\ t.evidence = call[c].evidence
    BY <1>0 DEF CallState
  <2>2. call' = [call EXCEPT ![c] = t]
    BY <1>a DEF Go
  <2> HIDE DEF t
  <2> QED
    BY <1>0, <2>1, <2>2
<1>b. ASSUME NEW c \in Call, End(c)
      PROVE  call'[c].step = "idle" /\ \A d \in Call \ {c} : call'[d] = call[d]
  BY <1>0, <1>b DEF End, Idle
<1>c. ASSUME NEW c \in Call, call[c].step # "idle"
      PROVE  /\ call[c].run \in Run /\ runs[call[c].run] \in RunRow
             /\ runs[call[c].run].status \in StatusAt(call[c].step)
             /\ CallOk(c) /\ RunOk(call[c].run)
  BY <1>0, <1>c DEF GoodCall, WorkInv, Facts
<1>1. ASSUME NEW i \in Incident, NEW e \in Id, Collect(i, e)
      PROVE  Facts'
  <2>1. /\ \A j \in Incident : evidence[j] \subseteq evidence'[j]
        /\ UNCHANGED <<runs, contexts, stepRows, reports, memory, thread, call>>
    BY <1>0, <1>1 DEF Collect, tables
  <2>2. ASSUME NEW c \in Call, call[c].step # "idle"
        PROVE  CallOk(c)'
    BY <1>0, <1>c, <2>1, <2>2 DEF CallOk, GoodCall
  <2>3. ASSUME NEW r \in Run
        PROVE  RunOk(r)'
    <3>1. RunOk(r) /\ (runs[r].status # "ABSENT" => runs[r].incident \in Incident)
      BY DEF Facts, Shape
    <3> QED
      BY <2>1, <3>1 DEF RunOk, Story, Cited
  <2> QED
    BY <2>1, <2>2, <2>3 DEF Facts
<1>2. ASSUME NEW c \in Call, NEW s, GoodCall(s), s.step # "idle",
             call' = [call EXCEPT ![c] = s], UNCHANGED <<evidence, tables, memory, thread>>,
             \/ s.step = "create" /\ s.evidence = evidence[s.incident]
             \/ s.step = "resume" /\ s.incident = runs[s.run].incident
      PROVE  Facts'
  <2>1. call'[c] = s /\ \A d \in Call \ {c} : call'[d] = call[d]
    BY <1>0, <1>2
  <2>2. ASSUME NEW d \in Call, call'[d].step # "idle"
        PROVE  CallOk(d)'
    BY <1>2, <2>1, <2>2 DEF CallOk, Facts, tables
  <2>3. \A r \in Run : RunOk(r)'
    BY <1>2 DEF RunOk, Story, Cited, Facts, tables
  <2> QED
    BY <2>2, <2>3 DEF Facts
<1>3. ASSUME NEW c \in Call, NEW i \in Incident, NEW r \in Run, StartRun(c, i, r)
      PROVE  Facts'
  <2> DEFINE s == [Idle EXCEPT !.step = "create", !.run = r, !.incident = i,
                               !.evidence = evidence[i]]
  <2>1. s.step = "create" /\ s.incident = i /\ s.evidence = evidence[i] /\ s.run = r
    BY DEF Idle
  <2>2. GoodCall(s)
    BY <1>0, StartGood
  <2>3. call' = [call EXCEPT ![c] = s] /\ UNCHANGED <<evidence, tables, memory, thread>>
    BY <1>3 DEF StartRun
  <2> HIDE DEF s
  <2> QED
    BY <1>2, <2>1, <2>2, <2>3
<1>4. ASSUME NEW c \in Call, NEW r \in Run, StartResume(c, r)
      PROVE  Facts'
  <2> DEFINE s == [Idle EXCEPT !.step = "resume", !.run = r, !.incident = runs[r].incident,
                               !.known = runs[r].calls]
  <2>0. runs[r].incident \in Incident /\ runs[r].calls \in Nat
    BY <1>0, <1>4 DEF StartResume, Shape, RunRow
  <2>1. s.step = "resume" /\ s.incident = runs[r].incident /\ s.run = r
    BY DEF Idle
  <2>2. GoodCall(s)
    BY <2>0, StartGood
  <2>3. call' = [call EXCEPT ![c] = s] /\ UNCHANGED <<evidence, tables, memory, thread>>
    BY <1>4 DEF StartResume
  <2> HIDE DEF s
  <2> QED
    BY <1>2, <2>1, <2>2, <2>3
<1>5. ASSUME NEW c \in Call, CreateRun(c)
      PROVE  Facts'
  <2>r. PICK r \in Run : r = call[c].run
    BY <1>5, <1>c DEF CreateRun
  <2> USE <2>r
  <2> DEFINE new == [NoRun EXCEPT !.status = "RUNNING", !.incident = call[c].incident,
                                  !.evidence = call[c].evidence]
  <2>1. /\ call[c].step = "create" /\ r \in Run /\ runs[r].status = "ABSENT" /\ RunOk(r)
        /\ call[c].evidence \subseteq evidence[call[c].incident]
        /\ UNCHANGED <<evidence, contexts, stepRows, reports, memory, thread>>
    BY <1>5, <1>c DEF CreateRun, StatusAt, CallOk
  <2>2. \/ runs' = [runs EXCEPT ![r] = new] /\ (Go(c, "prepare") \/ End(c))
        \/ runs' = runs /\ End(c)
    BY <1>5 DEF CreateRun
  <2>3. /\ new.status = "RUNNING" /\ new.incident = call[c].incident
        /\ new.evidence = call[c].evidence /\ new.verdict = None
    BY DEF NoRun
  <2> HIDE DEF new
  <2>4. \A q \in Run \ {r} : runs'[q] = runs[q]
    BY <1>0, <2>2
  <2>5. (runs'[r] = new /\ (Go(c, "prepare") \/ End(c))) \/ (runs' = runs /\ End(c))
    BY <1>0, <2>1, <2>2
  <2>6. thread[r].next = "none" /\ reports[r] = None /\ stepRows[r] = 0 /\ r \notin memory
    BY <2>1 DEF RunOk, Story, Final
  <2>7. RunOk(r)'
    <3>1. CASE runs'[r] = new
      BY <2>1, <2>3, <2>6, <3>1, RunsAssumption DEF RunOk, Story, Cited, Final
    <3>2. CASE runs' = runs
      BY <2>1, <3>2 DEF RunOk, Story, Cited, Final
    <3> QED
      BY <2>5, <3>1, <3>2
  <2>8. call'[c].step # "idle" => CallOk(c)'
    BY <1>a, <1>b, <2>1, <2>3, <2>5, <2>6 DEF CallOk, Step
  <2>9. \A d \in Call \ {c} : call'[d] = call[d]
    BY <1>a, <1>b, <2>1, <2>5 DEF Step
  <2> QED
    BY <2>1, <2>4, <2>7, <2>8, <2>9, Frame
<1>6. ASSUME NEW c \in Call, Prepare(c)
      PROVE  Facts'
  <2>r. PICK r \in Run : r = call[c].run
    BY <1>6, <1>c DEF Prepare
  <2> USE <2>r
  <2>1. /\ call[c].step = "prepare" /\ r \in Run /\ RunOk(r) /\ CallOk(c)
        /\ UNCHANGED <<evidence, runs, stepRows, reports, memory, thread>>
        /\ {"invoke", "fail"} \subseteq Step
    BY <1>6, <1>c DEF Prepare, Step
  <2>2. /\ contexts' = contexts \cup {r} \/ contexts' = contexts
        /\ (Go(c, "invoke") /\ contexts' = contexts \cup {r}) \/ Go(c, "fail")
    BY <1>6 DEF Prepare
  <2>3. RunOk(r)'
    BY <2>1, <2>2 DEF RunOk, Story, Cited
  <2>4. \A d \in Call \ {c} : call'[d] = call[d]
    BY <1>a, <2>1, <2>2
  <2>5. CallOk(c)'
    BY <1>a, <2>1, <2>2 DEF CallOk
  <2> QED
    BY <2>1, <2>2, <2>3, <2>4, <2>5, Frame
<1>7. ASSUME NEW c \in Call, Invoke(c)
      PROVE  Facts'
  <2>r. PICK r \in Run : r = call[c].run
    BY <1>7, <1>c DEF Invoke
  <2> USE <2>r
  <2> DEFINE input == Graph!Input(call[c].evidence)
  <2>1. /\ call[c].step = "invoke" /\ r \in Run /\ RunOk(r) /\ CallOk(c) /\ runs[r].status = "RUNNING"
        /\ UNCHANGED <<evidence, runs, contexts, stepRows, reports, memory>>
        /\ "graph" \in Step /\ Go(c, "graph")
    BY <1>7, <1>c DEF Invoke, Step, tables, StatusAt
  <2>2. call[c].evidence = runs[r].evidence /\ r \in contexts /\ call[c].evidence \in SUBSET Id
    BY <1>0, <2>1 DEF CallOk, CallState
  <2>3. input.next = "load_context" /\ input.evidence = runs[r].evidence
    BY <2>2, InputGood
  <2>4. thread' = [thread EXCEPT ![r] = input]
    BY <1>7 DEF Invoke
  <2> HIDE DEF input
  <2>5. thread'[r] = input /\ \A q \in Run \ {r} : thread'[q] = thread[q]
    BY <1>0, <2>1, <2>4
  <2>6. RunOk(r)'
    BY <2>1, <2>2, <2>3, <2>5 DEF RunOk, Story, Cited
  <2>7. CallOk(c)' /\ \A d \in Call \ {c} : call'[d] = call[d]
    BY <1>a, <2>1 DEF CallOk
  <2> QED
    BY <2>1, <2>5, <2>6, <2>7, Frame
<1>8. ASSUME NEW c \in Call, Superstep(c)
      PROVE  Facts'
  <2>r. PICK r \in Run : r = call[c].run
    BY <1>8, <1>c DEF Superstep
  <2> USE <2>r
  <2>1. /\ call[c].step = "graph" /\ r \in Run /\ RunOk(r) /\ CallOk(c) /\ runs[r].status = "RUNNING"
        /\ UNCHANGED <<evidence, runs, contexts, stepRows, reports, memory>>
    BY <1>8, <1>c DEF Superstep, tables, StatusAt
  <2>2. PICK u \in Graph!After(thread[r]) : thread' = [thread EXCEPT ![r] = u]
    BY <1>8 DEF Superstep
  <2>3. u.next # "none" /\ u.evidence = thread[r].evidence /\ thread[r].next # "none"
    BY <1>0, <2>1, <2>2, AfterGood
  <2>4. thread'[r] = u /\ \A q \in Run \ {r} : thread'[q] = thread[q]
    BY <1>0, <2>1, <2>2
  <2>5. RunOk(r)'
    BY <2>1, <2>3, <2>4 DEF RunOk, Story, Cited
  <2>6. PICK n \in Nat : call' = [call EXCEPT ![c] = [call[c] EXCEPT !.used = call[c].used + n]]
    <3>1. (IF AsksModel(thread[call[c].run].next) THEN 1 ELSE 0) \in Nat
      OBVIOUS
    <3> QED
      BY <1>8, <3>1 DEF Superstep, Spend
  <2>7. /\ \A d \in Call \ {c} : call'[d] = call[d]
        /\ call'[c].step = call[c].step /\ call'[c].run = call[c].run
        /\ call'[c].incident = call[c].incident /\ call'[c].evidence = call[c].evidence
    BY <1>0, <2>6, UsedGood
  <2>8. CallOk(c)'
    BY <2>1, <2>7 DEF CallOk
  <2> QED
    BY <2>1, <2>4, <2>5, <2>7, <2>8, Frame
<1>9. ASSUME NEW c \in Call, call[c].step \in Step \ {"create", "resume"},
             UNCHANGED <<evidence, tables, memory, thread>>,
             \A d \in Call \ {c} : call'[d] = call[d],
             \/ call'[c].step = "idle"
             \/ /\ call'[c].run = call[c].run /\ call'[c].incident = call[c].incident
                /\ \/ call'[c].step = "fail"
                   \/ call'[c].step = "finish" /\ thread[call[c].run].next = "end"
      PROVE  Facts'
  <2>r. PICK r \in Run : r = call[c].run
    BY <1>9, <1>c DEF Step
  <2> USE <2>r
  <2>1. RunOk(r) /\ CallOk(c) /\ call[c].step # "idle"
    BY <1>9, <1>c DEF Step
  <2>2. RunOk(r)'
    BY <1>9, <2>1 DEF RunOk, Story, Cited, tables
  <2>3. call'[c].step # "idle" => CallOk(c)'
    BY <1>9, <2>1 DEF CallOk, tables
  <2> QED
    BY <1>9, <2>1, <2>2, <2>3, Frame DEF tables
<1>10. ASSUME NEW c \in Call, GraphRaises(c)
       PROVE  Facts'
  <2>1. call[c].step \in {"invoke", "graph"} /\ UNCHANGED <<evidence, tables, memory, thread>>
        /\ "fail" \in Step /\ call[c].step \in Step \ {"create", "resume"}
    BY <1>10 DEF GraphRaises, Step
  <2>2. CASE Go(c, "fail")
    BY <2>1, <2>2, <1>9, <1>a
  <2>3. CASE ~Go(c, "fail")
    <3> DEFINE N == IF AsksModel(thread[call[c].run].next) THEN {0, 1} ELSE {0}
    <3>1. PICK n \in N : call' = [call EXCEPT ![c] =
                            [call[c] EXCEPT !.step = "fail", !.used = call[c].used + n]]
      BY <1>10, <2>3 DEF GraphRaises
    <3> HIDE DEF N
    <3> DEFINE u == [call[c] EXCEPT !.step = "fail", !.used = call[c].used + n]
    <3>2. u.step = "fail" /\ u.run = call[c].run /\ u.incident = call[c].incident
      BY <1>0 DEF CallState
    <3>3. call' = [call EXCEPT ![c] = u]
      BY <3>1
    <3> HIDE DEF u
    <3>4. /\ \A d \in Call \ {c} : call'[d] = call[d]
          /\ call'[c].step = "fail" /\ call'[c].run = call[c].run
          /\ call'[c].incident = call[c].incident
      BY <1>0, <3>2, <3>3
    <3> QED
      BY <2>1, <3>4, <1>9
  <2> QED
    BY <2>2, <2>3
<1>11. ASSUME NEW c \in Call, GraphReturns(c)
       PROVE  Facts'
  <2>1. /\ call[c].step \in Step \ {"create", "resume"}
        /\ UNCHANGED <<evidence, tables, memory, thread>>
        /\ call[c].step # "idle" /\ thread[call[c].run].next = "end"
        /\ Go(c, "finish") /\ "finish" \in Step
    BY <1>11 DEF GraphReturns, Step
  <2> QED
    BY <2>1, <1>9, <1>a
<1>12. ASSUME NEW c \in Call, CallStops(c) \/ (IndexReport(c) /\ memory' = memory)
       PROVE  Facts'
  <2>1. call[c].step # "idle" /\ UNCHANGED <<evidence, tables, memory, thread>>
        /\ (End(c) \/ (Go(c, "fail") /\ call[c].step = "index")) /\ "fail" \in Step
    BY <1>12 DEF CallStops, IndexReport, Step
  <2>2. CASE call[c].step \notin {"create", "resume"}
    <3>1. call[c].step \in Step
      BY <1>0, <2>1 DEF CallState, Step
    <3>2. /\ \A d \in Call \ {c} : call'[d] = call[d]
          /\ \/ call'[c].step = "idle"
             \/ /\ call'[c].step = "fail" /\ call'[c].run = call[c].run
                /\ call'[c].incident = call[c].incident
      BY <2>1, <1>a, <1>b
    <3> QED
      BY <2>1, <2>2, <3>1, <3>2, <1>9
  <2>3. CASE call[c].step \in {"create", "resume"}
    <3>r. PICK r \in Run : r = call[c].run
      BY <1>c, <2>3
    <3> USE <3>r
    <3>1. End(c) /\ RunOk(r)
      BY <1>c, <2>1, <2>3
    <3>2. RunOk(r)'
      BY <2>1, <3>1 DEF RunOk, Story, Cited, tables
    <3> QED
      BY <2>1, <3>1, <3>2, <1>b, Frame DEF tables
  <2> QED
    BY <2>2, <2>3
<1>13. ASSUME NEW c \in Call, IndexReport(c)
       PROVE  Facts'
  <2>1. CASE memory' = memory
    BY <1>12, <1>13, <2>1
  <2>2. CASE memory' # memory
    <3>r. PICK r \in Run : r = call[c].run
      BY <1>13, <1>c DEF IndexReport
    <3> USE <3>r
    <3>1. /\ call[c].step = "index" /\ End(c) /\ memory' = memory \cup {r}
          /\ UNCHANGED <<evidence, runs, contexts, stepRows, reports, thread>>
      BY <1>13, <2>2 DEF IndexReport, tables
    <3>2. r \in Run /\ RunOk(r) /\ runs[r].status = "COMPLETED"
      BY <1>c, <3>1 DEF StatusAt
    <3>3. RunOk(r)'
      BY <3>1, <3>2 DEF RunOk, Story, Cited
    <3> QED
      BY <3>1, <3>2, <3>3, <1>b, Frame
  <2> QED
    BY <2>1, <2>2
<1>14. ASSUME NEW c \in Call, ResumeRun(c)
       PROVE  Facts'
  <2>r. PICK r \in Run : r = call[c].run
    BY <1>14, <1>c DEF ResumeRun
  <2> USE <2>r
  <2> DEFINE new == [runs[r] EXCEPT !.status = "RUNNING"]
  <2>1. /\ call[c].step = "resume" /\ r \in Run /\ "graph" \in Step /\ RunOk(r) /\ CallOk(c)
        /\ UNCHANGED <<evidence, contexts, stepRows, reports, memory, thread>>
    BY <1>14, <1>c DEF ResumeRun, Step
  <2>2. CASE runs' = runs /\ End(c)
    <3>1. RunOk(r)'
      BY <2>1, <2>2 DEF RunOk, Story, Cited
    <3> QED
      BY <1>b, <2>1, <2>2, <3>1, Frame
  <2>3. CASE ~(runs' = runs /\ End(c))
    <3>1. /\ runs[r].status = "FAILED"
          /\ runs' = [runs EXCEPT ![r] = new]
          /\ \/ call' = [Overtaken(c) EXCEPT ![c] = [call[c] EXCEPT !.step = "graph"]]
             \/ call' = [Overtaken(c) EXCEPT ![c] = Idle]
      BY <1>14, <2>3 DEF ResumeRun
    <3>2. /\ new.status = "RUNNING" /\ new.incident = runs[r].incident
          /\ new.evidence = runs[r].evidence /\ new.verdict = runs[r].verdict
      BY <1>0, <2>1 DEF RunRow
    <3> HIDE DEF new
    <3>3. runs'[r] = new /\ \A q \in Run \ {r} : runs'[q] = runs[q]
      BY <1>0, <2>1, <3>1
    <3>4. Overtaken(c) \in [Call -> CallState]
          /\ \A d \in Call :
               /\ Overtaken(c)[d].step = call[d].step /\ Overtaken(c)[d].run = call[d].run
               /\ Overtaken(c)[d].incident = call[d].incident
               /\ Overtaken(c)[d].evidence = call[d].evidence
      BY <1>0, OvertakenGood
    <3>5. \A d \in Call \ {c} :
            /\ call'[d].step = call[d].step /\ call'[d].run = call[d].run
            /\ call'[d].incident = call[d].incident /\ call'[d].evidence = call[d].evidence
      BY <3>1, <3>4
    <3>6. \/ call'[c].step = "idle"
          \/ call'[c].step = "graph" /\ call'[c].run = r /\ call'[c].incident = call[c].incident
      <4>1. CASE call' = [Overtaken(c) EXCEPT ![c] = Idle]
        BY <3>4, <4>1 DEF Idle
      <4> DEFINE t == [call[c] EXCEPT !.step = "graph"]
      <4>2. CASE call' = [Overtaken(c) EXCEPT ![c] = t]
        <5>1. t.step = "graph" /\ t.run = r /\ t.incident = call[c].incident
          BY <1>0 DEF CallState
        <5> HIDE DEF t
        <5> QED
          BY <3>4, <4>2, <5>1
      <4> QED
        BY <3>1, <4>1, <4>2
    <3>7. RunOk(r)'
      BY <2>1, <3>1, <3>2, <3>3 DEF RunOk, Story, Cited, Final
    <3>8. call'[c].step # "idle" => CallOk(c)'
      BY <2>1, <3>2, <3>3, <3>6 DEF CallOk
    <3> QED
      BY <2>1, <3>2, <3>3, <3>5, <3>7, <3>8, Frame
  <2> QED
    BY <2>2, <2>3
<1>15. ASSUME NEW c \in Call, FailRun(c)
       PROVE  Facts'
  <2>r. PICK r \in Run : r = call[c].run
    BY <1>15, <1>c DEF FailRun
  <2> USE <2>r
  <2> DEFINE new == [runs[r] EXCEPT !.status = "FAILED", !.calls = call[c].known + call[c].used]
  <2>1. /\ call[c].step = "fail" /\ r \in Run /\ RunOk(r) /\ End(c)
        /\ UNCHANGED <<evidence, contexts, stepRows, reports, memory, thread>>
    BY <1>15, <1>c DEF FailRun
  <2>2. (runs[r].status = "RUNNING" /\ runs' = [runs EXCEPT ![r] = new]) \/ runs' = runs
    BY <1>15 DEF FailRun
  <2>3. /\ new.status = "FAILED" /\ new.incident = runs[r].incident
        /\ new.evidence = runs[r].evidence /\ new.verdict = runs[r].verdict
    BY <1>0, <2>1 DEF RunRow
  <2> HIDE DEF new
  <2>4. /\ \A q \in Run \ {r} : runs'[q] = runs[q]
        /\ (runs[r].status = "RUNNING" /\ runs'[r] = new) \/ runs' = runs
    BY <1>0, <2>1, <2>2
  <2>5. RunOk(r)'
    BY <2>1, <2>3, <2>4 DEF RunOk, Story, Cited, Final
  <2>6. runs'[r].incident = runs[r].incident
    BY <2>3, <2>4
  <2> QED
    BY <1>b, <2>1, <2>4, <2>5, <2>6, Frame
<1>16. ASSUME NEW c \in Call, FinishRun(c)
       PROVE  Facts'
  <2>r. PICK r \in Run : r = call[c].run
    BY <1>16, <1>c DEF FinishRun
  <2> USE <2>r
  <2> DEFINE st == IF thread[r].verdict = "APPROVED" THEN "COMPLETED" ELSE "REJECTED"
             new == [runs[r] EXCEPT !.status = st, !.verdict = thread[r].verdict,
                                    !.calls = call[c].known + call[c].used]
             report == [incident |-> call[c].incident, cites |-> thread[r].draft]
  <2>1. /\ call[c].step = "finish" /\ r \in Run /\ runs[r].status = "RUNNING"
        /\ RunOk(r) /\ CallOk(c) /\ {"index", "fail"} \subseteq Step
        /\ UNCHANGED <<evidence, contexts, memory, thread>>
    BY <1>16, <1>c DEF FinishRun, StatusAt, Step
  <2>2. /\ thread[r].next = "end" /\ call[c].incident = runs[r].incident
        /\ r \in contexts /\ thread[r].evidence = runs[r].evidence
    BY <2>1 DEF CallOk, RunOk
  <2>3. /\ thread[r].verdict \in {"APPROVED", "REJECTED"}
        /\ thread[r].verdict = "APPROVED" =>
             thread[r].draft # {} /\ thread[r].draft \subseteq runs[r].evidence
    BY <1>0, <2>1, <2>2 DEF GoodThread, Graph!Checkpoint
  <2>4. reports[r] = None /\ stepRows[r] = 0 /\ r \notin memory
    BY <2>1 DEF RunOk, Story, Final
  <2>5. /\ new.status = st /\ new.incident = runs[r].incident
        /\ new.evidence = runs[r].evidence /\ new.verdict = thread[r].verdict
    BY <1>0, <2>1 DEF RunRow
  <2>6. /\ st \in Final
        /\ st = "COMPLETED" <=> thread[r].verdict = "APPROVED"
        /\ st = "REJECTED" <=> thread[r].verdict = "REJECTED"
    BY <2>3 DEF Final
  <2>7. report.incident = call[c].incident /\ report.cites = thread[r].draft /\ report # None
    <3>1. report \in Report
      BY <1>0, <2>1 DEF Report, Graph!Checkpoint, GoodCall
    <3> QED
      BY <3>1, ReportAssumption DEF Report
  <2>8. \/ /\ stepRows' = [stepRows EXCEPT ![r] = @ + 1]
           /\ runs' = [runs EXCEPT ![r] = new]
           /\ reports' = IF thread[r].verdict = "APPROVED"
                         THEN [reports EXCEPT ![r] = report] ELSE reports
           /\ (Go(c, "index") /\ st = "COMPLETED") \/ End(c) \/ Go(c, "fail")
        \/ UNCHANGED <<runs, stepRows, reports>> /\ Go(c, "fail")
    BY <1>16 DEF FinishRun
  <2> HIDE DEF new, st, report
  <2>9. CASE UNCHANGED <<runs, stepRows, reports>> /\ Go(c, "fail")
    BY <1>9, <1>a, <2>1, <2>9 DEF Step, tables
  <2>10. CASE ~(UNCHANGED <<runs, stepRows, reports>> /\ Go(c, "fail"))
    <3>1. /\ \A q \in Run \ {r} : runs'[q] = runs[q] /\ stepRows'[q] = stepRows[q]
                                  /\ reports'[q] = reports[q]
          /\ runs'[r] = new /\ stepRows'[r] = 1
          /\ reports'[r] = IF thread[r].verdict = "APPROVED" THEN report ELSE None
      BY <1>0, <2>1, <2>4, <2>8, <2>10
    <3>2. Story(r)' /\ Cited(r)'
      BY <2>1, <2>2, <2>3, <2>4, <2>5, <2>6, <2>7, <3>1 DEF Story, Cited, RunOk, Final
    <3>3. RunOk(r)'
      BY <2>1, <2>2, <2>4, <2>5, <2>6, <3>1, <3>2 DEF RunOk, Final
    <3>4. /\ \A d \in Call \ {c} : call'[d] = call[d]
          /\ call'[c].step # "idle" =>
               /\ call'[c].step \in {"index", "fail"} /\ call'[c].run = r
               /\ call'[c].incident = call[c].incident
      BY <1>a, <1>b, <2>1, <2>8, <2>10
    <3>5. call'[c].step # "idle" => CallOk(c)'
      BY <2>1, <2>2, <2>5, <3>1, <3>4 DEF CallOk
    <3> QED
      BY <2>1, <2>5, <3>1, <3>3, <3>4, <3>5, Frame
  <2> QED
    BY <2>9, <2>10
<1>17. CASE UNCHANGED vars
  BY <1>17 DEF vars, tables, Facts, CallOk, RunOk, Story, Cited
<1> QED
  BY <1>1, <1>3, <1>4, <1>5, <1>6, <1>7, <1>8, <1>10, <1>11, <1>12, <1>13, <1>14, <1>15, <1>16,
     <1>17 DEF Next, Continue

(* What they say of their runs, always.                                     *)
LEMMA FactsHold == Spec => [](Shape /\ Facts)
<1>1. Init => Facts
  BY InputGood, RunsAssumption
  DEF Init, Facts, CallOk, RunOk, Story, Cited, Idle, NoRun, Final
<1>2. Shape /\ WorkInv /\ Facts /\ [Next]_vars => Facts'
  BY ShapeStep, FactsStep
<1> QED
  BY <1>1, <1>2, WorkHolds, PTL DEF Spec

(* A run, its verdict, its steps, its context and its report agree, and    *)
(* the memory holds reports of completed runs only.                        *)
THEOREM StoriesAgree == Spec => []OneStory
<1>1. Shape /\ Facts => OneStory
  BY DEF Shape, TypeOK, Facts, RunOk, Story, OneStory
<1> QED
  BY <1>1, FactsHold, PTL

(* A report cites evidence, only what its run started with, and that is    *)
(* evidence of the incident.                                               *)
THEOREM ReportsGrounded == Spec => []ReportGrounded
<1>1. Facts => ReportGrounded
  BY DEF Facts, RunOk, Story, Cited, ReportGrounded
<1> QED
  BY <1>1, FactsHold, PTL

-----------------------------------------------------------------------------
(* The counters.  A run's counter is what its calls have settled so far;   *)
(* the call that holds a run carries the rest, known from the row it       *)
(* resumed and used by itself.  A resume that nobody has overtaken knows   *)
(* the counter as it still is.                                             *)
CountOk(r) ==
  /\ runs[r].calls <= spent[r]
  /\ runs[r].status = "ABSENT" => spent[r] = 0
  /\ runs[r].status \in Final \cup {"FAILED"} /\ r \notin raced => runs[r].calls = spent[r]

Carries(s) ==
  /\ s.known + s.used <= spent[s.run]
  /\ s.step # "resume" /\ s.run \notin raced => s.known + s.used = spent[s.run]
  /\ s.step = "resume" => s.used = 0
  /\ s.step = "resume" /\ s.alone => /\ runs[s.run].status = "FAILED"
                                     /\ s.known = runs[s.run].calls

Accounts ==
  /\ \A r \in Run : CountOk(r)
  /\ \A c \in Call : call[c].step # "idle" => Carries(call[c])

(* The fields that count, as a call moves on.                              *)
LEMMA CountsGo ==
  ASSUME NEW s \in CallState, NEW step \in Step, NEW t, t = [s EXCEPT !.step = step]
  PROVE  /\ t.step = step /\ t.run = s.run
         /\ t.known = s.known /\ t.used = s.used /\ t.alone = s.alone
BY DEF CallState

(* An overtaken call counts as before.                                      *)
LEMMA CountsOvertaken ==
  ASSUME NEW s \in CallState, NEW t, t = [s EXCEPT !.alone = FALSE]
  PROVE  /\ t.step = s.step /\ t.run = s.run
         /\ t.known = s.known /\ t.used = s.used /\ ~t.alone
BY DEF CallState

(* A call c that moves on on its run r keeps the accounts, if it keeps     *)
(* those of r and its own, and leaves nobody who resumes r in the belief   *)
(* that its counter is what it was.                                        *)
LEMMA CountsMove ==
  ASSUME Shape, Shape', WorkInv, Accounts, NEW c \in Call, NEW r \in Run,
         call[c].step # "idle", call[c].run = r,
         \A d \in Call \ {c} :
           /\ call'[d].step = call[d].step /\ call'[d].run = call[d].run
           /\ call'[d].known = call[d].known /\ call'[d].used = call[d].used
           /\ call'[d].alone => call[d].alone,
         \A q \in Run \ {r} : runs'[q] = runs[q] /\ spent'[q] = spent[q] /\ (q \in raced' <=> q \in raced),
         raced \subseteq raced', spent[r] <= spent'[r],
         spent'[r] = spent[r] \/ Holder(c),
         CountOk(r)',
         call'[c].step = "idle" \/ Carries(call[c])',
         \/ runs'[r] = runs[r]
         \/ runs[r].status # "FAILED"
         \/ \A d \in Call \ {c} :
              call[d].step = "resume" /\ call[d].run = r => ~call'[d].alone
  PROVE  Accounts'
<1>0. /\ spent \in [Run -> Nat] /\ spent' \in [Run -> Nat]
      /\ \A d \in Call : call[d] \in CallState /\ GoodCall(call[d])
      /\ \A d \in Call : call[d].known \in Nat /\ call[d].used \in Nat
  BY DEF Shape, TypeOK, CallState
<1>1. ASSUME NEW q \in Run PROVE CountOk(q)'
  <2>1. CASE q = r
    BY <2>1
  <2>2. CASE q # r
    BY <2>2 DEF Accounts, CountOk
  <2> QED
    BY <2>1, <2>2
<1>2. ASSUME NEW d \in Call, call'[d].step # "idle" PROVE Carries(call[d])'
  <2>1. CASE d = c
    BY <1>2, <2>1
  <2>2. CASE d # c /\ call[d].run # r
    <3>1. call[d].step # "idle" /\ call[d].run \in Run /\ Carries(call[d])
      BY <1>0, <1>2, <2>2 DEF GoodCall, Accounts
    <3> QED
      BY <2>2, <3>1 DEF Carries
  <2>3. CASE d # c /\ call[d].run = r
    <3>1. call[d].step # "idle" /\ Carries(call[d])
      BY <1>2, <2>3 DEF Accounts
    <3>2. CASE call[d].step = "resume"
      <4>1. call'[d].known + call'[d].used <= spent'[r]
        <5>1. call[d].known + call[d].used <= spent[r]
          BY <2>3, <3>1 DEF Carries
        <5>2. call'[d].known = call[d].known /\ call'[d].used = call[d].used
          BY <2>3
        <5> QED
          BY <1>0, <5>1, <5>2
      <4>2. call'[d].alone => runs'[r].status = "FAILED" /\ call'[d].known = runs'[r].calls
        BY <2>3, <3>1, <3>2 DEF Carries
      <4> QED
        BY <2>3, <3>1, <3>2, <4>1, <4>2 DEF Carries
    <3>3. CASE call[d].step # "resume"
      <4>1. call[c].step = "resume"
        BY <2>3, <3>1, <3>3 DEF WorkInv, Holder
      <4>2. spent'[r] = spent[r]
        BY <4>1 DEF Holder
      <4> QED
        BY <2>3, <3>1, <3>3, <4>2 DEF Carries
    <3> QED
      BY <3>2, <3>3
  <2> QED
    BY <2>1, <2>2, <2>3
<1> QED
  BY <1>1, <1>2 DEF Accounts

(* Every step keeps the accounts.                                           *)
LEMMA CountsStep == Shape /\ Shape' /\ WorkInv /\ Accounts /\ [Next]_vars => Accounts'
<1> SUFFICES ASSUME Shape, Shape', WorkInv, Accounts, [Next]_vars
             PROVE  Accounts'
  OBVIOUS
<1>0. /\ \A c \in Call : GoodCall(call[c]) /\ call[c] \in CallState
      /\ runs \in [Run -> RunRow] /\ call \in [Call -> CallState]
      /\ spent \in [Run -> Nat] /\ raced \subseteq Run
  BY DEF Shape, TypeOK
<1>c. ASSUME NEW c \in Call, call[c].step # "idle"
      PROVE  /\ call[c].run \in Run /\ runs[call[c].run] \in RunRow
             /\ call[c].known \in Nat /\ call[c].used \in Nat /\ spent[call[c].run] \in Nat
             /\ runs[call[c].run].status \in StatusAt(call[c].step)
             /\ Carries(call[c]) /\ CountOk(call[c].run)
  BY <1>0, <1>c DEF GoodCall, CallState, WorkInv, Accounts
(* A call that ends, or goes on without a word about the counters.         *)
<1>a. ASSUME NEW c \in Call, call[c].step # "idle", UNCHANGED <<runs, spent, raced>>,
             End(c) \/ (call[c].step # "resume" /\ \E step \in Step \ {"resume"} : Go(c, step))
      PROVE  Accounts'
  <2>r. PICK r \in Run : r = call[c].run
    BY <1>a, <1>c
  <2>1. call' = [call EXCEPT ![c] = call'[c]] /\ \A d \in Call \ {c} : call'[d] = call[d]
    BY <1>0, <1>a DEF End, Go
  <2>2. call'[c].step = "idle" \/ Carries(call[c])'
    <3>1. CASE End(c)
      BY <1>0, <3>1 DEF End, Idle
    <3>2. ASSUME NEW step \in Step \ {"resume"}, Go(c, step), call[c].step # "resume"
          PROVE  Carries(call[c])'
      <4>1. call'[c] = [call[c] EXCEPT !.step = step]
        BY <1>0, <3>2 DEF Go
      <4>2. /\ call'[c].step = step /\ call'[c].run = call[c].run
            /\ call'[c].known = call[c].known /\ call'[c].used = call[c].used
        BY <1>0, <4>1, CountsGo
      <4> QED
        BY <1>a, <1>c, <3>2, <4>2 DEF Carries
    <3> QED
      BY <1>a, <3>1, <3>2
  <2>3. CountOk(r)'
    BY <1>a, <1>c, <2>r DEF CountOk
  <2> QED
    BY <1>a, <1>c, <2>r, <2>1, <2>2, <2>3, CountsMove
(* A call that makes n calls of its model.                                 *)
<1>b. ASSUME NEW c \in Call, call[c].step \in {"invoke", "graph"}, NEW n \in Nat, NEW s,
             s = [call[c] EXCEPT !.used = call[c].used + n]
               \/ s = [call[c] EXCEPT !.step = "fail", !.used = call[c].used + n],
             call' = [call EXCEPT ![c] = s],
             spent' = [spent EXCEPT ![call[c].run] = spent[call[c].run] + n],
             UNCHANGED <<runs, raced>>
      PROVE  Accounts'
  <2>r. PICK r \in Run : r = call[c].run
    BY <1>b, <1>c
  <2>1. /\ call[c].step \notin {"idle", "resume"} /\ runs[r].status = "RUNNING" /\ r \in Run
        /\ call[c].known \in Nat /\ call[c].used \in Nat /\ spent[r] \in Nat
        /\ Carries(call[c]) /\ CountOk(r)
    BY <2>r, <1>b, <1>c DEF StatusAt
  <2>2. /\ s.step \notin {"idle", "resume"} /\ s.run = r
        /\ s.known = call[c].known /\ s.used = call[c].used + n
    <3>1. call[c] \in CallState
      BY <1>0
    <3>2. /\ s.step \in {call[c].step, "fail"} /\ s.run = call[c].run
          /\ s.known = call[c].known /\ s.used = call[c].used + n
      BY <1>b, <3>1 DEF CallState
    <3> QED
      BY <2>1, <2>r, <3>2
  <2>3. /\ call'[c] = s /\ \A d \in Call \ {c} : call'[d] = call[d]
        /\ spent'[r] = spent[r] + n /\ \A q \in Run \ {r} : spent'[q] = spent[q]
    BY <2>r, <1>0, <1>b, <2>1
  <2>4. runs[r].calls \in Nat
    BY <2>r, <1>0, <2>1 DEF RunRow
  <2>5. CountOk(r)'
    BY <2>r, <1>b, <2>1, <2>3, <2>4 DEF CountOk, Final
  <2>6. Carries(call[c])'
    BY <2>r, <1>b, <2>1, <2>2, <2>3 DEF Carries
  <2> QED
    BY <2>r, <1>b, <2>1, <2>3, <2>5, <2>6, CountsMove DEF Holder
<1>1. ASSUME NEW c \in Call, NEW i \in Incident, NEW r \in Run, StartRun(c, i, r)
      PROVE  Accounts'
  <2>1. /\ call'[c].step = "create" /\ call'[c].run = r /\ call'[c].known = 0 /\ call'[c].used = 0
        /\ \A d \in Call \ {c} : call'[d] = call[d]
    BY <1>0, <1>1 DEF StartRun, Idle
  <2>2. runs' = runs /\ spent' = spent /\ raced' = raced /\ runs[r].status = "ABSENT"
    BY <1>1 DEF StartRun, tables, history
  <2>3. spent[r] = 0
    BY <2>2 DEF Accounts, CountOk
  <2>4. Carries(call[c])'
    BY <2>1, <2>2, <2>3 DEF Carries
  <2> QED
    BY <1>0, <2>1, <2>2, <2>4 DEF Accounts, CountOk, Carries
<1>2. ASSUME NEW c \in Call, NEW r \in Run, StartResume(c, r)
      PROVE  Accounts'
  <2>1. /\ call'[c].step = "resume" /\ call'[c].run = r
        /\ call'[c].known = runs[r].calls /\ call'[c].used = 0
        /\ \A d \in Call \ {c} : call'[d] = call[d]
    BY <1>0, <1>2 DEF StartResume, Idle
  <2>2. runs' = runs /\ spent' = spent /\ raced' = raced /\ runs[r].status = "FAILED"
        /\ runs[r].calls \in Nat
    BY <1>0, <1>2 DEF StartResume, tables, history, RunRow
  <2>3. runs[r].calls <= spent[r]
    BY DEF Accounts, CountOk
  <2>4. Carries(call[c])'
    BY <2>1, <2>2, <2>3 DEF Carries
  <2> QED
    BY <1>0, <2>1, <2>2, <2>4 DEF Accounts, CountOk, Carries
<1>3. ASSUME NEW c \in Call, CreateRun(c)
      PROVE  Accounts'
  <2>r. PICK r : r = call[c].run
    OBVIOUS
  <2> DEFINE new == [NoRun EXCEPT !.status = "RUNNING", !.incident = call[c].incident,
                                  !.evidence = call[c].evidence]
  <2>1. /\ call[c].step = "create" /\ r \in Run /\ Carries(call[c])
        /\ runs[r].status = "ABSENT" /\ spent[r] \in Nat
        /\ UNCHANGED <<spent, raced>>
    BY <2>r, <1>3, <1>c DEF CreateRun, StatusAt, history
  <2>2. CASE runs' = runs /\ End(c)
    BY <2>r, <1>a, <2>1, <2>2
  <2>3. CASE ~(runs' = runs /\ End(c))
    <3>1. runs' = [runs EXCEPT ![r] = new] /\ (Go(c, "prepare") \/ End(c))
      BY <2>r, <1>3, <2>3 DEF CreateRun
    <3>2. new.status = "RUNNING" /\ new.calls = 0
      BY DEF NoRun
    <3> HIDE DEF new
    <3>3. runs'[r] = new /\ \A q \in Run \ {r} : runs'[q] = runs[q]
      BY <2>r, <1>0, <2>1, <3>1
    <3>4. CountOk(r)'
      BY <2>r, <2>1, <3>2, <3>3 DEF CountOk, Final
    <3>5. /\ \A d \in Call \ {c} : call'[d] = call[d]
          /\ call'[c].step = "idle" \/ call'[c] = [call[c] EXCEPT !.step = "prepare"]
      BY <2>r, <1>0, <3>1 DEF Go, End, Idle
    <3>6. call'[c].step = "idle" \/ Carries(call[c])'
      <4>1. CASE call'[c] = [call[c] EXCEPT !.step = "prepare"]
        <5>1. /\ call'[c].step = "prepare" /\ call'[c].run = r
              /\ call'[c].known = call[c].known /\ call'[c].used = call[c].used
          BY <2>r, <1>0, <4>1, CountsGo DEF Step
        <5> QED
          BY <2>r, <2>1, <5>1 DEF Carries
      <4> QED
        BY <2>r, <3>5, <4>1
    <3> QED
      BY <2>r, <2>1, <3>3, <3>4, <3>5, <3>6, CountsMove
  <2> QED
    BY <2>r, <2>2, <2>3
<1>4. ASSUME NEW c \in Call, Prepare(c)
      PROVE  Accounts'
  BY <1>4, <1>a DEF Prepare, history, Step
<1>5. ASSUME NEW c \in Call, Invoke(c)
      PROVE  Accounts'
  BY <1>5, <1>a DEF Invoke, tables, history, Step
<1>6. ASSUME NEW c \in Call, Superstep(c)
      PROVE  Accounts'
  <2>1. (IF AsksModel(thread[call[c].run].next) THEN 1 ELSE 0) \in Nat
    OBVIOUS
  <2> QED
    BY <1>6, <1>b, <2>1 DEF Superstep, Spend, tables
<1>7. ASSUME NEW c \in Call, GraphRaises(c)
      PROVE  Accounts'
  <2>1. /\ call[c].step \in {"invoke", "graph"} /\ UNCHANGED <<runs, raced>>
    BY <1>7 DEF GraphRaises, tables
  <2>2. CASE Go(c, "fail") /\ UNCHANGED spent
    BY <1>a, <2>1, <2>2 DEF Step
  <2>3. CASE ~(Go(c, "fail") /\ UNCHANGED spent)
    <3> DEFINE N == IF AsksModel(thread[call[c].run].next) THEN {0, 1} ELSE {0}
    <3>1. PICK n \in N :
            /\ call' = [call EXCEPT ![c] =
                          [call[c] EXCEPT !.step = "fail", !.used = call[c].used + n]]
            /\ spent' = [spent EXCEPT ![call[c].run] = @ + n]
      BY <1>7, <2>3 DEF GraphRaises
    <3>2. n \in Nat
      OBVIOUS
    <3> QED
      BY <1>b, <2>1, <3>1, <3>2
  <2> QED
    BY <2>2, <2>3
<1>8. ASSUME NEW c \in Call, GraphReturns(c)
      PROVE  Accounts'
  BY <1>8, <1>a DEF GraphReturns, tables, history, Step
<1>9. ASSUME NEW c \in Call, ResumeRun(c)
      PROVE  Accounts'
  <2>r. PICK r : r = call[c].run
    OBVIOUS
  <2> DEFINE new == [runs[r] EXCEPT !.status = "RUNNING"]
  <2>1. /\ call[c].step = "resume" /\ r \in Run /\ spent' = spent
        /\ Carries(call[c]) /\ CountOk(r) /\ runs[r].calls \in Nat /\ spent[r] \in Nat
        /\ call[c].known \in Nat /\ call[c].used \in Nat
    BY <2>r, <1>9, <1>c DEF ResumeRun, RunRow
  <2>2. CASE UNCHANGED <<runs, raced>> /\ End(c)
    BY <2>r, <1>a, <2>1, <2>2
  <2>3. CASE ~(UNCHANGED <<runs, raced>> /\ End(c))
    <3>1. /\ runs[r].status = "FAILED"
          /\ runs' = [runs EXCEPT ![r] = new]
          /\ \/ /\ call' = [Overtaken(c) EXCEPT ![c] = [call[c] EXCEPT !.step = "graph"]]
                /\ raced' = IF call[c].alone THEN raced ELSE raced \cup {r}
             \/ /\ call' = [Overtaken(c) EXCEPT ![c] = Idle]
                /\ raced' = raced
      BY <2>r, <1>9, <2>3 DEF ResumeRun
    <3>2. new.status = "RUNNING" /\ new.calls = runs[r].calls
      BY <2>r, <1>0, <2>1 DEF RunRow
    <3> HIDE DEF new
    <3>3. runs'[r] = new /\ \A q \in Run \ {r} : runs'[q] = runs[q]
      BY <2>r, <1>0, <2>1, <3>1
    <3>4. CountOk(r)'
      BY <2>r, <2>1, <3>2, <3>3 DEF CountOk, Final
    <3>5. Overtaken(c) \in [Call -> CallState]
      BY <2>r, <1>0, OvertakenGood
    <3>6. ASSUME NEW d \in Call \ {c}
          PROVE  /\ call'[d].step = call[d].step /\ call'[d].run = call[d].run
                 /\ call'[d].known = call[d].known /\ call'[d].used = call[d].used
                 /\ call'[d].alone => call[d].alone
                 /\ call[d].step = "resume" /\ call[d].run = r => ~call'[d].alone
      <4>1. call'[d] = Overtaken(c)[d]
        BY <2>r, <3>1, <3>5
      <4>2. CASE call[d].step = "resume" /\ call[d].run = r
        <5>1. call'[d] = [call[d] EXCEPT !.alone = FALSE]
          BY <2>r, <4>1, <4>2 DEF Overtaken
        <5>2. /\ call'[d].step = call[d].step /\ call'[d].run = call[d].run
              /\ call'[d].known = call[d].known /\ call'[d].used = call[d].used
              /\ ~call'[d].alone
          BY <2>r, <1>0, <5>1, CountsOvertaken
        <5> QED
          BY <2>r, <5>2
      <4>3. CASE ~(call[d].step = "resume" /\ call[d].run = r)
        <5>1. call'[d] = call[d]
          BY <2>r, <4>1, <4>3 DEF Overtaken
        <5> QED
          BY <2>r, <4>3, <5>1
      <4> QED
        BY <2>r, <4>2, <4>3
    <3>7. call'[c].step = "idle" \/ Carries(call[c])'
      <4>1. CASE call' = [Overtaken(c) EXCEPT ![c] = Idle]
        BY <2>r, <3>5, <4>1 DEF Idle
      <4>2. CASE /\ call' = [Overtaken(c) EXCEPT ![c] = [call[c] EXCEPT !.step = "graph"]]
                 /\ raced' = IF call[c].alone THEN raced ELSE raced \cup {r}
        <5>1. call'[c] = [call[c] EXCEPT !.step = "graph"]
          BY <2>r, <3>5, <4>2
        <5>2. /\ call'[c].step = "graph" /\ call'[c].run = r
              /\ call'[c].known = call[c].known /\ call'[c].used = call[c].used
          BY <2>r, <1>0, <5>1, CountsGo DEF Step
        <5>3. call[c].used = 0 /\ call[c].known + call[c].used <= spent[r]
          BY <2>r, <2>1 DEF Carries
        <5>4. ASSUME r \notin raced' PROVE call[c].known + call[c].used = spent[r]
          <6>1. call[c].alone /\ r \notin raced
            BY <2>r, <4>2, <5>4
          <6>2. call[c].known = runs[r].calls
            BY <2>r, <2>1, <6>1 DEF Carries
          <6>3. runs[r].calls = spent[r]
            BY <2>r, <2>1, <3>1, <6>1 DEF CountOk
          <6> QED
            BY <2>r, <2>1, <5>3, <6>2, <6>3
        <5> QED
          BY <2>r, <2>1, <5>2, <5>3, <5>4 DEF Carries
      <4> QED
        BY <2>r, <3>1, <4>1, <4>2
    <3>8. raced \subseteq raced' /\ \A q \in Run \ {r} : q \in raced' <=> q \in raced
      BY <2>r, <3>1
    <3> QED
      BY <2>r, <2>1, <3>3, <3>4, <3>6, <3>7, <3>8, CountsMove
  <2> QED
    BY <2>r, <2>2, <2>3
<1>10. ASSUME NEW c \in Call, FinishRun(c)
       PROVE  Accounts'
  <2>r. PICK r : r = call[c].run
    OBVIOUS
  <2> DEFINE st == IF thread[r].verdict = "APPROVED" THEN "COMPLETED" ELSE "REJECTED"
            new == [runs[r] EXCEPT !.status = st, !.verdict = thread[r].verdict,
                                    !.calls = call[c].known + call[c].used]
  <2>1. /\ call[c].step = "finish" /\ r \in Run /\ UNCHANGED <<spent, raced>>
        /\ runs[r].status = "RUNNING" /\ Carries(call[c])
    BY <2>r, <1>10, <1>c DEF FinishRun, history, StatusAt
  <2>2. \/ /\ runs' = [runs EXCEPT ![r] = new]
           /\ Go(c, "index") \/ End(c) \/ Go(c, "fail")
        \/ runs' = runs /\ Go(c, "fail")
    BY <2>r, <1>10 DEF FinishRun
  <2>3. new.status \in Final /\ new.calls = call[c].known + call[c].used
    BY <2>r, <1>0, <2>1 DEF RunRow, Final
  <2> HIDE DEF new
  <2>4. CASE runs' = runs /\ Go(c, "fail")
    BY <2>r, <1>a, <2>1, <2>4 DEF Step
  <2>5. CASE /\ runs' = [runs EXCEPT ![r] = new]
             /\ Go(c, "index") \/ End(c) \/ Go(c, "fail")
    <3>1. runs'[r] = new /\ \A q \in Run \ {r} : runs'[q] = runs[q]
      BY <2>r, <1>0, <2>1, <2>5
    <3>2. CountOk(r)'
      BY <2>r, <2>1, <2>3, <3>1 DEF CountOk, Carries, Final
    <3>3. /\ \A d \in Call \ {c} : call'[d] = call[d]
          /\ \/ call'[c].step = "idle"
             \/ \E step \in {"index", "fail"} : call'[c] = [call[c] EXCEPT !.step = step]
      BY <2>r, <1>0, <2>5 DEF Go, End, Idle
    <3>4. ASSUME NEW step \in {"index", "fail"}, call'[c] = [call[c] EXCEPT !.step = step]
          PROVE  Carries(call[c])'
      <4>1. /\ call'[c].step = step /\ call'[c].run = r
            /\ call'[c].known = call[c].known /\ call'[c].used = call[c].used
        BY <2>r, <1>0, <3>4, CountsGo DEF Step
      <4> QED
        BY <2>r, <2>1, <3>4, <4>1 DEF Carries
    <3> QED
      <4>1. call'[c].step = "idle" \/ Carries(call[c])'
        BY <3>3, <3>4
      <4> QED
        BY <1>c, <2>r, <2>1, <3>1, <3>2, <3>3, <4>1, CountsMove
  <2> QED
    BY <2>r, <2>2, <2>4, <2>5
<1>11. ASSUME NEW c \in Call, IndexReport(c)
       PROVE  Accounts'
  BY <1>11, <1>a DEF IndexReport, tables, history, Step
<1>12. ASSUME NEW c \in Call, FailRun(c)
       PROVE  Accounts'
  <2>r. PICK r : r = call[c].run
    OBVIOUS
  <2> DEFINE new == [runs[r] EXCEPT !.status = "FAILED", !.calls = call[c].known + call[c].used]
  <2>1. /\ call[c].step = "fail" /\ r \in Run /\ UNCHANGED <<spent, raced>> /\ End(c)
        /\ Carries(call[c])
    BY <2>r, <1>12, <1>c DEF FailRun, history
  <2>2. CASE runs' = runs
    BY <2>r, <1>a, <2>1, <2>2
  <2>3. CASE runs' # runs
    <3>1. runs[r].status = "RUNNING" /\ runs' = [runs EXCEPT ![r] = new]
      BY <2>r, <1>12, <2>3 DEF FailRun
    <3>2. new.status = "FAILED" /\ new.calls = call[c].known + call[c].used
      BY <2>r, <1>0, <2>1 DEF RunRow
    <3> HIDE DEF new
    <3>3. runs'[r] = new /\ \A q \in Run \ {r} : runs'[q] = runs[q]
      BY <2>r, <1>0, <2>1, <3>1
    <3>4. CountOk(r)'
      BY <2>r, <2>1, <3>2, <3>3 DEF CountOk, Carries
    <3>5. call'[c].step = "idle" /\ \A d \in Call \ {c} : call'[d] = call[d]
      BY <2>r, <1>0, <2>1 DEF End, Idle
    <3> QED
      BY <2>r, <2>1, <3>1, <3>3, <3>4, <3>5, <1>c, CountsMove
  <2> QED
    BY <2>r, <2>2, <2>3
<1>13. ASSUME NEW c \in Call, CallStops(c)
       PROVE  Accounts'
  BY <1>13, <1>a DEF CallStops, tables, history
<1>14. CASE UNCHANGED vars \/ \E i \in Incident, e \in Id : Collect(i, e)
  <2>1. UNCHANGED <<runs, call, spent, raced>>
    BY <1>14 DEF vars, tables, history, Collect
  <2> QED
    BY <2>1 DEF Accounts, CountOk, Carries
<1> QED
  BY <1>1, <1>2, <1>3, <1>4, <1>5, <1>6, <1>7, <1>8, <1>9, <1>10, <1>11, <1>12, <1>13, <1>14
  DEF Next, Continue

(* The counters of a settled run count every model call made for it, over  *)
(* all its resumes and failures, unless one resume overtook another, and   *)
(* never one that was not made (resume, finish_run, fail_run).             *)
THEOREM CallsAreCounted == Spec => []CallsCounted
<1>1. Init => Accounts
  BY DEF Init, Accounts, CountOk, Carries, NoRun, Idle, Final
<1>2. Shape /\ WorkInv /\ Accounts /\ [Next]_vars => Accounts'
  BY ShapeStep, CountsStep
<1>3. Accounts => CallsCounted
  BY DEF Accounts, CountOk, CallsCounted
<1> QED
  BY <1>1, <1>2, <1>3, WorkHolds, PTL DEF Spec
===============================================================================
