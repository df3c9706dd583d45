------------------------------- MODULE Recovery ------------------------------
(***************************************************************************)
(* Recovery of the lab's inventory service: a commander requests it for an *)
(* incident with a verified root cause, an approver approves it, operators *)
(* execute it (recovery_service.py), over the tables recovery_approvals    *)
(* and recovery_executions (recovery_repository.py) and the inventory      *)
(* service's fault state (lab/faults.py, lab/app.py).                      *)
(*                                                                         *)
(* approve and execute run in the API's worker threads, any number at a    *)
(* time: each database access is a connection of its own and each HTTP     *)
(* request a step of its own, and other calls and other users of the lab   *)
(* act in between.  MaxFaults bounds what goes wrong: a request that fails *)
(* before or after it took effect, an answer of the order service that no  *)
(* lab fault explains, a database error, a process that stops.  A request  *)
(* whose answer is given up has by then taken effect, or never does.       *)
(***************************************************************************)
EXTENDS Naturals, FiniteSets

CONSTANTS
  User,        \* the X-AxiomOps-User header
  Incident,
  Run,         \* RCA runs
  Approval,    \* the uuids that create_approval may draw
  Execution,   \* the uuids that create_execution may draw
  Call,        \* approve and execute calls in progress at one time
  None,        \* SQL NULL
  MaxFaults,
  MaxLabUses   \* how often others set the inventory fault

ASSUME RecoveryAssumption ==
  /\ None \notin (User \cup Incident \cup Run \cup Approval \cup Execution)
  /\ MaxFaults \in Nat /\ MaxLabUses \in Nat

VARIABLES
  report,      \* per run: the incident of its verified report, or None
  approvals,   \* table recovery_approvals
  executions,  \* table recovery_executions
  fault,       \* the mode of the inventory service's FaultState
  call,        \* the calls in progress
  answers,     \* history: <<approval, execution>> answered by execute
  resets,      \* history: how often the lab was reset for an approval
  labUses, faults

tables == <<report, approvals, executions>>
history == <<answers, resets>>
vars == <<tables, fault, call, history, labUses, faults>>

(* FaultMode.  Delay and error rate only say whether an order goes through *)
(* under "latency" and "error_rate": it may.                               *)
Mode == {"none", "latency", "error_rate", "unavailable"}

ApprovalRow ==
  [status : {"ABSENT", "PENDING", "APPROVED"}, incident : Incident \cup {None},
   run : Run \cup {None}, requestedBy : User \cup {None}, approvedBy : User \cup {None}]
NoApproval ==
  [status |-> "ABSENT", incident |-> None, run |-> None, requestedBy |-> None, approvedBy |-> None]

Outcome == {"SUCCEEDED", "FAILED", "ROLLED_BACK"}
Rollback == {"none", "restored", "not restored"}

(* applied is history: whether the reset of this execution reached the lab. *)
ExecutionRow ==
  [approval : Approval \cup {None}, status : Outcome \cup {"ABSENT"},
   rollback : Rollback, applied : BOOLEAN]
NoExecution ==
  [approval |-> None, status |-> "ABSENT", rollback |-> "none", applied |-> FALSE]

(* step: "approve" - approve has checked the row; "get", "reset", "verify",*)
(* "restore" - the executor is about to send that request; "retry" - in    *)
(* its except branch, about to restore; "record" - it has returned;        *)
(* "answer" - the row is inserted.  alone is history: nobody else has set  *)
(* the fault since this executor read it.                                  *)
CallState ==
  [step : {"idle", "approve", "get", "reset", "verify", "restore", "retry", "record", "answer"},
   approval : Approval \cup {None}, user : User \cup {None}, before : Mode \cup {None},
   status : Outcome \cup {"ABSENT"}, rollback : Rollback, applied : BOOLEAN, alone : BOOLEAN,
   execution : Execution \cup {None}]
Idle ==
  [step |-> "idle", approval |-> None, user |-> None, before |-> None, status |-> "ABSENT",
   rollback |-> "none", applied |-> FALSE, alone |-> FALSE, execution |-> None]

(* Tables, calls and histories have their shape; an executor that may      *)
(* restore the fault has read it, only a call about to approve has a user  *)
(* and only one about to answer has an execution.                          *)
TypeOK ==
  /\ report \in [Run -> Incident \cup {None}]
  /\ approvals \in [Approval -> ApprovalRow]
  /\ executions \in [Execution -> ExecutionRow]
  /\ fault \in Mode
  /\ call \in [Call -> CallState]
  /\ \A c \in Call :
       /\ call[c].step = "idle" <=> call[c].approval = None
       /\ call[c].step = "approve" <=> call[c].user # None
       /\ call[c].step = "answer" <=> call[c].execution # None
       /\ call[c].step \in {"reset", "verify", "restore", "retry"} => call[c].before \in Mode
       /\ call[c].step = "record" => call[c].status \in Outcome
  /\ answers \subseteq Approval \X Execution
  /\ resets \in [Approval -> Nat]
  /\ labUses \in 0..MaxLabUses
  /\ faults \in 0..MaxFaults

Init ==
  /\ report = [r \in Run |-> None]
  /\ approvals = [a \in Approval |-> NoApproval]
  /\ executions = [e \in Execution |-> NoExecution]
  /\ fault = "none"
  /\ call = [c \in Call |-> Idle]
  /\ answers = {}
  /\ resets = [a \in Approval |-> 0]
  /\ labUses = 0
  /\ faults = 0

Fault == faults < MaxFaults /\ faults' = faults + 1
NoFault == UNCHANGED faults

Executed(a) == \E e \in Execution : executions[e].approval = a

(* The executor returns to execute.                                        *)
Return(c, status, rollback, applied) ==
  [call[c] EXCEPT !.step = "record", !.status = status, !.rollback = rollback, !.applied = applied]

(* Setting the fault disturbs the executors that have read it.             *)
Disturbed(S) ==
  [d \in Call |-> IF d \in S THEN [call[d] EXCEPT !.alone = FALSE] ELSE call[d]]

-----------------------------------------------------------------------------
(* Mutated operations.  No specification uses them: each is a bug that the *)
(* operation it varies could have, and that a property must notice.        *)

(* The requester may approve.                                              *)
StartApproveByAnyone(c, u, a) ==
  /\ call[c] = Idle
  /\ approvals[a].status = "PENDING"
  /\ call' = [call EXCEPT ![c] = [Idle EXCEPT !.step = "approve", !.approval = a, !.user = u]]
  /\ UNCHANGED <<tables, fault, history, labUses, faults>>

(* The UPDATE trusts the status that was read before it.                   *)
ApproveWithoutWhere(c) ==
  /\ call[c].step = "approve"
  /\ approvals' = [approvals EXCEPT ![call[c].approval] =
       [@ EXCEPT !.status = "APPROVED", !.approvedBy = call[c].user]]
  /\ call' = [call EXCEPT ![c] = Idle]
  /\ UNCHANGED <<report, executions, fault, history, labUses, faults>>

(* The state before the reset is not kept.                                 *)
GetForgetsState(c) ==
  /\ call[c].step = "get"
  /\ call' = [call EXCEPT ![c].step = "reset"]
  /\ UNCHANGED <<tables, fault, history, labUses, faults>>

(* The rollback sends an empty payload, which stands for no fault.         *)
RestoreNothing(c) ==
  /\ call[c].step = "restore"
  /\ fault' = "none"
  /\ call' = [Disturbed(Call \ {c}) EXCEPT ![c] = Return(c, "ROLLED_BACK", "restored", TRUE)]
  /\ UNCHANGED <<tables, history, labUses, faults>>

(* The table lacks its unique key.                                         *)
RecordWithoutUniqueKey(c) ==
  /\ call[c].step = "record"
  /\ \E e \in Execution :
       /\ executions[e] = NoExecution
       /\ executions' = [executions EXCEPT ![e] =
            [approval |-> call[c].approval, status |-> call[c].status,
             rollback |-> call[c].rollback, applied |-> call[c].applied]]
       /\ call' = [call EXCEPT ![c] =
            [Idle EXCEPT !.step = "answer", !.approval = call[c].approval, !.execution = e]]
  /\ UNCHANGED <<report, approvals, fault, history, labUses, faults>>

-----------------------------------------------------------------------------
(* An RCA run completes with a verified report.                            *)
Verify(r, i) ==
  /\ report[r] = None
  /\ report' = [report EXCEPT ![r] = i]
  /\ UNCHANGED <<approvals, executions, fault, call, history, labUses, faults>>

(* request_recovery.  Reports are never changed, so checking one and       *)
(* inserting the approval is one step.                                     *)
RequestRecovery(u, i, r, a) ==
  /\ report[r] = i
  /\ approvals[a].status = "ABSENT"
  /\ approvals' = [approvals EXCEPT ![a] =
       [status |-> "PENDING", incident |-> i, run |-> r, requestedBy |-> u, approvedBy |-> None]]
  /\ UNCHANGED <<report, executions, fault, call, history, labUses, faults>>

-----------------------------------------------------------------------------
(* approve reads the row and checks it on one connection ...               *)
StartApprove(c, u, a) ==
  /\ call[c] = Idle
  /\ approvals[a].status = "PENDING"
  /\ approvals[a].requestedBy # u
  /\ call' = [call EXCEPT ![c] = [Idle EXCEPT !.step = "approve", !.approval = a, !.user = u]]
  /\ UNCHANGED <<tables, fault, history, labUses, faults>>

(* ... and updates it on another, WHERE status='PENDING'; a row that is no *)
(* longer pending is a RuntimeError.                                       *)
Approve(c) ==
  LET a == call[c].approval IN
  /\ call[c].step = "approve"
  /\ \/ /\ approvals[a].status = "PENDING"
        /\ approvals' = [approvals EXCEPT ![a] =
             [@ EXCEPT !.status = "APPROVED", !.approvedBy = call[c].user]]
     \/ /\ approvals[a].status # "PENDING"
        /\ UNCHANGED approvals
  /\ call' = [call EXCEPT ![c] = Idle]
  /\ UNCHANGED <<report, executions, fault, history, labUses, faults>>

-----------------------------------------------------------------------------
(* execute reads the approval and then looks for its execution; an         *)
(* approval stays approved, so the two reads are one step.  An execution   *)
(* it finds is its answer.                                                 *)
StartExecute(c, a) ==
  /\ call[c] = Idle
  /\ approvals[a].status = "APPROVED"
  /\ \/ \E e \in Execution :
          /\ executions[e].approval = a
          /\ call' = [call EXCEPT ![c] =
               [Idle EXCEPT !.step = "answer", !.approval = a, !.execution = e]]
     \/ /\ ~Executed(a)
        /\ call' = [call EXCEPT ![c] = [Idle EXCEPT !.step = "get", !.approval = a]]
  /\ UNCHANGED <<tables, fault, history, labUses, faults>>

(* GET /admin/faults.  Without an answer there is nothing to roll back.    *)
GetFaultState(c) ==
  /\ call[c].step = "get"
  /\ \/ /\ call' = [call EXCEPT ![c] =
             [call[c] EXCEPT !.step = "reset", !.before = fault, !.alone = TRUE]]
        /\ NoFault
     \/ /\ call' = [call EXCEPT ![c] = Return(c, "FAILED", "none", FALSE)]
        /\ Fault
  /\ UNCHANGED <<tables, fault, history, labUses>>

(* POST /admin/faults/reset.  When it raises, action_result is empty and   *)
(* the except branch attempts no rollback, whether or not the lab was      *)
(* reset.                                                                  *)
ResetInventoryFault(c) ==
  LET a == call[c].approval IN
  /\ call[c].step = "reset"
  /\ \/ /\ fault' = "none"
        /\ resets' = [resets EXCEPT ![a] = @ + 1]
        /\ \/ /\ NoFault
              /\ call' = [Disturbed(Call \ {c}) EXCEPT ![c] =
                   [call[c] EXCEPT !.step = "verify", !.applied = TRUE]]
           \/ /\ Fault
              /\ call' = [Disturbed(Call \ {c}) EXCEPT ![c] = Return(c, "FAILED", "none", TRUE)]
     \/ /\ Fault
        /\ call' = [call EXCEPT ![c] = Return(c, "FAILED", "none", FALSE)]
        /\ UNCHANGED <<fault, resets>>
  /\ UNCHANGED <<tables, answers, labUses>>

(* The order service needs one answer of the inventory service, whose      *)
(* /health does not look at the fault.                                     *)
OrderMayPass == fault # "unavailable"
OrderMayFail == fault # "none"

VerifyOrderFlow(c) ==
  /\ call[c].step = "verify"
  /\ \/ /\ OrderMayPass
        /\ call' = [call EXCEPT ![c] = Return(c, "SUCCEEDED", "none", TRUE)]
        /\ NoFault
     \/ /\ call' = [call EXCEPT ![c].step = "restore"]
        /\ IF OrderMayFail THEN NoFault ELSE Fault
     \/ /\ call' = [call EXCEPT ![c].step = "retry"]
        /\ Fault
  /\ UNCHANGED <<tables, fault, history, labUses>>

(* POST /admin/faults with the state read before.  A restore that raises   *)
(* has left rollback None, so the except branch tries it once more.        *)
RestoreFaultState(c) ==
  /\ call[c].step = "restore"
  /\ \/ /\ fault' = call[c].before
        /\ \/ /\ NoFault
              /\ call' = [Disturbed(Call \ {c}) EXCEPT ![c] =
                   Return(c, "ROLLED_BACK", "restored", TRUE)]
           \/ /\ Fault
              /\ call' = [Disturbed(Call \ {c}) EXCEPT ![c] = [call[c] EXCEPT !.step = "retry"]]
     \/ /\ Fault
        /\ call' = [call EXCEPT ![c].step = "retry"]
        /\ UNCHANGED fault
  /\ UNCHANGED <<tables, history, labUses>>

(* The except branch: it says FAILED whatever becomes of the rollback.     *)
RestoreAfterError(c) ==
  /\ call[c].step = "retry"
  /\ \/ /\ fault' = call[c].before
        /\ \/ /\ NoFault
              /\ call' = [Disturbed(Call \ {c}) EXCEPT ![c] =
                   Return(c, "FAILED", "restored", TRUE)]
           \/ /\ Fault
              /\ call' = [Disturbed(Call \ {c}) EXCEPT ![c] =
                   Return(c, "FAILED", "not restored", TRUE)]
     \/ /\ Fault
        /\ call' = [call EXCEPT ![c] = Return(c, "FAILED", "not restored", TRUE)]
        /\ UNCHANGED fault
  /\ UNCHANGED <<tables, history, labUses>>

(* create_execution inserts the row; the unique approval_id refuses a      *)
(* second one, and the call ends in an IntegrityError.                     *)
Record(c) ==
  LET a == call[c].approval IN
  /\ call[c].step = "record"
  /\ \/ \E e \in Execution :
          /\ executions[e] = NoExecution
          /\ ~Executed(a)
          /\ executions' = [executions EXCEPT ![e] =
               [approval |-> a, status |-> call[c].status,
                rollback |-> call[c].rollback, applied |-> call[c].applied]]
          /\ call' = [call EXCEPT ![c] =
               [Idle EXCEPT !.step = "answer", !.approval = a, !.execution = e]]
     \/ /\ Executed(a)
        /\ call' = [call EXCEPT ![c] = Idle]
        /\ UNCHANGED executions
  /\ UNCHANGED <<report, approvals, fault, history, labUses, faults>>

Answer(c) ==
  /\ call[c].step = "answer"
  /\ answers' = answers \cup {<<call[c].approval, call[c].execution>>}
  /\ call' = [call EXCEPT ![c] = Idle]
  /\ UNCHANGED <<tables, fault, resets, labUses, faults>>

(* The process stops, the database is away, or the answer does not arrive. *)
CallStops(c) ==
  /\ Fault
  /\ call[c].step # "idle"
  /\ call' = [call EXCEPT ![c] = Idle]
  /\ UNCHANGED <<tables, fault, history, labUses>>

-----------------------------------------------------------------------------
(* Others use the lab: a scenario sets a fault or resets it, or the        *)
(* inventory service restarts, which loses the fault.                      *)
LabUse(m) ==
  /\ labUses < MaxLabUses
  /\ labUses' = labUses + 1
  /\ fault' = m
  /\ call' = Disturbed(Call)
  /\ UNCHANGED <<tables, history, faults>>

-----------------------------------------------------------------------------
ExecuteStep(c) ==
  \/ \E a \in Approval : StartExecute(c, a)
  \/ GetFaultState(c)
  \/ ResetInventoryFault(c)
  \/ VerifyOrderFlow(c)
  \/ RestoreFaultState(c)
  \/ RestoreAfterError(c)
  \/ Record(c)
  \/ Answer(c)

CallStep(c) ==
  \/ \E u \in User, a \in Approval : StartApprove(c, u, a)
  \/ Approve(c)
  \/ ExecuteStep(c)
  \/ CallStops(c)

Next ==
  \/ \E r \in Run, i \in Incident : Verify(r, i)
  \/ \E u \in User, i \in Incident, r \in Run, a \in Approval : RequestRecovery(u, i, r, a)
  \/ \E c \in Call : CallStep(c)
  \/ \E m \in Mode : LabUse(m)

Spec == Init /\ [][Next]_vars

-----------------------------------------------------------------------------
(* The lab is touched, and an execution recorded, only for an approval     *)
(* that a second person gave to a recovery of the very incident whose root *)
(* cause its run verified.                                                 *)
ActsOnlyWhenApproved ==
  \A a \in Approval : resets[a] > 0 \/ Executed(a) =>
    /\ approvals[a].status = "APPROVED"
    /\ approvals[a].approvedBy \in User \ {approvals[a].requestedBy}
    /\ report[approvals[a].run] = approvals[a].incident

(* Of the approvers of one recovery, however they overlap, one wins: the   *)
(* row of an approved recovery never changes again.                        *)
ApprovedRowStays ==
  \A a \in Approval : approvals[a].status = "APPROVED" => approvals'[a] = approvals[a]
ApprovalIsFinal == [][ApprovedRowStays]_vars

(* All successful answers of execute for one approval name one execution,  *)
(* and it is stored, however many calls ran the action.                    *)
AnswersAgree ==
  \A x, y \in answers :
    /\ executions[x[2]].approval = x[1]
    /\ x[1] = y[1] => x[2] = y[2]

(* What an executor reports is so: unless somebody else set the fault      *)
(* meanwhile, success leaves none, and a rollback, or a failure that did   *)
(* not reach the lab, leaves the one that was there before.                *)
Reported(c) ==
  /\ call[c].status = "SUCCEEDED" => fault = "none"
  /\ call[c].status = "ROLLED_BACK" => call[c].rollback = "restored"
  /\ call[c].rollback = "restored" \/ ~call[c].applied => fault = call[c].before
ReportedStateHolds ==
  \A c \in Call : call[c].step = "record" /\ call[c].alone => Reported(c)

(* An approval is executed once: the unique row is there "to avoid         *)
(* repeated side effects".                                                 *)
SideEffectOnce == \A a \in Approval : resets[a] <= 1

(* An execution that changed the lab and did not pass its verification     *)
(* records what became of its rollback.                                    *)
RollbackRecorded ==
  \A e \in Execution : executions[e].applied /\ executions[e].status # "SUCCEEDED"
                         => executions[e].rollback # "none"
=============================================================================
