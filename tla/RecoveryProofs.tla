--------------------------- MODULE RecoveryProofs ----------------------------
(***************************************************************************)
(* Proofs about Recovery, for every number of users, approvals, calls and  *)
(* faults.                                                                 *)
(***************************************************************************)
EXTENDS Recovery, TLAPS

(* The states that a call moves to are states of a call.                   *)
LEMMA CallTypes ==
  ASSUME NEW s \in CallState
  PROVE  /\ [s EXCEPT !.alone = FALSE] \in CallState
         /\ \A m \in Mode : [s EXCEPT !.step = "reset", !.before = m, !.alone = TRUE] \in CallState
         /\ [s EXCEPT !.step = "verify", !.applied = TRUE] \in CallState
         /\ [s EXCEPT !.step = "restore"] \in CallState
         /\ [s EXCEPT !.step = "retry"] \in CallState
         /\ \A o \in Outcome, r \in Rollback, b \in BOOLEAN :
              [s EXCEPT !.step = "record", !.status = o, !.rollback = r, !.applied = b] \in CallState
  BY DEF CallState

(* A call that begins is typed.                                             *)
LEMMA FreshCallTypes ==
  /\ Idle \in CallState
  /\ \A u \in User, a \in Approval :
       [Idle EXCEPT !.step = "approve", !.approval = a, !.user = u] \in CallState
  /\ \A a \in Approval : [Idle EXCEPT !.step = "get", !.approval = a] \in CallState
  /\ \A a \in Approval, e \in Execution :
       [Idle EXCEPT !.step = "answer", !.approval = a, !.execution = e] \in CallState
  BY DEF CallState, Idle, Rollback

(* The shape of one call, as TypeOK states it of all.                      *)
GoodCall(s) ==
  /\ s \in CallState
  /\ s.step = "idle" <=> s.approval = None
  /\ s.step = "approve" <=> s.user # None
  /\ s.step = "answer" <=> s.execution # None
  /\ s.step \in {"reset", "verify", "restore", "retry"} => s.before \in Mode
  /\ s.step = "record" => s.status \in Outcome

(* A call that goes on is a call at its stage.                              *)
LEMMA GoodCalls ==
  ASSUME NEW s \in CallState, GoodCall(s), s.step \notin {"idle", "approve", "answer"}
  PROVE  /\ \A m \in Mode : GoodCall([s EXCEPT !.step = "reset", !.before = m, !.alone = TRUE])
         /\ s.before \in Mode => /\ GoodCall([s EXCEPT !.step = "verify", !.applied = TRUE])
                                 /\ GoodCall([s EXCEPT !.step = "restore"])
                                 /\ GoodCall([s EXCEPT !.step = "retry"])
         /\ \A o \in Outcome, r \in Rollback, b \in BOOLEAN :
              GoodCall([s EXCEPT !.step = "record", !.status = o, !.rollback = r, !.applied = b])
<1>0. s.approval # None /\ s.execution = None /\ s.user = None
  BY DEF GoodCall
<1>1. ASSUME NEW m \in Mode
      PROVE  GoodCall([s EXCEPT !.step = "reset", !.before = m, !.alone = TRUE])
  <2> DEFINE t == [s EXCEPT !.step = "reset", !.before = m, !.alone = TRUE]
  <2>1. t.step = "reset" /\ t.before = m /\ t.approval = s.approval /\ t.execution = s.execution /\ t.user = s.user
    BY DEF CallState
  <2>2. t \in CallState
    BY CallTypes
  <2> HIDE DEF t
  <2>3. GoodCall(t)
    BY <1>0, <2>1, <2>2 DEF GoodCall
  <2> QED
    BY <2>3 DEF t
<1>2. ASSUME s.before \in Mode
      PROVE  /\ GoodCall([s EXCEPT !.step = "verify", !.applied = TRUE])
             /\ GoodCall([s EXCEPT !.step = "restore"])
             /\ GoodCall([s EXCEPT !.step = "retry"])
  <2> DEFINE t == [s EXCEPT !.step = "verify", !.applied = TRUE]
             u == [s EXCEPT !.step = "restore"]
             v == [s EXCEPT !.step = "retry"]
  <2>1. /\ t.step = "verify" /\ t.before = s.before /\ t.approval = s.approval
        /\ u.step = "restore" /\ u.before = s.before /\ u.approval = s.approval
        /\ v.step = "retry" /\ v.before = s.before /\ v.approval = s.approval
        /\ t.execution = s.execution /\ u.execution = s.execution /\ v.execution = s.execution
        /\ t.user = s.user /\ u.user = s.user /\ v.user = s.user
    BY DEF CallState
  <2>2. t \in CallState /\ u \in CallState /\ v \in CallState
    BY CallTypes
  <2> HIDE DEF t, u, v
  <2>3. GoodCall(t) /\ GoodCall(u) /\ GoodCall(v)
    BY <1>0, <1>2, <2>1, <2>2 DEF GoodCall
  <2> QED
    BY <2>3 DEF t, u, v
<1>3. ASSUME NEW o \in Outcome, NEW r \in Rollback, NEW b \in BOOLEAN
      PROVE  GoodCall([s EXCEPT !.step = "record", !.status = o, !.rollback = r, !.applied = b])
  <2> DEFINE t == [s EXCEPT !.step = "record", !.status = o, !.rollback = r, !.applied = b]
  <2>1. t.step = "record" /\ t.status = o /\ t.approval = s.approval /\ t.execution = s.execution /\ t.user = s.user
    BY DEF CallState
  <2>2. t \in CallState
    BY CallTypes
  <2> HIDE DEF t
  <2>3. GoodCall(t)
    BY <1>0, <2>1, <2>2 DEF GoodCall
  <2> QED
    BY <2>3 DEF t
<1> QED
  BY <1>1, <1>2, <1>3

(* A call that begins is a call at its stage.                               *)
LEMMA GoodFreshCalls ==
  /\ GoodCall(Idle)
  /\ \A u \in User, a \in Approval :
       GoodCall([Idle EXCEPT !.step = "approve", !.approval = a, !.user = u])
  /\ \A a \in Approval : GoodCall([Idle EXCEPT !.step = "get", !.approval = a])
  /\ \A a \in Approval, e \in Execution :
       GoodCall([Idle EXCEPT !.step = "answer", !.approval = a, !.execution = e])
  BY FreshCallTypes, RecoveryAssumption DEF GoodCall, Idle

(* A call that is disturbed is a call at its stage.                         *)
LEMMA DisturbedGood ==
  ASSUME call \in [Call -> CallState], \A c \in Call : GoodCall(call[c]), NEW S
  PROVE  /\ Disturbed(S) \in [Call -> CallState]
         /\ \A c \in Call : GoodCall(Disturbed(S)[c])
<1>1. ASSUME NEW s \in CallState, GoodCall(s)
      PROVE  GoodCall([s EXCEPT !.alone = FALSE])
  <2> DEFINE t == [s EXCEPT !.alone = FALSE]
  <2>1. /\ t.step = s.step /\ t.approval = s.approval /\ t.execution = s.execution
        /\ t.before = s.before /\ t.status = s.status /\ t.user = s.user
    BY DEF CallState
  <2>2. t \in CallState
    BY CallTypes
  <2> HIDE DEF t
  <2>3. GoodCall(t)
    BY <1>1, <2>1, <2>2 DEF GoodCall
  <2> QED
    BY <2>3 DEF t
<1> QED
  BY <1>1, CallTypes DEF Disturbed

(* Every state has the shape TypeOK says.                                  *)
THEOREM Typing == Spec => []TypeOK
<1> DEFINE Tables ==
      /\ report \in [Run -> Incident \cup {None}]
      /\ approvals \in [Approval -> ApprovalRow]
      /\ executions \in [Execution -> ExecutionRow]
<1> DEFINE Calls == call \in [Call -> CallState] /\ \A c \in Call : GoodCall(call[c])
<1> DEFINE Others ==
      /\ fault \in Mode
      /\ answers \subseteq Approval \X Execution
      /\ resets \in [Approval -> Nat]
      /\ labUses \in 0..MaxLabUses
      /\ faults \in 0..MaxFaults
<1>0. TypeOK <=> Tables /\ Calls /\ Others
  BY DEF TypeOK, GoodCall
<1>1. Init => Tables /\ Calls /\ Others
  <2> SUFFICES ASSUME Init PROVE Tables /\ Calls /\ Others
    OBVIOUS
  <2>1. Tables
    BY DEF Init, NoApproval, NoExecution, ApprovalRow, ExecutionRow, Outcome, Rollback
  <2>2. Calls
    BY GoodFreshCalls, FreshCallTypes DEF Init
  <2>3. Others
    BY RecoveryAssumption DEF Init, Mode
  <2> QED
    BY <2>1, <2>2, <2>3
<1>2. Tables /\ Calls /\ Others /\ [Next]_vars => (Tables /\ Calls /\ Others)'
  <2> SUFFICES ASSUME Tables, Calls, Others, [Next]_vars PROVE (Tables /\ Calls /\ Others)'
    OBVIOUS
  <2>1. ASSUME NEW r \in Run, NEW i \in Incident, Verify(r, i)
        PROVE  (Tables /\ Calls /\ Others)'
    BY <2>1 DEF Verify, history
  <2>2. ASSUME NEW u \in User, NEW i \in Incident, NEW r \in Run, NEW a \in Approval,
               RequestRecovery(u, i, r, a)
        PROVE  (Tables /\ Calls /\ Others)'
    BY <2>2 DEF RequestRecovery, history, ApprovalRow
  <2>3. ASSUME NEW m \in Mode, LabUse(m)
        PROVE  (Tables /\ Calls /\ Others)'
    <3>1. Calls'
      BY <2>3, DisturbedGood DEF LabUse
    <3> QED
      BY <2>3, <3>1, RecoveryAssumption DEF LabUse, tables, history
  <2>4. ASSUME NEW c \in Call, CallStep(c)
        PROVE  (Tables /\ Calls /\ Others)'
    <3>0. /\ call[c] \in CallState /\ GoodCall(call[c])
          /\ call[c].step # "idle" => call[c].approval \in Approval
          /\ call[c].step \in {"reset", "verify", "restore", "retry"} => call[c].before \in Mode
      BY RecoveryAssumption DEF GoodCall, CallState
    <3>1. ASSUME NEW s \in CallState, GoodCall(s),
                 \/ call' = [call EXCEPT ![c] = s]
                 \/ \E S : call' = [Disturbed(S) EXCEPT ![c] = s]
          PROVE  Calls'
      BY <3>1, DisturbedGood
    <3>2. /\ "FAILED" \in Outcome /\ "SUCCEEDED" \in Outcome /\ "ROLLED_BACK" \in Outcome
          /\ "none" \in Rollback /\ "restored" \in Rollback /\ "not restored" \in Rollback
          /\ "none" \in Mode
      BY DEF Outcome, Rollback, Mode
    <3>3. ASSUME call[c].step \in {"get", "reset", "verify", "restore", "retry"},
                 NEW o \in Outcome, NEW r \in Rollback, NEW b \in BOOLEAN
          PROVE  GoodCall(Return(c, o, r, b)) /\ Return(c, o, r, b) \in CallState
      BY <3>0, <3>3, GoodCalls, CallTypes DEF Return
    <3>4. ASSUME call[c].step \in {"reset", "verify", "restore"}
          PROVE  /\ GoodCall([call[c] EXCEPT !.step = "retry"])
                 /\ [call[c] EXCEPT !.step = "retry"] \in CallState
      BY <3>0, <3>4, GoodCalls, CallTypes
    <3>5. ASSUME call' = [call EXCEPT ![c] = Idle]
          PROVE  Calls'
      <4>1. Idle \in CallState /\ GoodCall(Idle)
        BY GoodFreshCalls, FreshCallTypes
      <4> QED
        BY <3>1, <3>5, <4>1
    <3>6. ASSUME Fault \/ NoFault
          PROVE  faults' \in 0..MaxFaults
      BY <3>6, RecoveryAssumption DEF Fault, NoFault
    <3>7. ASSUME NEW a \in Approval, (\E u \in User : StartApprove(c, u, a)) \/ StartExecute(c, a)
          PROVE  (Tables /\ Calls /\ Others)'
      <4>1. Calls'
        <5>1. /\ \A u \in User :
                   LET s == [Idle EXCEPT !.step = "approve", !.approval = a, !.user = u]
                   IN  GoodCall(s) /\ s \in CallState
              /\ \A e \in Execution :
                   LET s == [Idle EXCEPT !.step = "answer", !.approval = a, !.execution = e]
                   IN  GoodCall(s) /\ s \in CallState
          BY GoodFreshCalls, FreshCallTypes
        <5>2. /\ GoodCall([Idle EXCEPT !.step = "get", !.approval = a])
              /\ [Idle EXCEPT !.step = "get", !.approval = a] \in CallState
          BY GoodFreshCalls, FreshCallTypes
        <5>3. CASE \E u \in User : StartApprove(c, u, a)
          BY <3>1, <5>1, <5>3 DEF StartApprove
        <5>4. CASE StartExecute(c, a)
          BY <3>1, <5>1, <5>2, <5>4 DEF StartExecute
        <5> QED
          BY <3>7, <5>3, <5>4
      <4> QED
        BY <3>7, <4>1 DEF StartApprove, StartExecute, tables, history
    <3>8. CASE Approve(c)
      <4>1. \A row \in ApprovalRow, u \in User :
              [row EXCEPT !.status = "APPROVED", !.approvedBy = u] \in ApprovalRow
        BY DEF ApprovalRow
      <4>2. call[c].user \in User /\ call[c].approval \in Approval
        BY <3>0, <3>8 DEF Approve, GoodCall, CallState
      <4>3. Tables'
        <5>1. CASE approvals' = [approvals EXCEPT ![call[c].approval] =
                [approvals[call[c].approval] EXCEPT !.status = "APPROVED", !.approvedBy = call[c].user]]
          <6>1. [approvals[call[c].approval] EXCEPT !.status = "APPROVED", !.approvedBy = call[c].user]
                  \in ApprovalRow
            BY <4>1, <4>2
          <6> QED
            BY <3>8, <5>1, <6>1 DEF Approve
        <5>2. CASE UNCHANGED approvals
          BY <3>8, <5>2 DEF Approve
        <5> QED
          BY <3>8, <5>1, <5>2 DEF Approve
      <4>4. Calls'
        BY <3>5, <3>8 DEF Approve
      <4> QED
        BY <3>8, <4>3, <4>4 DEF Approve, history
    <3>9. CASE GetFaultState(c)
      <4>1. call[c].step = "get"
        BY <3>9 DEF GetFaultState
      <4>2. Calls'
        <5>1. /\ GoodCall([call[c] EXCEPT !.step = "reset", !.before = fault, !.alone = TRUE])
              /\ [call[c] EXCEPT !.step = "reset", !.before = fault, !.alone = TRUE] \in CallState
          BY <3>0, <4>1, GoodCalls, CallTypes
        <5> QED
          BY <3>1, <3>2, <3>3, <3>9, <4>1, <5>1 DEF GetFaultState
      <4>3. Others'
        BY <3>0, <3>2, <3>6, <3>9 DEF GetFaultState, history
      <4>4. Tables'
        BY <3>9 DEF GetFaultState, tables
      <4> QED
        BY <4>2, <4>3, <4>4
    <3>10. CASE ResetInventoryFault(c)
      <4>1. call[c].step = "reset"
        BY <3>10 DEF ResetInventoryFault
      <4>2. Calls'
        <5>1. /\ GoodCall([call[c] EXCEPT !.step = "verify", !.applied = TRUE])
              /\ [call[c] EXCEPT !.step = "verify", !.applied = TRUE] \in CallState
          BY <3>0, <4>1, GoodCalls, CallTypes
        <5> QED
          BY <3>1, <3>2, <3>3, <3>10, <4>1, <5>1 DEF ResetInventoryFault
      <4>3. Others'
        <5>1. \A a \in Approval : [resets EXCEPT ![a] = resets[a] + 1] \in [Approval -> Nat]
          OBVIOUS
        <5>2. resets' \in [Approval -> Nat]
          BY <3>0, <3>10, <4>1, <5>1 DEF ResetInventoryFault
        <5> QED
          BY <3>2, <3>6, <3>10, <5>2 DEF ResetInventoryFault
      <4>4. Tables'
        BY <3>10 DEF ResetInventoryFault, tables
      <4> QED
        BY <4>2, <4>3, <4>4
    <3>11. CASE VerifyOrderFlow(c)
      <4>1. call[c].step = "verify"
        BY <3>11 DEF VerifyOrderFlow
      <4>2. Calls'
        <5>1. /\ GoodCall([call[c] EXCEPT !.step = "restore"])
              /\ [call[c] EXCEPT !.step = "restore"] \in CallState
          BY <3>0, <4>1, GoodCalls, CallTypes
        <5> QED
          BY <3>1, <3>2, <3>3, <3>4, <3>11, <4>1, <5>1 DEF VerifyOrderFlow
      <4>3. Others'
        BY <3>0, <3>2, <3>6, <3>11 DEF VerifyOrderFlow, history
      <4>4. Tables'
        BY <3>11 DEF VerifyOrderFlow, tables
      <4> QED
        BY <4>2, <4>3, <4>4
    <3>12. CASE RestoreFaultState(c)
      <4>1. call[c].step = "restore"
        BY <3>12 DEF RestoreFaultState
      <4>2. Calls'
        BY <3>1, <3>2, <3>3, <3>4, <3>12, <4>1 DEF RestoreFaultState
      <4>3. Others'
        BY <3>0, <3>2, <3>6, <3>12 DEF RestoreFaultState, history
      <4>4. Tables'
        BY <3>12 DEF RestoreFaultState, tables
      <4> QED
        BY <4>2, <4>3, <4>4
    <3>13. CASE RestoreAfterError(c)
      <4>1. call[c].step = "retry"
        BY <3>13 DEF RestoreAfterError
      <4>2. Calls'
        BY <3>1, <3>2, <3>3, <3>13, <4>1 DEF RestoreAfterError
      <4>3. Others'
        BY <3>0, <3>2, <3>6, <3>13 DEF RestoreAfterError, history
      <4>4. Tables'
        BY <3>13 DEF RestoreAfterError, tables
      <4> QED
        BY <4>2, <4>3, <4>4
    <3>14. CASE Record(c)
      <4>1. call[c].approval \in Approval /\ call[c].status \in Outcome
        BY <3>0, <3>14 DEF Record, GoodCall
      <4>2. \A e \in Execution :
              [approval |-> call[c].approval, status |-> call[c].status,
               rollback |-> call[c].rollback, applied |-> call[c].applied] \in ExecutionRow
        BY <3>0, <4>1 DEF CallState, ExecutionRow
      <4>3. Tables'
        BY <3>14, <4>2 DEF Record
      <4>4. Calls'
        <5>1. \A e \in Execution :
                LET s == [Idle EXCEPT !.step = "answer", !.approval = call[c].approval, !.execution = e]
                IN  GoodCall(s) /\ s \in CallState
          BY <4>1, GoodFreshCalls, FreshCallTypes
        <5> QED
          BY <3>1, <3>5, <3>14, <5>1 DEF Record
      <4> QED
        BY <3>14, <4>3, <4>4 DEF Record, history
    <3>15. CASE Answer(c)
      <4>1. call[c].execution \in Execution /\ call[c].approval \in Approval
        BY <3>0, <3>15 DEF Answer, GoodCall, CallState
      <4>2. Calls'
        BY <3>5, <3>15 DEF Answer
      <4> QED
        BY <3>15, <4>1, <4>2 DEF Answer, tables
    <3>16. CASE CallStops(c)
      <4>1. Calls'
        BY <3>5, <3>16 DEF CallStops
      <4> QED
        BY <3>6, <3>16, <4>1 DEF CallStops, tables, history
    <3> QED
      BY <2>4, <3>7, <3>8, <3>9, <3>10, <3>11, <3>12, <3>13, <3>14, <3>15, <3>16
         DEF CallStep, ExecuteStep
  <2>5. CASE UNCHANGED vars
    BY <2>5 DEF vars, tables, history
  <2> QED
    BY <2>1, <2>2, <2>3, <2>4, <2>5 DEF Next
<1> QED
  BY <1>0, <1>1, <1>2, PTL DEF Spec

-----------------------------------------------------------------------------
(* What a step of call c does to the calls: the others at most learn that  *)
(* they are not alone; c ends, starts, or goes on with its approval.       *)
Executing == {"get", "reset", "verify", "restore", "retry", "record"}

SameCall(d) ==
  /\ call'[d].step = call[d].step /\ call'[d].approval = call[d].approval
  /\ call'[d].user = call[d].user /\ call'[d].execution = call[d].execution
  /\ call'[d].before = call[d].before /\ call'[d].status = call[d].status
  /\ call'[d].rollback = call[d].rollback /\ call'[d].applied = call[d].applied

(* Disturbance shows in nothing but itself.                                 *)
LEMMA DisturbedSame ==
  ASSUME call \in [Call -> CallState], NEW S, NEW d \in Call
  PROVE  /\ Disturbed(S)[d].step = call[d].step /\ Disturbed(S)[d].approval = call[d].approval
         /\ Disturbed(S)[d].user = call[d].user /\ Disturbed(S)[d].execution = call[d].execution
         /\ Disturbed(S)[d].before = call[d].before /\ Disturbed(S)[d].status = call[d].status
         /\ Disturbed(S)[d].rollback = call[d].rollback
         /\ Disturbed(S)[d].applied = call[d].applied
<1>1. \A s \in CallState :
        LET t == [s EXCEPT !.alone = FALSE]
        IN  /\ t.step = s.step /\ t.approval = s.approval /\ t.user = s.user
            /\ t.execution = s.execution /\ t.before = s.before /\ t.status = s.status
            /\ t.rollback = s.rollback /\ t.applied = s.applied
  BY DEF CallState
<1>2. call[d] \in CallState
  OBVIOUS
<1>3. CASE d \in S
  <2>1. Disturbed(S)[d] = [call[d] EXCEPT !.alone = FALSE]
    BY <1>3 DEF Disturbed
  <2> QED
    BY <1>1, <1>2, <2>1
<1>4. CASE d \notin S
  <2>1. Disturbed(S)[d] = call[d]
    BY <1>4 DEF Disturbed
  <2> QED
    BY <2>1
<1> QED
  BY <1>3, <1>4

(* An execution in progress moves on with its approval.                    *)
Continues(c) ==
  /\ call[c].step \in Executing \ {"record"}
  /\ call'[c].step \in Executing
  /\ call'[c].approval = call[c].approval

Approving(u, a) == [Idle EXCEPT !.step = "approve", !.approval = a, !.user = u]
Getting(a) == [Idle EXCEPT !.step = "get", !.approval = a]
Answering(a, e) == [Idle EXCEPT !.step = "answer", !.approval = a, !.execution = e]

(* What calls begin with.                                                   *)
LEMMA StartedFields ==
  /\ Idle.step = "idle" /\ Idle.approval = None
  /\ \A u, a : /\ Approving(u, a).step = "approve" /\ Approving(u, a).approval = a
               /\ Approving(u, a).user = u
  /\ \A a : Getting(a).step = "get" /\ Getting(a).approval = a
  /\ \A a, e : /\ Answering(a, e).step = "answer" /\ Answering(a, e).approval = a
               /\ Answering(a, e).execution = e
  BY DEF Idle, Approving, Getting, Answering

(* A step of a call is its own.                                             *)
LEMMA CallMoves ==
  ASSUME TypeOK, NEW c \in Call, CallStep(c)
  PROVE  /\ \A d \in Call \ {c} : SameCall(d)
         /\ \/ call'[c] = Idle
            \/ Continues(c)
            \/ \E u \in User, a \in Approval :
                 /\ StartApprove(c, u, a)
                 /\ call'[c] = Approving(u, a)
            \/ \E a \in Approval :
                 /\ StartExecute(c, a)
                 /\ call'[c] = Getting(a)
            \/ \E a \in Approval, e \in Execution :
                 /\ call'[c] = Answering(a, e)
                 /\ executions'[e].approval = a
<1>0. /\ call \in [Call -> CallState] /\ call[c] \in CallState
      /\ executions \in [Execution -> ExecutionRow]
      /\ call[c].step # "idle" => call[c].approval \in Approval
  BY DEF TypeOK, CallState
<1>1. ASSUME NEW s, \/ call' = [call EXCEPT ![c] = s]
                    \/ \E S : call' = [Disturbed(S) EXCEPT ![c] = s]
      PROVE  call'[c] = s /\ \A d \in Call \ {c} : SameCall(d)
  <2>1. CASE call' = [call EXCEPT ![c] = s]
    BY <1>0, <2>1 DEF SameCall
  <2>2. ASSUME NEW S, call' = [Disturbed(S) EXCEPT ![c] = s]
        PROVE  call'[c] = s /\ \A d \in Call \ {c} : SameCall(d)
    <3>1. call'[c] = s /\ \A d \in Call \ {c} : call'[d] = Disturbed(S)[d]
      BY <2>2 DEF Disturbed
    <3> QED
      BY <1>0, <3>1, DisturbedSame DEF SameCall
  <2> QED
    BY <1>1, <2>1, <2>2
<1> DEFINE got == [call[c] EXCEPT !.step = "reset", !.before = fault, !.alone = TRUE]
           did == [call[c] EXCEPT !.step = "verify", !.applied = TRUE]
           res == [call[c] EXCEPT !.step = "restore"]
           ret == [call[c] EXCEPT !.step = "retry"]
<1>2. /\ got.step = "reset" /\ got.approval = call[c].approval
      /\ did.step = "verify" /\ did.approval = call[c].approval
      /\ res.step = "restore" /\ res.approval = call[c].approval
      /\ ret.step = "retry" /\ ret.approval = call[c].approval
  BY <1>0 DEF CallState
<1>3. \A o, r, b : Return(c, o, r, b).step = "record" /\ Return(c, o, r, b).approval = call[c].approval
  BY <1>0 DEF Return, CallState
<1> HIDE DEF got, did, res, ret
<1>5. CASE GetFaultState(c)
  <2>1. \/ call' = [call EXCEPT ![c] = got]
        \/ call' = [call EXCEPT ![c] = Return(c, "FAILED", "none", FALSE)]
    BY <1>5 DEF GetFaultState, got
  <2>2. call[c].step \in Executing \ {"record"}
    BY <1>5 DEF GetFaultState, Executing
  <2>3. call'[c] \in {got, Return(c, "FAILED", "none", FALSE)} /\ \A d \in Call \ {c} : SameCall(d)
    BY <1>1, <2>1
  <2>4. Continues(c)
    BY <1>2, <1>3, <2>2, <2>3 DEF Continues, Executing
  <2> QED
    BY <2>3, <2>4
<1>6. CASE ResetInventoryFault(c)
  <2>1. \/ call' = [Disturbed(Call \ {c}) EXCEPT ![c] = did]
        \/ call' = [Disturbed(Call \ {c}) EXCEPT ![c] = Return(c, "FAILED", "none", TRUE)]
        \/ call' = [call EXCEPT ![c] = Return(c, "FAILED", "none", FALSE)]
    BY <1>6 DEF ResetInventoryFault, did
  <2>2. call[c].step \in Executing \ {"record"}
    BY <1>6 DEF ResetInventoryFault, Executing
  <2>3. (call'[c] = did \/ \E o, r, b : call'[c] = Return(c, o, r, b)) /\ \A d \in Call \ {c} : SameCall(d)
    BY <1>1, <2>1
  <2>4. Continues(c)
    BY <1>2, <1>3, <2>2, <2>3 DEF Continues, Executing
  <2> QED
    BY <2>3, <2>4
<1>7. CASE VerifyOrderFlow(c)
  <2>1. \/ call' = [call EXCEPT ![c] = Return(c, "SUCCEEDED", "none", TRUE)]
        \/ call' = [call EXCEPT ![c] = res]
        \/ call' = [call EXCEPT ![c] = ret]
    BY <1>7 DEF VerifyOrderFlow, res, ret
  <2>2. call[c].step \in Executing \ {"record"}
    BY <1>7 DEF VerifyOrderFlow, Executing
  <2>3. call'[c] \in {res, ret, Return(c, "SUCCEEDED", "none", TRUE)} /\ \A d \in Call \ {c} : SameCall(d)
    BY <1>1, <2>1
  <2>4. Continues(c)
    BY <1>2, <1>3, <2>2, <2>3 DEF Continues, Executing
  <2> QED
    BY <2>3, <2>4
<1>8. CASE RestoreFaultState(c) \/ RestoreAfterError(c)
  <2>1. \/ call' = [call EXCEPT ![c] = ret]
        \/ call' = [Disturbed(Call \ {c}) EXCEPT ![c] = ret]
        \/ \E o, r : \/ call' = [call EXCEPT ![c] = Return(c, o, r, TRUE)]
                      \/ call' = [Disturbed(Call \ {c}) EXCEPT ![c] = Return(c, o, r, TRUE)]
    BY <1>8 DEF RestoreFaultState, RestoreAfterError, ret
  <2>2. call[c].step \in Executing \ {"record"}
    BY <1>8 DEF RestoreFaultState, RestoreAfterError, Executing
  <2>3. (call'[c] = ret \/ \E o, r : call'[c] = Return(c, o, r, TRUE)) /\ \A d \in Call \ {c} : SameCall(d)
    BY <1>1, <2>1
  <2>4. Continues(c)
    BY <1>2, <1>3, <2>2, <2>3 DEF Continues, Executing
  <2> QED
    BY <2>3, <2>4
<1>9. ASSUME NEW u \in User, NEW a \in Approval, StartApprove(c, u, a)
       PROVE  /\ \A d \in Call \ {c} : SameCall(d)
              /\ call'[c] = Approving(u, a)
  BY <1>1, <1>9 DEF StartApprove, Approving
<1>10. ASSUME NEW a \in Approval, StartExecute(c, a)
       PROVE  /\ \A d \in Call \ {c} : SameCall(d)
              /\ \/ call'[c] = Getting(a)
                 \/ \E e \in Execution :
                      /\ call'[c] = Answering(a, e)
                      /\ executions'[e].approval = a
  BY <1>1, <1>10 DEF StartExecute, tables, Getting, Answering
<1>11. CASE Record(c)
  <2>1. CASE call' = [call EXCEPT ![c] = Idle]
    BY <1>1, <2>1
  <2>2. ASSUME NEW e \in Execution,
               executions' = [executions EXCEPT ![e] =
                 [approval |-> call[c].approval, status |-> call[c].status,
                  rollback |-> call[c].rollback, applied |-> call[c].applied]],
               call' = [call EXCEPT ![c] =
                 Answering(call[c].approval, e)]
        PROVE  /\ \A d \in Call \ {c} : SameCall(d)
               /\ call'[c] = Answering(call[c].approval, e)
               /\ executions'[e].approval = call[c].approval
    BY <1>0, <1>1, <2>2
  <2>3. call[c].approval \in Approval
    BY <1>0, <1>11 DEF Record
  <2> QED
    BY <1>11, <2>1, <2>2, <2>3 DEF Record, Answering
<1>12. CASE Approve(c) \/ Answer(c) \/ CallStops(c)
  BY <1>1, <1>12 DEF Approve, Answer, CallStops
<1> QED
  BY <1>5, <1>6, <1>7, <1>8, <1>9, <1>10, <1>11, <1>12 DEF CallStep, ExecuteStep

-----------------------------------------------------------------------------
(* The row of an approved recovery never changes again.                    *)
THEOREM ApprovalStays == Spec => ApprovalIsFinal
<1>1. TypeOK /\ [Next]_vars => [ApprovedRowStays]_vars
  <2> SUFFICES ASSUME TypeOK, Next, NEW a \in Approval, approvals[a].status = "APPROVED"
               PROVE  approvals'[a] = approvals[a]
    BY DEF ApprovedRowStays
  <2>0. approvals \in [Approval -> ApprovalRow]
    BY DEF TypeOK
  <2>1. ASSUME NEW u \in User, NEW i \in Incident, NEW r \in Run, NEW x \in Approval,
               RequestRecovery(u, i, r, x)
        PROVE  approvals'[a] = approvals[a]
    BY <2>0, <2>1 DEF RequestRecovery
  <2>2. ASSUME NEW c \in Call, Approve(c)
        PROVE  approvals'[a] = approvals[a]
    BY <2>0, <2>2 DEF Approve
  <2>3. ASSUME NEW c \in Call, CallStep(c), ~Approve(c)
        PROVE  approvals' = approvals
    BY <2>3 DEF CallStep, ExecuteStep, StartApprove, StartExecute, GetFaultState, ResetInventoryFault,
                VerifyOrderFlow, RestoreFaultState, RestoreAfterError, Record, Answer, CallStops, tables
  <2> QED
    BY <2>1, <2>2, <2>3 DEF Next, Verify, LabUse, tables
<1> QED
  BY <1>1, Typing, PTL DEF Spec, ApprovalIsFinal

-----------------------------------------------------------------------------
(* The unique key of the executions makes all answers agree.               *)
LedgerInv ==
  /\ \A e, f \in Execution :
       executions[e].approval = executions[f].approval /\ executions[e].approval # None => e = f
  /\ \A c \in Call :
       call[c].step = "answer" => executions[call[c].execution].approval = call[c].approval
  /\ \A a \in Approval, e \in Execution : <<a, e>> \in answers => executions[e].approval = a

(* Every step keeps the ledger of executions.                               *)
LEMMA LedgerStep == TypeOK /\ LedgerInv /\ [Next]_vars => LedgerInv'
<1> SUFFICES ASSUME TypeOK, LedgerInv, [Next]_vars PROVE LedgerInv'
  OBVIOUS
<1>0. /\ executions \in [Execution -> ExecutionRow]
      /\ \A c \in Call : call[c].step = "answer" => /\ call[c].execution \in Execution
                                                    /\ call[c].approval \in Approval
  BY DEF TypeOK, CallState
<1>1. ASSUME UNCHANGED <<executions, answers>>,
             \A c \in Call : call'[c].step = "answer" =>
               /\ call'[c].execution = call[c].execution /\ call'[c].approval = call[c].approval
               /\ call[c].step = "answer"
      PROVE  LedgerInv'
  BY <1>1 DEF LedgerInv
<1>2. ASSUME NEW c \in Call, CallStep(c)
      PROVE  LedgerInv'
  <2>1. \/ executions' = executions
        \/ \E e \in Execution :
             /\ executions[e].approval = None
             /\ ~Executed(executions'[e].approval)
             /\ \A f \in Execution : f # e => executions'[f] = executions[f]
    <3>1. CASE Record(c)
      <4>1. CASE UNCHANGED executions
        BY <4>1
      <4>2. ASSUME NEW e \in Execution, executions[e] = NoExecution, ~Executed(call[c].approval),
                   executions' = [executions EXCEPT ![e] =
                     [approval |-> call[c].approval, status |-> call[c].status,
                      rollback |-> call[c].rollback, applied |-> call[c].applied]]
            PROVE  /\ executions[e].approval = None
                   /\ ~Executed(executions'[e].approval)
                   /\ \A f \in Execution : f # e => executions'[f] = executions[f]
        <5>1. executions[e].approval = None
          BY <4>2 DEF NoExecution
        <5>2. executions'[e].approval = call[c].approval
          BY <1>0, <4>2
        <5> QED
          BY <1>0, <4>2, <5>1, <5>2
      <4> QED
        BY <3>1, <4>1, <4>2 DEF Record
    <3>2. CASE ~Record(c)
      BY <1>2, <3>2
         DEF CallStep, ExecuteStep, StartApprove, Approve, StartExecute, GetFaultState,
             ResetInventoryFault, VerifyOrderFlow, RestoreFaultState, RestoreAfterError, Answer,
             CallStops, tables
    <3> QED
      BY <3>1, <3>2
  <2>2. \A e \in Execution :
          executions[e].approval # None => executions'[e].approval = executions[e].approval
    BY <2>1
  <2>3. \A e, f \in Execution :
          executions'[e].approval = executions'[f].approval /\ executions'[e].approval # None => e = f
    BY <2>1 DEF Executed, LedgerInv
  <2>4. \A d \in Call :
          call'[d].step = "answer" => executions'[call'[d].execution].approval = call'[d].approval
    <3> TAKE d \in Call
    <3>1. CASE d # c
      <4>1. SameCall(d)
        BY <1>2, <3>1, CallMoves
      <4>2. call[d].step = "answer" => executions[call[d].execution].approval = call[d].approval
                                       /\ call[d].approval # None
        BY <1>0, RecoveryAssumption DEF LedgerInv
      <4> QED
        BY <1>0, <2>2, <4>1, <4>2 DEF SameCall
    <3>2. CASE d = c
      <4>1. Continues(c) => call'[c].step # "answer"
        BY DEF Continues, Executing
      <4> QED
        BY <1>2, <3>2, <4>1, CallMoves, StartedFields
    <3> QED
      BY <3>1, <3>2
  <2>5. \A a \in Approval, e \in Execution : <<a, e>> \in answers' => executions'[e].approval = a
    <3> SUFFICES ASSUME NEW a \in Approval, NEW e \in Execution, <<a, e>> \in answers'
                 PROVE  executions'[e].approval = a
      OBVIOUS
    <3>1. <<a, e>> \in answers \/ executions[e].approval = a
      <4>1. CASE Answer(c)
        <5>1. \/ <<a, e>> \in answers
              \/ <<a, e>> = <<call[c].approval, call[c].execution>>
          BY <4>1 DEF Answer
        <5> QED
          BY <4>1, <5>1 DEF Answer, LedgerInv
      <4>2. CASE ~Answer(c)
        BY <1>2, <4>2
           DEF CallStep, ExecuteStep, StartApprove, Approve, StartExecute, GetFaultState,
               ResetInventoryFault, VerifyOrderFlow, RestoreFaultState, RestoreAfterError, Record,
               CallStops, history
      <4> QED
        BY <4>1, <4>2
    <3> QED
      BY <2>2, <3>1, RecoveryAssumption DEF LedgerInv
  <2> QED
    BY <2>3, <2>4, <2>5 DEF LedgerInv
<1>3. ASSUME NEW m \in Mode, LabUse(m)
      PROVE  LedgerInv'
  <2>1. call \in [Call -> CallState]
    BY DEF TypeOK
  <2> QED
    BY <1>1, <1>3, <2>1, DisturbedSame DEF LabUse, tables, history
<1>4. CASE UNCHANGED vars
  BY <1>1, <1>4 DEF vars, tables, history
<1> QED
  BY <1>1, <1>2, <1>3, <1>4 DEF Next, Verify, RequestRecovery, history

(* All successful answers of execute for one approval name one execution.  *)
THEOREM OneExecution == Spec => []AnswersAgree
<1>1. Init => LedgerInv
  BY DEF Init, NoExecution, Idle, LedgerInv
<1>2. TypeOK /\ LedgerInv => AnswersAgree
  <2> SUFFICES ASSUME TypeOK, LedgerInv, NEW x \in answers, NEW y \in answers
               PROVE  /\ executions[x[2]].approval = x[1]
                      /\ x[1] = y[1] => x[2] = y[2]
    BY DEF AnswersAgree
  <2>1. /\ x = <<x[1], x[2]>> /\ x[1] \in Approval /\ x[2] \in Execution
        /\ y = <<y[1], y[2]>> /\ y[1] \in Approval /\ y[2] \in Execution
    BY DEF TypeOK
  <2>2. executions[x[2]].approval = x[1] /\ executions[y[2]].approval = y[1]
    BY <2>1 DEF LedgerInv
  <2> QED
    BY <2>1, <2>2, RecoveryAssumption DEF LedgerInv
<1> QED
  BY <1>1, <1>2, LedgerStep, Typing, PTL DEF Spec

-----------------------------------------------------------------------------
(* Whoever executes has found the approval approved, and whoever approves  *)
(* has found that the request is not his own; neither goes stale.          *)
ApprovalInv ==
  /\ \A a \in Approval : approvals[a].status # "ABSENT" =>
       /\ approvals[a].run \in Run /\ report[approvals[a].run] = approvals[a].incident
       /\ approvals[a].incident \in Incident
  /\ \A a \in Approval : approvals[a].status = "APPROVED" =>
       approvals[a].approvedBy \in User \ {approvals[a].requestedBy}
  /\ \A c \in Call : call[c].step = "approve" =>
       /\ approvals[call[c].approval].status # "ABSENT"
       /\ call[c].user \in User \ {approvals[call[c].approval].requestedBy}
  /\ \A c \in Call : call[c].step \in Executing =>
       approvals[call[c].approval].status = "APPROVED"
  /\ \A a \in Approval : resets[a] > 0 \/ Executed(a) => approvals[a].status = "APPROVED"

(* Every step keeps what approvals vouch for.                               *)
LEMMA ApprovalStep == TypeOK /\ ApprovalInv /\ [Next]_vars => ApprovalInv'
<1> SUFFICES ASSUME TypeOK, ApprovalInv, [Next]_vars PROVE ApprovalInv'
  OBVIOUS
<1>0. /\ approvals \in [Approval -> ApprovalRow]
      /\ call \in [Call -> CallState]
      /\ report \in [Run -> Incident \cup {None}]
      /\ \A c \in Call : call[c].step \in Executing \cup {"approve"} => call[c].approval \in Approval
  BY DEF TypeOK, CallState, Executing
<1>1. ASSUME NEW c \in Call, CallStep(c)
      PROVE  ApprovalInv'
  <2>1. report' = report
    BY <1>1 DEF CallStep, ExecuteStep, StartApprove, Approve, StartExecute, GetFaultState,
                ResetInventoryFault, VerifyOrderFlow, RestoreFaultState, RestoreAfterError, Record,
                Answer, CallStops, tables
  <2>2. \A a \in Approval :
          \/ approvals'[a] = approvals[a]
          \/ /\ approvals[a].status = "PENDING" /\ approvals'[a].status = "APPROVED"
             /\ approvals'[a].run = approvals[a].run
             /\ approvals'[a].incident = approvals[a].incident
             /\ approvals'[a].requestedBy = approvals[a].requestedBy
             /\ approvals'[a].approvedBy \in User \ {approvals[a].requestedBy}
    <3>1. CASE Approve(c)
      <4>1. \A u : \A row \in ApprovalRow : LET t == [row EXCEPT !.status = "APPROVED", !.approvedBy = u]
                                           IN  /\ t.status = "APPROVED" /\ t.run = row.run
                                               /\ t.incident = row.incident
                                               /\ t.requestedBy = row.requestedBy
                                               /\ t.approvedBy = u
        BY DEF ApprovalRow
      <4>2. CASE UNCHANGED approvals
        BY <4>2
      <4>3. CASE approvals' = [approvals EXCEPT ![call[c].approval] =
                   [approvals[call[c].approval] EXCEPT !.status = "APPROVED", !.approvedBy = call[c].user]]
                 /\ approvals[call[c].approval].status = "PENDING"
        <5>1. /\ call[c].approval \in Approval
              /\ call[c].user \in User \ {approvals[call[c].approval].requestedBy}
          BY <1>0, <3>1 DEF Approve, ApprovalInv
        <5> QED
          BY <1>0, <4>1, <4>3, <5>1
      <4> QED
        BY <3>1, <4>2, <4>3 DEF Approve
    <3>2. CASE ~Approve(c)
      BY <1>1, <3>2
         DEF CallStep, ExecuteStep, StartApprove, StartExecute, GetFaultState, ResetInventoryFault,
             VerifyOrderFlow, RestoreFaultState, RestoreAfterError, Record, Answer, CallStops, tables
    <3> QED
      BY <3>1, <3>2
  <2>3. \A a \in Approval : approvals[a].status = "APPROVED" => approvals'[a].status = "APPROVED"
    BY <2>2
  <2>4. \A d \in Call :
          /\ call'[d].step = "approve" =>
               /\ approvals'[call'[d].approval].status # "ABSENT"
               /\ call'[d].user \in User \ {approvals'[call'[d].approval].requestedBy}
          /\ call'[d].step \in Executing => approvals'[call'[d].approval].status = "APPROVED"
    <3> TAKE d \in Call
    <3>1. CASE d # c
      <4>1. SameCall(d)
        BY <1>1, <3>1, CallMoves
      <4>2. CASE call[d].step \in Executing \cup {"approve"}
        <5>1. call[d].approval \in Approval
          BY <1>0, <4>2
        <5> QED
          BY <2>2, <4>1, <5>1 DEF ApprovalInv, SameCall
      <4>3. CASE call[d].step \notin Executing \cup {"approve"}
        BY <4>1, <4>3 DEF SameCall
      <4> QED
        BY <4>2, <4>3
    <3>2. CASE d = c
      <4>1. CASE Continues(c)
        <5>1. /\ call[c].step \in Executing /\ call'[c].approval = call[c].approval
              /\ call'[c].step # "approve" /\ call[c].approval \in Approval
          BY <1>0, <4>1 DEF Continues, Executing
        <5> QED
          BY <2>3, <3>2, <5>1 DEF ApprovalInv
      <4>2. ASSUME NEW u \in User, NEW a \in Approval, StartApprove(c, u, a), call'[c] = Approving(u, a)
            PROVE  /\ approvals'[a].status # "ABSENT"
                   /\ u \in User \ {approvals'[a].requestedBy}
        BY <2>2, <4>2 DEF StartApprove
      <4>3. ASSUME NEW a \in Approval, StartExecute(c, a)
            PROVE  approvals'[a].status = "APPROVED"
        BY <2>3, <4>3 DEF StartExecute
      <4> QED
        BY <1>1, <3>2, <4>1, <4>2, <4>3, CallMoves, StartedFields DEF Executing
    <3> QED
      BY <3>1, <3>2
  <2>5. ASSUME NEW a \in Approval, resets'[a] > 0 \/ Executed(a)'
        PROVE  approvals'[a].status = "APPROVED"
    <3>1. CASE ResetInventoryFault(c)
      <4>1. /\ resets'[a] = resets[a] \/ a = call[c].approval
            /\ executions' = executions /\ approvals' = approvals
        BY <3>1 DEF ResetInventoryFault, tables, TypeOK
      <4>2. approvals[call[c].approval].status = "APPROVED"
        BY <3>1 DEF ResetInventoryFault, ApprovalInv, Executing
      <4> QED
        BY <2>5, <4>1, <4>2 DEF Executed, ApprovalInv
    <3>2. CASE Record(c)
      <4>0. UNCHANGED <<approvals, resets>>
        BY <3>2 DEF Record, history
      <4>1. Executed(a)' => (Executed(a) \/ a = call[c].approval)
        <5>1. CASE UNCHANGED executions
          BY <5>1 DEF Executed
        <5>2. ASSUME NEW e \in Execution,
                     executions' = [executions EXCEPT ![e] =
                       [approval |-> call[c].approval, status |-> call[c].status,
                        rollback |-> call[c].rollback, applied |-> call[c].applied]]
              PROVE  Executed(a)' => (Executed(a) \/ a = call[c].approval)
          <6> DEFINE row == [approval |-> call[c].approval, status |-> call[c].status,
                             rollback |-> call[c].rollback, applied |-> call[c].applied]
          <6>1. row.approval = call[c].approval
            OBVIOUS
          <6> HIDE DEF row
          <6>2. executions \in [Execution -> ExecutionRow] /\ executions' = [executions EXCEPT ![e] = row]
            BY <1>0, <5>2 DEF TypeOK, row
          <6>3. \A f \in Execution : executions'[f] = executions[f] \/ executions'[f] = row
            BY <6>2
          <6> QED
            BY <6>1, <6>3 DEF Executed
        <5> QED
          BY <3>2, <5>1, <5>2 DEF Record
      <4>2. approvals[call[c].approval].status = "APPROVED"
        BY <3>2 DEF Record, ApprovalInv, Executing
      <4> QED
        BY <2>5, <4>0, <4>1, <4>2 DEF ApprovalInv
    <3>3. CASE ~ResetInventoryFault(c) /\ ~Record(c)
      <4>1. UNCHANGED <<executions, resets>>
        BY <1>1, <3>3
           DEF CallStep, ExecuteStep, StartApprove, Approve, StartExecute, GetFaultState,
               VerifyOrderFlow, RestoreFaultState, RestoreAfterError, Answer, CallStops, tables, history
      <4> QED
        BY <2>3, <2>5, <4>1 DEF Executed, ApprovalInv
    <3> QED
      BY <3>1, <3>2, <3>3
  <2> QED
    BY <2>1, <2>2, <2>4, <2>5 DEF ApprovalInv
<1>2. ASSUME NEW m \in Mode, LabUse(m)
      PROVE  ApprovalInv'
  <2>1. \A d \in Call : SameCall(d)
    BY <1>0, <1>2, DisturbedSame DEF LabUse, SameCall
  <2> QED
    BY <1>2, <2>1 DEF LabUse, tables, history, SameCall, ApprovalInv, Executed
<1>3. ASSUME NEW r \in Run, NEW i \in Incident, Verify(r, i)
      PROVE  ApprovalInv'
  <2>1. \A q \in Run : report[q] \in Incident => report'[q] = report[q]
    BY <1>0, <1>3, RecoveryAssumption DEF Verify
  <2> QED
    BY <1>3, <2>1 DEF Verify, history, ApprovalInv, Executed
<1>4. ASSUME NEW u \in User, NEW i \in Incident, NEW r \in Run, NEW a \in Approval,
             RequestRecovery(u, i, r, a)
      PROVE  ApprovalInv'
  <2>1. /\ approvals[a].status = "ABSENT"
        /\ approvals'[a] = [status |-> "PENDING", incident |-> i, run |-> r,
                            requestedBy |-> u, approvedBy |-> None]
        /\ \A x \in Approval : x # a => approvals'[x] = approvals[x]
        /\ UNCHANGED <<report, executions, call, resets>> /\ report[r] = i
    BY <1>0, <1>4 DEF RequestRecovery, history
  <2>2. \A c \in Call : call[c].step \in Executing \cup {"approve"} =>
          call[c].approval # a /\ call[c].approval \in Approval
    BY <1>0, <2>1 DEF ApprovalInv
  <2>3. ~(resets[a] > 0 \/ Executed(a))
    BY <2>1 DEF ApprovalInv
  <2> QED
    BY <2>1, <2>2, <2>3 DEF ApprovalInv, Executed
<1>5. CASE UNCHANGED vars
  BY <1>5 DEF vars, tables, history, ApprovalInv, Executed
<1> QED
  BY <1>1, <1>2, <1>3, <1>4, <1>5 DEF Next

(* The lab is touched, and an execution recorded, only for an approval     *)
(* that a second person gave for the incident of a verified report.        *)
THEOREM OnlyWhenApproved == Spec => []ActsOnlyWhenApproved
<1>1. Init => ApprovalInv
  BY RecoveryAssumption DEF Init, NoApproval, NoExecution, Idle, Executing, Executed, ApprovalInv
<1>2. ApprovalInv => ActsOnlyWhenApproved
  BY DEF ApprovalInv, ActsOnlyWhenApproved
<1> QED
  BY <1>1, <1>2, ApprovalStep, Typing, PTL DEF Spec

-----------------------------------------------------------------------------
(* What an executor that nobody has disturbed knows of the fault: between  *)
(* its requests it stays as this executor read it or left it, so that what *)
(* it reports is so.                                                       *)
Told(s) ==
  /\ s.status = "SUCCEEDED" => fault = "none"
  /\ s.status = "ROLLED_BACK" => s.rollback = "restored"
  /\ s.rollback = "restored" \/ ~s.applied => fault = s.before

Sure(s) ==
  s.alone =>
    /\ s.step # "get"
    /\ s.step = "reset" => fault = s.before
    /\ s.step = "verify" => fault = "none"
    /\ s.step = "record" => Told(s)

SureInv == \A c \in Call : Sure(call[c])

(* A step that moves call c to the state s, and sets no fault or disturbs  *)
(* the other calls.                                                        *)
LEMMA SureMoves ==
  ASSUME TypeOK, SureInv, NEW c \in Call, NEW s, Sure(s)',
         \/ call' = [call EXCEPT ![c] = s] /\ fault' = fault
         \/ call' = [Disturbed(Call \ {c}) EXCEPT ![c] = s]
  PROVE  SureInv'
<1>0. call \in [Call -> CallState]
  BY DEF TypeOK
<1>1. call'[c] = s
  BY <1>0 DEF Disturbed
<1>2. ASSUME NEW d \in Call \ {c}
      PROVE  (call'[d] = call[d] /\ fault' = fault) \/ call'[d].alone = FALSE
  <2>1. CASE call' = [call EXCEPT ![c] = s] /\ fault' = fault
    BY <1>0, <2>1
  <2>2. CASE call' = [Disturbed(Call \ {c}) EXCEPT ![c] = s]
    <3>1. call'[d] = [call[d] EXCEPT !.alone = FALSE]
      BY <1>0, <2>2 DEF Disturbed
    <3> QED
      BY <1>0, <3>1 DEF CallState
  <2> QED
    BY <2>1, <2>2
<1>3. ASSUME NEW d \in Call
      PROVE  Sure(call[d])'
  <2>1. CASE d = c
    BY <1>1, <2>1 DEF Sure, Told
  <2>2. CASE d # c
    BY <1>2, <2>2 DEF SureInv, Sure, Told
  <2> QED
    BY <2>1, <2>2
<1> QED
  BY <1>3 DEF SureInv

(* Every step keeps what the undisturbed executors know.                   *)
LEMMA SureStep == TypeOK /\ SureInv /\ [Next]_vars => SureInv'
<1> SUFFICES ASSUME TypeOK, SureInv, [Next]_vars
             PROVE  SureInv'
  OBVIOUS
<1>1. CASE UNCHANGED <<call, fault>>
  BY <1>1 DEF SureInv, Sure, Told
<1>2. ASSUME NEW m \in Mode, LabUse(m)
      PROVE  SureInv'
  <2>1. ASSUME NEW d \in Call
        PROVE  call'[d].alone = FALSE
    <3>1. call'[d] = [call[d] EXCEPT !.alone = FALSE]
      BY <1>2 DEF LabUse, Disturbed, TypeOK
    <3> QED
      BY <3>1 DEF CallState, TypeOK
  <2> QED
    BY <2>1 DEF SureInv, Sure
<1>3. ASSUME NEW c \in Call, NEW s, ~s.alone, call' = [call EXCEPT ![c] = s], fault' = fault
      PROVE  SureInv'
  <2>1. Sure(s)'
    BY <1>3 DEF Sure
  <2> QED
    BY <1>3, <2>1, SureMoves
<1>4. ASSUME NEW c \in Call, NEW a \in Approval,
             StartExecute(c, a) \/ \E u \in User : StartApprove(c, u, a)
      PROVE  SureInv'
  <2>1. ~Idle.alone
    BY DEF Idle
  <2>2. /\ \A u \in User : ~Approving(u, a).alone
        /\ \A e \in Execution : ~Answering(a, e).alone
        /\ ~Getting(a).alone
    BY <2>1 DEF Approving, Answering, Getting, Idle
  <2>3. CASE StartExecute(c, a)
    BY <1>3, <2>2, <2>3 DEF StartExecute, Answering, Getting
  <2>4. CASE \E u \in User : StartApprove(c, u, a)
    BY <1>3, <2>2, <2>4 DEF StartApprove, Approving
  <2> QED
    BY <1>4, <2>3, <2>4
<1>5. ASSUME NEW c \in Call, Approve(c) \/ Answer(c) \/ CallStops(c) \/ Record(c)
      PROVE  SureInv'
  <2>1. fault' = fault
    BY <1>5 DEF Approve, Answer, CallStops, Record
  <2>2. ~Idle.alone /\ \A a, e : ~Answering(a, e).alone
    BY DEF Idle, Answering
  <2>3. CASE call' = [call EXCEPT ![c] = Idle]
    BY <1>3, <2>1, <2>2, <2>3
  <2>4. CASE \E e \in Execution : call' = [call EXCEPT ![c] = Answering(call[c].approval, e)]
    BY <1>3, <2>1, <2>2, <2>4
  <2> QED
    BY <1>5, <2>3, <2>4 DEF Approve, Answer, CallStops, Record, Answering
<1>6. ASSUME NEW c \in Call, GetFaultState(c)
      PROVE  SureInv'
  <2>1. /\ fault' = fault /\ call[c].step = "get" /\ ~call[c].alone
    BY <1>6 DEF GetFaultState, SureInv, Sure
  <2>2. PICK s : s = [call[c] EXCEPT !.step = "reset", !.before = fault, !.alone = TRUE]
    OBVIOUS
  <2>3. s.step = "reset" /\ s.before = fault
    BY <2>2 DEF CallState, TypeOK
  <2>4. Sure(s)'
    BY <2>1, <2>3 DEF Sure
  <2>5. PICK t : t = Return(c, "FAILED", "none", FALSE)
    OBVIOUS
  <2>6. ~t.alone
    BY <1>6, <2>1, <2>5 DEF TypeOK, CallState, Return
  <2>7. call' = [call EXCEPT ![c] = s] \/ call' = [call EXCEPT ![c] = t]
    BY <1>6, <2>2, <2>5 DEF GetFaultState
  <2> QED
    BY <1>3, <2>1, <2>4, <2>6, <2>7, SureMoves
<1>7. ASSUME NEW c \in Call, ResetInventoryFault(c)
      PROVE  SureInv'
  <2>1. call[c].step = "reset" /\ (call[c].alone => fault = call[c].before)
    BY <1>7 DEF ResetInventoryFault, SureInv, Sure
  <2>2. PICK s : s = [call[c] EXCEPT !.step = "verify", !.applied = TRUE]
    OBVIOUS
  <2>3. s.step = "verify"
    BY <2>2 DEF CallState, TypeOK
  <2>4. PICK t : t = Return(c, "FAILED", "none", TRUE)
    OBVIOUS
  <2>5. PICK u : u = Return(c, "FAILED", "none", FALSE)
    OBVIOUS
  <2>6. /\ t.step = "record" /\ t.status = "FAILED" /\ t.rollback = "none" /\ t.applied = TRUE
    BY <1>7, <2>4 DEF TypeOK, CallState, Return
  <2>7. /\ u.step = "record" /\ u.status = "FAILED" /\ u.rollback = "none" /\ u.applied = FALSE
        /\ u.before = call[c].before /\ u.alone = call[c].alone
    BY <1>7, <2>5 DEF TypeOK, CallState, Return
  <2>8. \/ fault' = "none" /\ call' = [Disturbed(Call \ {c}) EXCEPT ![c] = s]
        \/ fault' = "none" /\ call' = [Disturbed(Call \ {c}) EXCEPT ![c] = t]
        \/ fault' = fault /\ call' = [call EXCEPT ![c] = u]
    BY <1>7, <2>2, <2>4, <2>5 DEF ResetInventoryFault
  <2>9. /\ fault' = "none" => Sure(s)'
        /\ Sure(t)'
        /\ fault' = fault => Sure(u)'
    BY <2>1, <2>3, <2>6, <2>7 DEF Sure, Told
  <2> QED
    BY <2>8, <2>9, SureMoves
<1>8. ASSUME NEW c \in Call, VerifyOrderFlow(c)
      PROVE  SureInv'
  <2>1. /\ call[c].step = "verify" /\ (call[c].alone => fault = "none")
        /\ fault' = fault
    BY <1>8 DEF VerifyOrderFlow, SureInv, Sure
  <2>2. PICK s : s = Return(c, "SUCCEEDED", "none", TRUE)
    OBVIOUS
  <2>3. /\ s.step = "record" /\ s.status = "SUCCEEDED" /\ s.rollback = "none" /\ s.applied = TRUE
        /\ s.alone = call[c].alone
    BY <1>8, <2>2 DEF TypeOK, CallState, Return
  <2>4. PICK t : t = [call[c] EXCEPT !.step = "restore"]
    OBVIOUS
  <2>5. PICK u : u = [call[c] EXCEPT !.step = "retry"]
    OBVIOUS
  <2>6. t.step = "restore" /\ u.step = "retry"
    BY <2>4, <2>5 DEF CallState, TypeOK
  <2>7. Sure(s)' /\ Sure(t)' /\ Sure(u)'
    BY <2>1, <2>3, <2>6 DEF Sure, Told
  <2>8. \/ call' = [call EXCEPT ![c] = s]
        \/ call' = [call EXCEPT ![c] = t]
        \/ call' = [call EXCEPT ![c] = u]
    BY <1>8, <2>2, <2>4, <2>5 DEF VerifyOrderFlow
  <2> QED
    BY <2>1, <2>7, <2>8, SureMoves
<1>9. ASSUME NEW c \in Call, RestoreFaultState(c) \/ RestoreAfterError(c)
      PROVE  SureInv'
  <2>1. PICK s : s = [call[c] EXCEPT !.step = "retry"]
    OBVIOUS
  <2>2. s.step = "retry"
    BY <2>1 DEF CallState, TypeOK
  <2>3. Sure(s)'
    BY <2>2 DEF Sure
  <2>4. ASSUME NEW o \in {"ROLLED_BACK", "FAILED"}, NEW t, t = Return(c, o, "restored", TRUE),
               fault' = call[c].before
        PROVE  Sure(t)'
    <3>1. /\ t.step = "record" /\ t.status = o /\ t.rollback = "restored"
          /\ t.before = call[c].before
      BY <1>9, <2>4 DEF TypeOK, CallState, Return
    <3> QED
      BY <2>4, <3>1 DEF Sure, Told
  <2>5. ASSUME NEW t, t = Return(c, "FAILED", "not restored", TRUE)
        PROVE  Sure(t)'
    <3>1. /\ t.step = "record" /\ t.status = "FAILED" /\ t.rollback = "not restored"
          /\ t.applied = TRUE
      BY <1>9, <2>5 DEF TypeOK, CallState, Return
    <3> QED
      BY <3>1 DEF Sure, Told
  <2>6. \E t :
          /\ \/ (call' = [call EXCEPT ![c] = t] /\ fault' = fault)
             \/ call' = [Disturbed(Call \ {c}) EXCEPT ![c] = t]
          /\ \/ t = s
             \/ (\E o \in {"ROLLED_BACK", "FAILED"} : t = Return(c, o, "restored", TRUE))
                /\ fault' = call[c].before
             \/ t = Return(c, "FAILED", "not restored", TRUE)
    BY <1>9, <2>1, Zenon DEF RestoreFaultState, RestoreAfterError
  <2> QED
    BY <2>3, <2>4, <2>5, <2>6, SureMoves
<1>10. ASSUME NEW c \in Call, CallStep(c)
       PROVE  SureInv'
  BY <1>4, <1>5, <1>6, <1>7, <1>8, <1>9, <1>10 DEF CallStep, ExecuteStep
<1> QED
  BY <1>1, <1>2, <1>10 DEF Next, Verify, RequestRecovery, vars

(* Unless somebody else set the fault meanwhile, what an executor reports  *)
(* of the lab is so.                                                       *)
THEOREM ReportedIsSo == Spec => []ReportedStateHolds
<1>1. Init => SureInv
  BY DEF Init, SureInv, Sure, Idle
<1>2. SureInv => ReportedStateHolds
  BY DEF SureInv, Sure, Told, ReportedStateHolds, Reported
<1> QED
  BY <1>1, <1>2, SureStep, Typing, PTL DEF Spec
===============================================================================
