SPECIFICATION Spec
CONSTANTS
  User = {u1, u2, u3}
  Incident = {i1, i2}
  Run = {r1}
  Approval = {a1, a2}
  Execution = {e1, e2}
  Call = {c1, c2}
  None = None
  MaxFaults = 2
  MaxLabUses = 1
SYMMETRY Symmetry
INVARIANT TypeOK
INVARIANT ActsOnlyWhenApproved
INVARIANT AnswersAgree
INVARIANT ReportedStateHolds
PROPERTY ApprovalIsFinal
