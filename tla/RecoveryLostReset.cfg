SPECIFICATION Spec
CONSTANTS
  User = {u1, u2}
  Incident = {i1, i2}
  Run = {r1}
  Approval = {a1}
  Execution = {e1}
  Call = {c1, c2}
  None = None
  MaxFaults = 1
  MaxLabUses = 1
SYMMETRY Symmetry
INVARIANT RollbackRecorded
