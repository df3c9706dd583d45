SPECIFICATION Spec
CONSTANTS
  Incident = {i1, i2, i3}
  Key = {k1, k2}
  Body = {b1, b2}
  Relay = {w1}
  Caller = {c1, c2, c3}
  None = None
  BatchLimit = 1
SYMMETRY Symmetry
INVARIANT TypeOK
INVARIANT OneIncidentPerKey
INVARIANT NoFalseConflict
INVARIANT AnswersStand
