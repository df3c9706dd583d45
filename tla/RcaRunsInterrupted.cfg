CONSTANTS
  i1 = i1
  i2 = i2
  e1 = e1
  e2 = e2
  r1 = r1
  c1 = c1
  c2 = c2
  c3 = c3
  None = None
  Incident = {i1}
  Id = {e1, e2}
  Run = {r1}
  Call = {c1, c2}
  MaxFaults = 1
SPECIFICATION Spec
SYMMETRY CallSymmetry
INVARIANTS InterruptedResumable
CHECK_DEADLOCK FALSE
