CONSTANTS
  i1 = i1
  e1 = e1
  e2 = e2
  e3 = e3
  c1 = c1
  c2 = c2
  x1 = x1
  x2 = x2
  None = None
  Torn = Torn
  Incident = {i1}
  Id = {e1, e2, e3}
  Call = {c1, c2}
  Content = {x1, x2}
  Desired <- FirstDesired
  MaxFaults = 1
SPECIFICATION Spec
SYMMETRY EvidenceSymmetry
INVARIANTS TypeOK RowsBacked ServedIsObserved SelectionFillsGaps
CHECK_DEADLOCK FALSE
