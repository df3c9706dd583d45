SPECIFICATION Safety
CONSTANTS
  Incident = {i1, i2}
  Key = {k1, k2}
  Body = {b1}
  Relay = {w1, w2}
  Consumer = {c1, c2}
  None = None
  BatchLimit = 2
  ReceiveLimit = 1
  MaxFaults = 2
SYMMETRY Symmetry
INVARIANT TypeOK
INVARIANT AuditTrailAgrees
INVARIANT NoLostInvestigation
INVARIANT DuplicatesCountedAsAttempts
PROPERTY OnlyHolderSettles
PROPERTY PublishedIsFinal
PROPERTY KeepsPromise
CHECK_DEADLOCK FALSE
