SPECIFICATION Spec
CONSTANTS
  Incident = {i1, i2}
  Key = {k1, k2}
  Body = {b1}
  Relay = {w1,w2}
  Consumer = {c1}
  None = None
  BatchLimit = 2
  ReceiveLimit = 2
  MaxFaults = 1
PROPERTY FulfilsPromise
PROPERTY BacklogDrains
CHECK_DEADLOCK FALSE
