CONSTANTS
  k1 = k1
  k2 = k2
  Capsule = {k1, k2}
  Lengths <- ShortTexts
  TotalChars = 130
  EvidenceChars = 110
  Overhead = 60
SPECIFICATION Spec
PROPERTY EndsWithinBudget
CHECK_DEADLOCK FALSE
