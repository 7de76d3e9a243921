CONSTANTS
  Sessions = {s1, s2}
  Agents = {a1, a2}
  MaxRequests = 2
  MaxCalls = 1
SPECIFICATION Spec
SYMMETRY Symmetry
INVARIANTS
  RotationNeverLocksOut
  DeadKeysOnlyFinish
  WizardIsHonest
PROPERTIES
  RotationIsExact
