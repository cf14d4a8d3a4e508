SPECIFICATION Spec
CONSTANTS
  Words = {w1, w2}
  Values = {v1, v2}
  Default <- MCDefault
  GenMod = 4
  Overlapping = FALSE
  None = None
INVARIANTS
  TypeOK
  CleanIsStored
  SlotSurvives
PROPERTY ImplementsDurable
