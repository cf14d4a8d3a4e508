SPECIFICATION Spec
CONSTANTS
  SeqMod = 4
  MinForce = 1
  MaxForce = 3
  MaxStep = 1
  MaxValid = 1
  MaxLag = 1
  Frames <- MCFrames
  None = None
INVARIANTS
  TypeOK
  WatchdogsAgree
  GrantToResume
PROPERTY ForceContinuous
