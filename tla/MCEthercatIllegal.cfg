SPECIFICATION Spec
CONSTANTS
  SeqMod = 4
  MinForce = 1
  MaxForce = 1
  MaxStep = 1
  MaxValid = 1
  MaxLag = 1
  Frames <- MCPlainFrames
  None = None
INVARIANT IllegalRevokes
