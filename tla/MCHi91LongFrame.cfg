SPECIFICATION FramesSpec
CONSTANTS
  MaxPayload = 4
  DataLength = 2
  PosModulus = 9
INVARIANT AcceptedLengthsDecode
