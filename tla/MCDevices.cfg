\* Each device by itself, in one run.
SPECIFICATION FairSpec
CONSTANTS
  UsbDepth = 2
  PcTimeout = 1
  UsbPackets <- MCUsbPackets
  TransferTimeout = 1
  MissLimit = 2
  CalibrationCount = 2
  StreamDepth = 2
  RemoteTimeout = 2
  RingSize = 8
  GuardSize = 2
  Burst = 2
  MaxPayload = 4
  DataLength = 2
  PosModulus = 9
  OscTimeout = 1
  ProbePeriod = 2
  BatchRecords = 2
  SyncEvery = 2
  LogFiles = 2
  MaxRecords = 9
  Period = 3
  Phase = 1
  MaxMissed = 4
  MaxTicks = 20
  Limit <- MCLimit
  Asked <- MCAsked
  Motors <- MCMotors
  MotorBus <- MCMotorBus
  MotorId <- MCMotorId
  ReadOrder <- MCReadOrder
  MotorTimeout = 1
  ImuTimeout = 1
  ReadTime = 1
INVARIANTS
  DevicesTypeOK
  BurstOwned
  BuffersAlternate
  EnableNeedsDrive
  BytesInOrder
  IntactFramesDecode
  FrameOwned
  PowerCutBound
  EverySlotAccounted
  ActionsEnd
  GravityWhenStill
PROPERTIES
  CommandsExpire
  TelemetryFlows
  BurstsFlow
  LossIsTold
  NoReplay
  FlightHeld
  FeedbackJudged
