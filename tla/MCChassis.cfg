SPECIFICATION FairSpec
CONSTANTS
  ArmTicks = 4
  ClearTicks = 2
  ModePeriod = 2
  ZeroPeriod = 2
  ExitPeriod = 4
  JumpCooldown = 2
INVARIANTS
  TypeOK
  OperatingSafely
  RecoveryFirst
  ArmedByEnter
  TorqueEnds
PROPERTIES
  FailureLatched
  GetsToBalance
