SPECIFICATION FairSpec
CONSTANTS
  ArmTicks = 2
  ClearTicks = 1
  ModePeriod = 1
  ZeroPeriod = 1
  ExitPeriod = 2
  JumpCooldown = 0
INVARIANT TiltLatchHolds
