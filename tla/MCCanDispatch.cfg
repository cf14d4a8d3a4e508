SPECIFICATION FairSpec
CONSTANTS
  Buses = {"can3"}
  Slots = {"wheel_l", "joint_b"}
  BusOf <- MCBusOf
  QueueDepth = 2
  MaxBatch = 2
  MaxWrites = 3
INVARIANTS
  TypeOK
  OneOwner
  EnqueueNeverFails
  NoLostUpdate
  OneBatchInFlight
PROPERTY ImplementsChannel
CHECK_DEADLOCK FALSE
