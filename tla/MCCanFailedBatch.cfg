SPECIFICATION FairSpec
CONSTANTS
  Buses = {"can3"}
  Slots = {"wheel_l", "joint_b"}
  BusOf <- MCBusOf
  QueueDepth = 2
  MaxBatch = 2
  MaxWrites = 2
INVARIANT FailedBatchRetried
CHECK_DEADLOCK FALSE
