\* The latch of a fault under every order of frames, losses and cycles.
SPECIFICATION RemoteFairSpec
CONSTANTS
  StreamDepth = 2
  RemoteTimeout = 2
PROPERTY
  FaultNeedsOperator
