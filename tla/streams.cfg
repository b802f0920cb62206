SPECIFICATION Spec
CONSTANTS
  MaxTasks = 2
  RootOps = 3
  MaxOps = 3
  MaxMsgs = 3
  MaxResources = 0
  ChannelIds = {1}
  Capacities <- StreamCapacities
  Ops <- StreamOps
INVARIANTS
  TypeOK
  ChannelFifo
  NoPartialTransfer
