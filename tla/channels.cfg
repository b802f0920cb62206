SPECIFICATION Spec
CONSTANTS
  MaxTasks = 3
  RootOps = 4
  MaxOps = 2
  MaxMsgs = 3
  MaxResources = 0
  ChannelIds = {1}
  Capacities = {1, 2}
  Ops <- ChannelOps
INVARIANTS
  StallIsReal
  WakeFixpoint
  ChannelFifo
  NoPartialTransfer
