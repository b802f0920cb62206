SPECIFICATION Spec
CONSTANTS
  MaxTasks = 3
  RootOps = 2
  MaxOps = 2
  MaxMsgs = 0
  MaxResources = 0
  ChannelIds = {}
  Capacities = {}
  Ops <- TryOps
INVARIANTS
  StructuredLifetime
