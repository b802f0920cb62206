SPECIFICATION Spec
CONSTANTS
  MaxTasks = 3
  RootOps = 3
  MaxOps = 3
  MaxMsgs = 0
  MaxResources = 2
  ChannelIds = {}
  Capacities = {}
  Ops <- ResourceOps
INVARIANTS
  ResourceDroppedOnce
PROPERTIES
  ImplementsLedger
