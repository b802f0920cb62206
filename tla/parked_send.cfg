SPECIFICATION Spec
CONSTANTS
  MaxTasks = 3
  RootOps = 4
  MaxOps = 4
  MaxMsgs = 3
  MaxResources = 0
  ChannelIds = {1}
  Capacities = {1}
  Ops <- ContendedSendOps
PROPERTIES
  ParkedSendPublishes
