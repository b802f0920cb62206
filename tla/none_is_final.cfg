SPECIFICATION Spec
CONSTANTS
  MaxTasks = 2
  RootOps = 4
  MaxOps = 4
  MaxMsgs = 2
  MaxResources = 0
  ChannelIds = {1}
  Capacities = {1}
  Ops <- CloseOps
PROPERTIES
  NoneIsFinal
