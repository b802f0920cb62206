SPECIFICATION FairSpec
CONSTANTS
  MaxTasks = 3
  RootOps = 2
  MaxOps = 2
  MaxMsgs = 2
  MaxResources = 0
  ChannelIds = {1}
  Capacities = {1}
  Ops <- TerminationOps
PROPERTIES
  Terminates
