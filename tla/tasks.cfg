SPECIFICATION Spec
CONSTANTS
  MaxTasks = 4
  RootOps = 2
  MaxOps = 2
  MaxMsgs = 0
  MaxResources = 0
  ChannelIds = {}
  Capacities = {}
  Ops <- TaskOps
INVARIANTS
  ReadyQueueExact
  StallIsReal
  TaskAccounting
  HandlesNameTasks
  OrphansWereCancelled
PROPERTIES
  TaskLifecycle
