SPECIFICATION FairSpec
CONSTANTS
  TicksPerSecond = 1
  Workers = {w1}
  Clients = {c1}
  Configs <- OneShots
  Callbacks = {}
  MaxTasks = 2
  Targets = {}
  MaxTime = 1
  MayRestart = FALSE
PROPERTIES TasksBegin DispatchedBegin StopReturnsUnlessBlocked
