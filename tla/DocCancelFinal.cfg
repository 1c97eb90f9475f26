SPECIFICATION Spec
CONSTANTS
  TicksPerSecond = 1
  Workers = {w1}
  Clients = {c1}
  Configs <- OnlyNow
  Callbacks = {}
  MaxTasks = 1
  Targets = {1}
  MaxTime = 0
  MayRestart = FALSE
PROPERTIES CancelIsFinal
