SPECIFICATION ExamplesSpec
CONSTANTS
  TicksPerSecond = 100
  Workers = {w1, w2, w3, w4}
  main = main
  Clients = {main}
  Configs = {}
  Callbacks = {"returns"}
  MaxTasks = 11
  Targets = {}
  MaxTime = 0
  MayRestart = FALSE
  Examples = {"CustomSchedulingPolicies", "StatisticsMonitoring"}
  UnsetPriorities = {0}
  BenchTasks = 3
  BenchThreads = 2
  RepeatFor = 7
SYMMETRY Symmetry
CHECK_DEADLOCK FALSE
PROPERTIES BeginsOnTime
