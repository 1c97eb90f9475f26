SPECIFICATION Spec
CONSTANTS
  TicksPerSecond = 1
  Workers = {w1, w2}
  Clients = {c1, c2}
  Configs <- All
  Callbacks = {"throws"}
  MaxTasks = 1
  Targets = {1}
  MaxTime = 2
  MayRestart = TRUE
SYMMETRY Symmetry
INVARIANTS TypeOK SingleOwner RegistryStatus NoTaskLost OneShotRunsOnce EachRunCounted
  FinalStatusRecorded PopFindsTask QuietWhenStopped
PROPERTIES WithdrawnIsFinal NotBeforeStart KeysFixedInQueue
