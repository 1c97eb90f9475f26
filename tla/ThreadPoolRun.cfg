SPECIFICATION FairSpec
CONSTANTS
  NumThreads = 2
  Producers = {p1, p2}
  MaxJobs = 3
INVARIANTS TypeOK FrontExists NoMissedWork WorkConserving QuietWhenStopped
PROPERTIES DispatchFIFO ImplementsPool JobsBegin StopReturnsIfAllWoken
