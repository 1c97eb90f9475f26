SPECIFICATION FairSpec
CONSTANTS
  NumThreads = 1
  Producers = {p1}
  MaxJobs = 1
PROPERTIES StopReturns
