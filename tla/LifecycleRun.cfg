SPECIFICATION Spec
CONSTANTS
  Callers = {a, b}
  NumThreads = 2
  MaxJobs = 2
CHECK_DEADLOCK FALSE
INVARIANTS TypeOK SafeUnlessMisused FlagTellsJoinable MembersOutliveThreads
