\* The parallel ANALYZE step, its analysts and the console's tail thread.
SPECIFICATION Spec
CONSTANTS
  NumJobs = 3
  Agent <- MCAgent
  Host <- MCHost
  Workers = 2
  MaxCalls = 2
  None = None
INVARIANTS TotalsExact AnnouncedAreOwn TailFaithful
PROPERTY EveryoneEnds
CHECK_DEADLOCK FALSE
