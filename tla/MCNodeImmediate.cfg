CONSTANTS
  Program <- RepeatedImmediate
  MaxJobs = 3
  MaxChains = 2
  MaxStages = 2
  MaxDelay = 2
  MaxInstances = 3
SPECIFICATION OrderSpec
PROPERTY EveryJobRuns
CHECK_DEADLOCK FALSE
