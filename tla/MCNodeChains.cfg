CONSTANTS
  Program <- TwoChains
  MaxJobs = 3
  MaxChains = 2
  MaxStages = 2
  MaxDelay = 2
  MaxInstances = 3
SPECIFICATION OrderSpec
INVARIANT NodeOrderIsAllowed
CHECK_DEADLOCK FALSE
