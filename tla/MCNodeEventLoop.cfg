CONSTANTS
  Program <- Programs
  MaxJobs = 3
  MaxChains = 2
  MaxStages = 2
  MaxDelay = 2
  MaxInstances = 3
SPECIFICATION OrderSpec
INVARIANTS InstancesAgree DueTimersRunFirst NodeOrderIsAllowed
PROPERTIES RegistrationsAreKept EveryJobRuns
CHECK_DEADLOCK FALSE
