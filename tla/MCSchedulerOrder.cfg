CONSTANTS
  Machine = {"none"}
  MaxCallbacks = 4
  FireBound = 2
  Program <- NestedTask
  MaxQueuedActions = 4
  MaxActions = 3
  MaxInterruptions = 2
  MaxRenderAttempts = 3
  BoundaryComponent <- BoundaryComponents
  Tree <- Trees
  LifecycleComponent <- LifecycleComponents

SPECIFICATION MCSpec

PROPERTY
  SchedulerKeepsHostOrder

CHECK_DEADLOCK FALSE
