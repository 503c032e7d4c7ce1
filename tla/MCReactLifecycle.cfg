CONSTANTS
  Machine = {"lifecycle"}
  MaxCallbacks = 4
  FireBound = 2
  Program <- MCProgram
  MaxQueuedActions = 4
  MaxActions = 3
  MaxInterruptions = 2
  MaxRenderAttempts = 3
  BoundaryComponent <- BoundaryComponents
  Tree <- Trees
  LifecycleComponent <- LayoutAndPassive

SPECIFICATION MCSpec

INVARIANT
  PhasesInOrder

CHECK_DEADLOCK FALSE
