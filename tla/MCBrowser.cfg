CONSTANTS
  Machine = {"none", "queue", "error", "transition", "retry", "fallback", "boundary", "tree", "nested", "lifecycle"}
  MaxCallbacks = 4
  FireBound = 2
  Program <- MCProgram
  MaxQueuedActions = 4
  MaxActions = 3
  MaxInterruptions = 2
  MaxRenderAttempts = 3
  BoundaryComponent <- BoundaryComponents
  Tree <- Trees
  LifecycleComponent <- LifecycleComponents

SPECIFICATION MCSpec

INVARIANTS
  GeneratedPredicatesHold
  FallbackIsNearest

PROPERTIES
  DrainsInOrder
  CancelledNeverRuns
  EveryPendingCallbackRuns
  ImplementsDispatcher
  ImplementsSuspendedUpdate
  NestedImplementsTree
  EveryUpdateCompletes

CHECK_DEADLOCK FALSE
