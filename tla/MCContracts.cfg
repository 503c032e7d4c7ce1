CONSTANTS
  Part = {"list", "scope", "workflow"}
  a = a
  b = b
  c = c
  ghost = ghost
  Transition <- MCTransition
  ResourceId <- MCResourceId
  Resource <- MCResource
  Starts <- MCStarts
  Required <- MCRequired
  MaxLength = 4
  f = f
  g = g
  h = h
  j = j
  p = p
  q = q
  r = r
  x = x
  NoBranch = NoBranch
  Step <- MCStep
  Fact <- MCFact
  Workflow <- MCWorkflow
  Entry <- MCEntry
  Initial <- MCInitial
  Kind <- MCKind
  NextOf <- MCNextOf
  PairOf <- MCPairOf
  Provides <- MCProvides
  Revokes <- MCRevokes
  Requires <- MCRequires
  Limits <- MCLimits

SPECIFICATION MCSpec

INVARIANTS
  CoversEveryExecution
  SatisfiedIsSafe
  ResourceTemporalSafe
  OneThreadPerBranch
  VerdictCoversEveryInterleaving
  BlockedForksNeverJoin

PROPERTIES
  LeavesEveryScope
  EndedBranchBlocksItsJoin
  ImplementsForkJoin

CHECK_DEADLOCK FALSE
