CONSTANTS
  Step <- MCStep
  StepOrder <- MCStepOrder
  Fact <- MCFact
  Workflow <- MCWorkflow
  Node <- MCNode
  NodeOrder <- MCNodeOrder
  Name <- MCName
  Problem <- MCProblem
  ResourceId <- MCResource
  Resource <- MCResource
  Starts <- MCStarts
  Required <- MCRequired
  Transition <- MCTransition
  CfgBlock <- MCBlock
  BlockOrder <- MCBlockOrder
  Cfg <- MCCfg
  CfgEntry <- MCCfgEntry
  Exits <- MCExits
  CfgTargets <- MCCfgTargets
  Transitions <- MCTransitions
  CfgBudget <- MCCfgBudget
  MaxPath = 10
  Client = {"statements", "workflow", "resources", "modules", "sets"}
  p = p
  q = q
  r = r
  built = built
  tested = tested
  enter = enter
  one = one
  two = two
  exit = exit
  file = file
  Conflict = Conflict
  Unreachable = Unreachable
  a = a
  b = b
  c = c
  d = d
  io = io
  net = net
  Source = Source
  Null = Null
  NoBlock = NoBlock

SPECIFICATION MCSpec

INVARIANTS
  GuaranteesAreExact
  VerdictIsExact
  EntryStatesCoverEveryPath
  SatisfiedPathsAreSafe
  ReachesExactly
  EffectsNeverFail
  VerifiedOrderHolds
  ComponentsAreExact
  CompletionsCoverExecutions

CHECK_DEADLOCK FALSE
