CONSTANTS
  e = e
  a = a
  b = b
  stray = stray
  none = none
  NoBlock = NoBlock
  Block <- MCBlock
  Label = {"normal", "reversed"}
  InvalidLabel = {"reversed"}
  Value <- MCValue
  Bottom = {}
  Conflict = none
  Join <- MCJoin
  Program <- MCProgram
  Declared <- MCDeclared
  Edges <- MCEdges
  Entry <- MCEntry
  Initial <- MCInitial
  Limit <- MCLimit
  Transfer <- MCTransfer

SPECIFICATION Spec

INVARIANTS
  TypeOK
  QueuedMirrorsQueue
  UnsettledIsScheduled
  ConvergedIsLeastSolution
  ConflictMeansNoSolution

PROPERTIES
  StatesOnlyGrow
  ImplementsChaoticIteration

CHECK_DEADLOCK FALSE
