----------------------------- MODULE ResourceCfg -----------------------------
(***************************************************************************)
(* evaluateResourceProtocolCfg (src/resources/resource-protocol.ts): the   *)
(* transitions sit in the blocks of a control-flow graph, the data-flow    *)
(* engine carries the recorded states from block to block, and the verdict *)
(* is read off the exits only.                                             *)
(***************************************************************************)
EXTENDS EngineRun, ResourceStates, Integers, FiniteSets

CONSTANTS
  CfgBlock,
  Conflict,          \* the result of a join that fails; JoinFlow never does
  Unreachable,       \* the flow state no path has reached
  Cfg,               \* inputs
  BlockOrder,        \* block ids in declaration order
  CfgEntry(_),       \* entry block
  Exits(_),          \* exit blocks
  CfgTargets(_, _),  \* CfgTargets(p, b): the successors of b, each once
  Transitions(_, _), \* Transitions(p, b): the transition list of b
  CfgBudget(_),
  MaxPath            \* bound on the edges of a path the properties look at

\* What has been recorded when control enters a block.
FlowState == {Unreachable} \cup [states : [Resource -> State], diagnosed : SUBSET ResourceId]

\* Assumptions; where the module is instantiated, the instance is checked against them.
CfgAssumption ==
  /\ NoBlock \notin CfgBlock
  /\ Unreachable \notin [states : [Resource -> State], diagnosed : SUBSET ResourceId]
  /\ Conflict \notin FlowState
  /\ BlockOrder \in Seq(CfgBlock)
  /\ MaxPath \in Nat
  /\ \A p \in Cfg :
       /\ CfgEntry(p) \in CfgBlock
       /\ Exits(p) \in Seq(CfgBlock)
       /\ CfgBudget(p) \in Int
       /\ \A b \in CfgBlock :
            CfgTargets(p, b) \in Seq(CfgBlock) /\ Transitions(p, b) \in Seq(Transition)

\* A list, absorbed element by element from the left.
Folded(Op(_, _), first, list) ==
  LET after[n \in 0 .. Len(list)] == IF n = 0 THEN first ELSE Op(after[n - 1], list[n])
  IN  after[Len(list)]

JoinFlow(left, right) ==
  IF left = Unreachable THEN right ELSE IF right = Unreachable THEN left
  ELSE [states |-> [r \in Resource |-> JoinStates(left.states[r], right.states[r])],
        diagnosed |-> left.diagnosed \cup right.diagnosed]

ApplyBlock(p, b, flow) ==
  IF flow = Unreachable THEN flow ELSE Folded(Apply, flow, Transitions(p, b))

CfgDeclared(p) == BlockOrder
CfgEdges(p, b) == [i \in DOMAIN CfgTargets(p, b) |-> [to |-> CfgTargets(p, b)[i], label |-> "normal"]]
CfgInitial(p) == Initially({})
\* Deliberate fault: a block sends on what it received.
CfgTransferInput(p, b, flow) ==
  [i \in DOMAIN CfgTargets(p, b) |-> [to |-> CfgTargets(p, b)[i], value |-> flow]]

CfgTransfer(p, b, flow) ==
  [i \in DOMAIN CfgTargets(p, b) |-> [to |-> CfgTargets(p, b)[i], value |-> ApplyBlock(p, b, flow)]]

CfgEngine == INSTANCE FixedPoint WITH
  Block <- CfgBlock, Label <- {"normal"}, InvalidLabel <- {}, Value <- FlowState,
  Bottom <- Unreachable,
  Join <- JoinFlow, Program <- Cfg, Declared <- CfgDeclared,
  Edges <- CfgEdges, Entry <- CfgEntry, Initial <- CfgInitial, Limit <- CfgBudget,
  Transfer <- CfgTransfer

CfgSpec == CfgEngine!Spec

-----------------------------------------------------------------------------
\* The verdict: the exits are evaluated to their end and joined.

\* Deliberate fault: the exits' own transitions are not evaluated.
TerminalAtExitEntry ==
  Folded(JoinFlow, Unreachable,
    [i \in DOMAIN Exits(program) |-> states[Exits(program)[i]]])

Terminal ==
  Folded(JoinFlow, Unreachable,
    [i \in DOMAIN Exits(program) |->
      ApplyBlock(program, Exits(program)[i], states[Exits(program)[i]])])

CfgVerdict ==
  CASE status \in {"unknown", "thrown"} -> "unknown"
    [] status = "converged" -> IF Terminal = Unreachable THEN "unknown" ELSE TerminalStatus(Terminal)
    [] OTHER -> "open"

-----------------------------------------------------------------------------
\* Properties, stated against the paths through the graph.  They speak of the
\* inputs of this client, since a run may also be that of another one.

\* What can follow some executions at a transition.
Continued(xs, t) == UNION {Outcomes(x, t) : x \in xs}

\* The executions that can leave block b, entered with execution x.
Through(p, b, x) == Folded(Continued, {x}, Transitions(p, b))

SuccessorSet(p, b) == {CfgTargets(p, b)[i] : i \in DOMAIN CfgTargets(p, b)}

\* A situation is a block about to be executed and an execution that enters it.
Onward(p, s) == SuccessorSet(p, s[1]) \X Through(p, s[1], s[2])

\* The situations met by paths of at most n edges.
WithinEdges(p) ==
  LET reached[n \in Nat] ==
        IF n = 0 THEN {<<CfgEntry(p), Started>>}
        ELSE LET known == reached[n - 1]
             IN  known \cup UNION {Onward(p, s) : s \in known}
  IN  reached

\* The situations some path meets.
Entered(p) == WithinEdges(p)[MaxPath]

\* When the engine has converged, what it recorded for a block describes every
\* path that reaches the block, and a block nothing was recorded for is one no
\* path reaches.
EntryStatesCoverEveryPath ==
  program \in Cfg /\ status = "converged" => \A s \in Entered(program) :
    /\ states[s[1]] # Unreachable
    /\ states[s[1]].diagnosed = {} =>
         /\ ~s[2].broken
         /\ \A r \in Resource : s[2].actual[r] \in Meaning(states[s[1]].states[r])

\* "satisfied" is sound for partial correctness: every path that ends at an exit
\* ends safely, whichever branches and unsure transitions it takes.
SatisfiedPathsAreSafe ==
  program \in Cfg /\ CfgVerdict = "satisfied" =>
    \A s \in Entered(program), i \in DOMAIN Exits(program) : s[1] = Exits(program)[i] =>
      \A x \in Through(program, s[1], s[2]) : Safe(x)

\* "Computes a monotone forward fixed point over caller-defined abstract values"
\* (src/cfg/fixed-point.ts:5): a converged entry state is the join of what the
\* predecessors send at their own converged states, and of the initial state.
Incoming(b) ==
  LET sources == SelectSeq(BlockOrder, LAMBDA s : b \in SuccessorSet(program, s))
  IN  Folded(JoinFlow, IF b = CfgEntry(program) THEN CfgInitial(program) ELSE Unreachable,
        [i \in DOMAIN sources |-> ApplyBlock(program, sources[i], states[sources[i]])])

ResultIsFixedPoint ==
  program \in Cfg /\ status = "converged" => \A b \in CfgBlock : states[b] = Incoming(b)
=============================================================================
