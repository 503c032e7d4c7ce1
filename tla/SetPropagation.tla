--------------------------- MODULE SetPropagation ---------------------------
(***************************************************************************)
(* The two clients of the data-flow engine whose lattice is a union of     *)
(* names: propagateEffectNames (src/effects/effect-propagation.ts) pushes  *)
(* the effects of every function to its callers, and analyzeImpact         *)
(* (src/graph-analysis/impact.ts) pushes every changed node to its         *)
(* consumers.  Both add one artificial entry block that seeds the graph    *)
(* and reverse the given edges; they differ in the seeds and the budget.   *)
(* The engine runs as an instance of FixedPoint.                           *)
(***************************************************************************)
EXTENDS EngineRun, Listings, Sequences

CONSTANTS
  Node,       \* functions, or nodes of the dependency graph
  NodeOrder,  \* the order in which the input lists them
  Name,       \* effect names and node names
  Source,     \* id of the artificial entry block
  Problem     \* inputs: [client, uses, names, changed, budget]

\* Assumptions; where the module is instantiated, the instance is checked against them.
NodeOrderAssumption ==
  /\ NodeOrder \in Seq(Node)
  /\ Node = {NodeOrder[i] : i \in DOMAIN NodeOrder}
  /\ \A i, j \in DOMAIN NodeOrder : NodeOrder[i] = NodeOrder[j] => i = j

\* Source also stands in the set that no join returns.
ProblemAssumption ==
  /\ Source \notin Node \cup Name
  /\ NoBlock \notin Node \cup {Source}
  /\ \A p \in Problem :
       /\ p.client \in {"effects", "impact"}
       /\ p.uses \in [Node -> SUBSET Node]      \* callees, or dependencies
       /\ p.names \in [Node -> SUBSET Name]     \* own effects
       /\ \A n \in Node : IsFiniteSet(p.names[n])
       /\ p.changed \subseteq Node \cap Name    \* impact's change set
       /\ p.budget \in Nat \ {0}

-----------------------------------------------------------------------------
\* Lowering.

\* Callers or consumers of n: the reversed edges, in input order.
UsersTransposed(p, n) == Listed(NodeOrder, p.uses[n])

Users(p, n) == Listed(NodeOrder, {m \in Node : n \in p.uses[m]})

\* Effects seed every function, impact only the changed nodes.
Seeded(p) ==
  IF p.client = "effects" THEN NodeOrder
  ELSE Listed(NodeOrder, p.changed)

\* A changed node is its own first cause.
Seed(p, n) == IF p.client = "effects" THEN p.names[n] ELSE {n}

Targets(p, b) == IF b = Source THEN Seeded(p) ELSE Users(p, b)

SetDeclared(p) == <<Source>> \o NodeOrder
SetEdges(p, b) == [i \in DOMAIN Targets(p, b) |-> [to |-> Targets(p, b)[i], label |-> "normal"]]
SetEntry(p) == Source
SetInitial(p) == {}

SetTransfer(p, b, v) ==
  [i \in DOMAIN Targets(p, b) |->
    [to |-> Targets(p, b)[i],
     value |-> IF b = Source THEN Seed(p, Targets(p, b)[i]) ELSE v]]

EffectCount(p) == Cardinality(UNION {p.names[n] : n \in Node})

\* Deliberate fault: the visits that follow the second and later names are
\* forgotten.
OneVisitPerNode(p) == IF p.client = "effects" THEN 1 + Cardinality(Node) ELSE p.budget

\* "Every scheduled update adds at least one of the finite input effect names."
SetLimit(p) ==
  IF p.client = "effects" THEN 1 + Cardinality(Node) * (EffectCount(p) + 1)
  ELSE p.budget

-----------------------------------------------------------------------------
\* The run of the engine.

Union(l, r) == l \cup r

SetEngine == INSTANCE FixedPoint WITH
  Block <- Node \cup {Source}, Label <- {"normal"}, InvalidLabel <- {},
  Value <- SUBSET Name, Bottom <- {}, Conflict <- {Source}, Join <- Union,
  Program <- Problem, Declared <- SetDeclared, Edges <- SetEdges, Entry <- SetEntry,
  Initial <- SetInitial, Limit <- SetLimit, Transfer <- SetTransfer

\* The assumptions under which the engine's theorems are proved hold of this
\* instance.
SetInstanceAssumption ==
  SetEngine!NamesAssumption /\ SetEngine!LatticeAssumption /\ SetEngine!ProgramAssumption

SetSpec == SetEngine!Spec

-----------------------------------------------------------------------------
\* Properties.  They speak of the inputs of these clients, since a run may also be
\* that of another one.

\* n is reached by name x when every set of nodes that holds the nodes x starts
\* at and is closed under "has users" holds n: reachability without paths.
Origins(x) == {n \in Node : \E i \in DOMAIN Seeded(program) :
                 Seeded(program)[i] = n /\ x \in Seed(program, n)}

Reaches(x, n) ==
  \A s \in SUBSET Node :
    Origins(x) \subseteq s /\ (\A m \in Node : program.uses[m] \cap s # {} => m \in s)
      => n \in s

\* A converged call attributes to every node exactly the effects of the
\* functions it calls, directly or through any chain of calls, or exactly the
\* changed nodes it depends on (effect-propagation.ts, impact.ts): recursion
\* and mutual recursion lose nothing and invent nothing.
ReachesExactly ==
  program \in Problem /\ status = "converged" =>
    \A n \in Node : states[n] = {x \in Name : Reaches(x, n)}

\* propagateEffectNames throws when the engine does not converge; the budget it
\* computes for itself is enough for every call graph, so it never throws.
EffectsNeverFail ==
  program \in Problem /\ program.client = "effects" =>
    status \in {"validating", "running", "converged"}
=============================================================================
