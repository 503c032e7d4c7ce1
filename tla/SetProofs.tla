----------------------------- MODULE SetProofs -----------------------------
(***************************************************************************)
(* Proofs about effects and impact, for every call graph and dependency    *)
(* graph: the theorems about the data-flow engine, applied to its instance *)
(* for sets of names.                                                      *)
(***************************************************************************)
EXTENDS SetPropagation, FiniteProofs

Proved == INSTANCE FixedPointProofs WITH
  Block <- Node \cup {Source}, Label <- {"normal"}, InvalidLabel <- {},
  Value <- SUBSET Name, Bottom <- {}, Conflict <- {Source}, Join <- Union,
  Program <- Problem, Declared <- SetDeclared, Edges <- SetEdges, Entry <- SetEntry,
  Initial <- SetInitial, Limit <- SetLimit, Transfer <- SetTransfer

-----------------------------------------------------------------------------
\* The instance.

\* Joining names is a lattice.
LEMMA UnionIsLattice ==
  ASSUME ProblemAssumption
  PROVE  Proved!NamesAssumption /\ Proved!LatticeAssumption
  <1>1. Proved!NamesAssumption
    BY DEF ProblemAssumption, Proved!NamesAssumption
  <1>2. Proved!LatticeAssumption
    BY DEF Proved!LatticeAssumption, Proved!Absorbs, Union
  <1>3. QED
    BY <1>1, <1>2

\* The engine's steps are the steps the theorems are about.
LEMMA SameEngine == SetSpec => Proved!Spec
  <1>1. SetEngine!Init => Proved!Init
    BY DEF SetEngine!Init, Proved!Init
  <1>2. [SetEngine!Next]_(SetEngine!vars) => [Proved!Next]_(Proved!vars)
    <2>1. SetEngine!RejectBudget => Proved!RejectBudget
      BY DEF SetEngine!RejectBudget, Proved!RejectBudget, SetEngine!Return, Proved!Return
    <2>2. SetEngine!RejectGraph => Proved!RejectGraph
      BY DEF SetEngine!RejectGraph, Proved!RejectGraph, SetEngine!Return, Proved!Return,
          SetEngine!WellFormed, Proved!WellFormed, SetEngine!Distinct, Proved!Distinct,
          SetEngine!DeclaredBlocks, Proved!DeclaredBlocks, SetEngine!Successors, Proved!Successors
    <2>3. SetEngine!ConflictAtEntry => Proved!ConflictAtEntry
      BY DEF SetEngine!ConflictAtEntry, Proved!ConflictAtEntry, SetEngine!Return, Proved!Return,
          SetEngine!WellFormed, Proved!WellFormed, SetEngine!Distinct, Proved!Distinct,
          SetEngine!DeclaredBlocks, Proved!DeclaredBlocks, SetEngine!Successors, Proved!Successors
    <2>4. SetEngine!Begin => Proved!Begin
      BY DEF SetEngine!Begin, Proved!Begin, SetEngine!WellFormed, Proved!WellFormed, SetEngine!Distinct,
          Proved!Distinct, SetEngine!DeclaredBlocks, Proved!DeclaredBlocks, SetEngine!Successors,
          Proved!Successors
    <2>5. SetEngine!Converge => Proved!Converge
      BY DEF SetEngine!Converge, Proved!Converge, SetEngine!Return, Proved!Return
    <2>6. SetEngine!ExhaustBudget => Proved!ExhaustBudget
      BY DEF SetEngine!ExhaustBudget, Proved!ExhaustBudget, SetEngine!Return, Proved!Return
    <2>7. SetEngine!Visit => Proved!Visit
      BY DEF SetEngine!Visit, Proved!Visit
    <2>8. SetEngine!FinishVisit => Proved!FinishVisit
      BY DEF SetEngine!FinishVisit, Proved!FinishVisit, SetEngine!InVisit, Proved!InVisit
    <2>9. SetEngine!UndeclaredTransfer => Proved!UndeclaredTransfer
      BY DEF SetEngine!UndeclaredTransfer, Proved!UndeclaredTransfer, SetEngine!Flowing, Proved!Flowing,
          SetEngine!InVisit, Proved!InVisit, SetEngine!Successors, Proved!Successors, SetEngine!Return,
          Proved!Return
    <2>10. SetEngine!ConflictTransfer => Proved!ConflictTransfer
      BY DEF SetEngine!ConflictTransfer, Proved!ConflictTransfer, SetEngine!Flowing, Proved!Flowing,
          SetEngine!InVisit, Proved!InVisit, SetEngine!Successors, Proved!Successors, SetEngine!Return,
          Proved!Return
    <2>11. SetEngine!NothingNew => Proved!NothingNew
      BY DEF SetEngine!NothingNew, Proved!NothingNew, SetEngine!Flowing, Proved!Flowing, SetEngine!InVisit,
          Proved!InVisit, SetEngine!Successors, Proved!Successors, SetEngine!Absorbs, Proved!Absorbs
    <2>12. SetEngine!Propagate => Proved!Propagate
      BY DEF SetEngine!Propagate, Proved!Propagate, SetEngine!Flowing, Proved!Flowing, SetEngine!InVisit,
          Proved!InVisit, SetEngine!Successors, Proved!Successors
    <2>13. QED
      BY <2>1, <2>2, <2>3, <2>4, <2>5, <2>6, <2>7, <2>8, <2>9, <2>10, <2>11, <2>12 DEF SetEngine!Next,
          Proved!Next, SetEngine!vars, Proved!vars
  <1>3. QED
    BY <1>1, <1>2, PTL DEF SetSpec, SetEngine!Spec, Proved!Spec

-----------------------------------------------------------------------------
\* The lowered graph.

Assumptions == NodeOrderAssumption /\ ProblemAssumption

SeedSet(p) == IF p.client = "effects" THEN Node ELSE p.changed

TargetSet(p, b) == IF b = Source THEN SeedSet(p) ELSE {m \in Node : b \in p.uses[m]}

\* The nodes of a set, listed in the order of the input.
LEMMA NodesListed ==
  ASSUME Assumptions, NEW set
  PROVE  LET list == Listed(NodeOrder, set)
         IN  /\ list \in Seq(Node)
             /\ {list[i] : i \in DOMAIN list} = Node \cap set
             /\ \A i, j \in DOMAIN list : list[i] = list[j] => i = j
  <1> DEFINE list == Listed(NodeOrder, set)
  <1>1. /\ NodeOrder \in Seq(Node)
        /\ Node = {NodeOrder[i] : i \in DOMAIN NodeOrder}
        /\ \A i, j \in DOMAIN NodeOrder : NodeOrder[i] = NodeOrder[j] => i = j
    BY DEF Assumptions, NodeOrderAssumption
  <1> HIDE DEF list
  <1>2. list \in Seq(Node)
    BY <1>1, ListedElements DEF list
  <1>3. Held(list) = Held(NodeOrder) \cap set
    BY <1>1, ListedElements DEF list
  <1>4. \A k, l \in DOMAIN list : list[k] = list[l] => k = l
    BY <1>1, ListedElements, Zenon DEF list
  <1>5. QED
    BY <1>1, <1>2, <1>3, <1>4 DEF list, Held

\* The lists of seeds and users hold what they should, each node once.
LEMMA TargetsListed ==
  ASSUME Assumptions, NEW p \in Problem, NEW b \in Node \cup {Source}
  PROVE  /\ Targets(p, b) \in Seq(Node)
         /\ {Targets(p, b)[i] : i \in DOMAIN Targets(p, b)} = TargetSet(p, b)
         /\ TargetSet(p, b) \subseteq Node
         /\ \A i, j \in DOMAIN Targets(p, b) : Targets(p, b)[i] = Targets(p, b)[j] => i = j
  <1>1. /\ NodeOrder \in Seq(Node)
        /\ Node = {NodeOrder[i] : i \in DOMAIN NodeOrder}
        /\ \A i, j \in DOMAIN NodeOrder : NodeOrder[i] = NodeOrder[j] => i = j
    BY DEF Assumptions, NodeOrderAssumption
  <1>2. p.changed \subseteq Node
    BY DEF Assumptions, ProblemAssumption
  <1>3. Targets(p, b) = NodeOrder \/ \E set : Targets(p, b) = Listed(NodeOrder, set)
    BY DEF Targets, Seeded, Users
  <1>4. /\ Targets(p, b) \in Seq(Node)
        /\ \A i, j \in DOMAIN Targets(p, b) : Targets(p, b)[i] = Targets(p, b)[j] => i = j
    <2>1. CASE Targets(p, b) = NodeOrder
      BY <1>1, <2>1
    <2>2. ASSUME NEW set, Targets(p, b) = Listed(NodeOrder, set)
          PROVE  /\ Targets(p, b) \in Seq(Node)
                 /\ \A i, j \in DOMAIN Targets(p, b) : Targets(p, b)[i] = Targets(p, b)[j] => i = j
      BY <2>2, NodesListed
    <2>3. QED
      BY <1>3, <2>1, <2>2
  <1>5. {Targets(p, b)[i] : i \in DOMAIN Targets(p, b)} = TargetSet(p, b)
    <2>1. \A set : {Listed(NodeOrder, set)[i] : i \in DOMAIN Listed(NodeOrder, set)} = Node \cap set
      BY NodesListed
    <2>2. CASE b = Source /\ p.client = "effects"
      BY <1>1, <2>2 DEF Targets, Seeded, TargetSet, SeedSet
    <2>3. CASE b = Source /\ p.client # "effects"
      <3>1. Targets(p, b) = Listed(NodeOrder, p.changed)
        BY <2>3 DEF Targets, Seeded
      <3>2. QED
        BY <1>2, <2>1, <2>3, <3>1 DEF TargetSet, SeedSet
    <2>4. CASE b # Source
      <3> DEFINE users == {m \in Node : b \in p.uses[m]}
      <3>1. Targets(p, b) = Listed(NodeOrder, users)
        BY <2>4 DEF Targets, Users
      <3>2. Node \cap users = users
        OBVIOUS
      <3> HIDE DEF users
      <3>3. {Targets(p, b)[i] : i \in DOMAIN Targets(p, b)} = users
        BY <2>1, <3>1, <3>2
      <3>4. QED
        BY <2>4, <3>3 DEF TargetSet, users
    <2>5. QED
      BY <2>2, <2>3, <2>4
  <1>6. TargetSet(p, b) \subseteq Node
    BY <1>2 DEF TargetSet, SeedSet
  <1>7. QED
    BY <1>4, <1>5, <1>6

\* A seed is a set of names.
LEMMA SeedTyped ==
  ASSUME Assumptions, NEW p \in Problem, NEW n \in TargetSet(p, Source)
  PROVE  n \in Node /\ Seed(p, n) \in SUBSET Name
  BY DEF Assumptions, ProblemAssumption, TargetSet, SeedSet, Seed

\* What a block sends: its value, or the seeds.
LEMMA TransferSends ==
  ASSUME Assumptions, NEW p \in Problem, NEW b \in Node \cup {Source}, NEW v
  PROVE  /\ DOMAIN SetTransfer(p, b, v) = DOMAIN Targets(p, b)
         /\ \A i \in DOMAIN SetTransfer(p, b, v) :
              /\ SetTransfer(p, b, v)[i] =
                   [to |-> Targets(p, b)[i], value |-> IF b = Source THEN Seed(p, Targets(p, b)[i]) ELSE v]
              /\ Targets(p, b)[i] \in TargetSet(p, b)
  BY TargetsListed DEF SetTransfer

\* The nodes and the effects are finitely many.
LEMMA CountsTyped ==
  ASSUME Assumptions, NEW p \in Problem
  PROVE  /\ IsFiniteSet(Node) /\ Cardinality(Node) \in Nat
         /\ IsFiniteSet(UNION {p.names[n] : n \in Node}) /\ EffectCount(p) \in Nat
         /\ SetLimit(p) \in Nat \ {0}
  <1>1. /\ NodeOrder \in Seq(Node)
        /\ Node = {NodeOrder[i] : i \in DOMAIN NodeOrder}
    BY DEF Assumptions, NodeOrderAssumption
  <1>2. IsFiniteSet(Node)
    <2>1. Len(NodeOrder) \in Nat /\ DOMAIN NodeOrder = 1 .. Len(NodeOrder)
      BY <1>1
    <2>2. \E n \in Nat : ExistsSurjection(1 .. n, Node)
      BY <1>1, <2>1 DEF ExistsSurjection, Surjection
    <2>3. QED
      BY <2>2, FS_NatSurjection
  <1>3. IsFiniteSet({p.names[n] : n \in Node})
    <2> DEFINE names == [n \in Node |-> p.names[n]]
    <2>1. IsFiniteSet({names[n] : n \in Node})
      BY <1>2, FiniteImage
    <2>2. QED
      BY <2>1
  <1>4. \A set \in {p.names[n] : n \in Node} : IsFiniteSet(set)
    BY DEF Assumptions, ProblemAssumption
  <1>5. IsFiniteSet(UNION {p.names[n] : n \in Node})
    BY <1>3, <1>4, FS_UNION
  <1>6. Cardinality(Node) \in Nat /\ EffectCount(p) \in Nat
    BY <1>2, <1>5, FS_CardinalityType DEF EffectCount
  <1>7. p.budget \in Nat \ {0}
    BY DEF Assumptions, ProblemAssumption
  <1>8. Cardinality(Node) * (EffectCount(p) + 1) \in Nat
    BY <1>6
  <1>9. QED
    BY <1>2, <1>5, <1>6, <1>7, <1>8 DEF SetLimit

\* The lowering gives the engine what it expects.
LEMMA ProblemIsProgram ==
  ASSUME Assumptions
  PROVE  Proved!ProgramAssumption
  <1> SUFFICES ASSUME NEW p \in Problem
               PROVE  /\ SetDeclared(p) \in Seq(Node \cup {Source})
                      /\ SetEntry(p) \in Node \cup {Source}
                      /\ SetInitial(p) \in SUBSET Name
                      /\ SetLimit(p) \in Int
                      /\ \A b \in Node \cup {Source} :
                           /\ SetEdges(p, b) \in Seq(Proved!Edge)
                           /\ \A v \in SUBSET Name : SetTransfer(p, b, v) \in Seq(Proved!Flow)
    BY DEF Proved!ProgramAssumption
  <1>1. SetDeclared(p) \in Seq(Node \cup {Source}) /\ SetEntry(p) \in Node \cup {Source}
    BY DEF SetDeclared, SetEntry, Assumptions, NodeOrderAssumption
  <1>2. SetLimit(p) \in Int
    <2>1. SetLimit(p) \in Nat \ {0}
      BY CountsTyped
    <2>2. QED
      BY <2>1
  <1>3. ASSUME NEW b \in Node \cup {Source} PROVE SetEdges(p, b) \in Seq(Proved!Edge)
    <2> DEFINE t == Targets(p, b)
    <2>1. t \in Seq(Node)
      BY TargetsListed
    <2>2. SetEdges(p, b) = [i \in DOMAIN t |-> [to |-> t[i], label |-> "normal"]]
      BY DEF SetEdges
    <2> HIDE DEF t
    <2>3. \A i \in DOMAIN t : [to |-> t[i], label |-> "normal"] \in Proved!Edge
      BY <2>1 DEF Proved!Edge
    <2>4. QED
      BY <2>1, <2>2, <2>3
  <1>4. ASSUME NEW b \in Node \cup {Source}, NEW v \in SUBSET Name
        PROVE  SetTransfer(p, b, v) \in Seq(Proved!Flow)
    <2> DEFINE t == Targets(p, b)
               out == SetTransfer(p, b, v)
    <2>1. t \in Seq(Node) /\ DOMAIN out = DOMAIN t
      BY TargetsListed, TransferSends
    <2>2. \A i \in DOMAIN out : out[i] \in Proved!Flow
      <3> TAKE i \in DOMAIN out
      <3>1. /\ out[i] = [to |-> t[i], value |-> IF b = Source THEN Seed(p, t[i]) ELSE v]
            /\ t[i] \in TargetSet(p, b)
        BY TransferSends
      <3>2. t[i] \in Node
        BY <3>1, TargetsListed
      <3> HIDE DEF t, out
      <3>3. b = Source => Seed(p, t[i]) \in SUBSET Name
        BY <3>1, SeedTyped
      <3>4. QED
        BY <3>1, <3>2, <3>3 DEF Proved!Flow
    <2>3. out = [i \in DOMAIN t |-> out[i]]
      BY DEF SetTransfer
    <2> HIDE DEF t, out
    <2>4. out \in [1 .. Len(t) -> Proved!Flow] /\ Len(t) \in Nat
      BY <2>1, <2>2, <2>3
    <2>5. out \in Seq(Proved!Flow)
      BY <2>4
    <2>6. QED
      BY <2>5 DEF out
  <1>5. QED
    BY <1>1, <1>2, <1>3, <1>4 DEF SetInitial

-----------------------------------------------------------------------------
\* What reaches what.

Block == Node \cup {Source}

\* A block that has more sends more.
LEMMA SendingIsMonotone ==
  ASSUME Assumptions, NEW p \in Problem
  PROVE  Proved!Monotone(p)
  <1> SUFFICES ASSUME NEW b \in Block, NEW u \in SUBSET Name, NEW v \in SUBSET Name, Union(v, u) = v
               PROVE  \A i \in DOMAIN SetTransfer(p, b, u) : \E j \in DOMAIN SetTransfer(p, b, v) :
                        /\ SetTransfer(p, b, v)[j].to = SetTransfer(p, b, u)[i].to
                        /\ Union(SetTransfer(p, b, v)[j].value, SetTransfer(p, b, u)[i].value)
                             = SetTransfer(p, b, v)[j].value
    BY DEF Proved!Monotone, Proved!Absorbs, Block
  <1>1. /\ DOMAIN SetTransfer(p, b, u) = DOMAIN SetTransfer(p, b, v)
        /\ \A i \in DOMAIN SetTransfer(p, b, u) :
             /\ SetTransfer(p, b, u)[i] =
                  [to |-> Targets(p, b)[i], value |-> IF b = Source THEN Seed(p, Targets(p, b)[i]) ELSE u]
             /\ SetTransfer(p, b, v)[i] =
                  [to |-> Targets(p, b)[i], value |-> IF b = Source THEN Seed(p, Targets(p, b)[i]) ELSE v]
    BY TransferSends DEF Block
  <1>2. QED
    BY <1>1 DEF Union

\* A block that is settled has handed its names on to its users.
LEMMA SettledHandsOn ==
  ASSUME Assumptions, NEW p \in Problem, NEW b \in Block, NEW s
  PROVE  Proved!SettledIn(p, s, b) <=>
           \A t \in TargetSet(p, b) : (IF b = Source THEN Seed(p, t) ELSE s[b]) \subseteq s[t]
  <1> DEFINE out == SetTransfer(p, b, s[b])
             list == Targets(p, b)
             sent(t) == IF b = Source THEN Seed(p, t) ELSE s[b]
  <1>1. Proved!SettledIn(p, s, b) <=> \A i \in DOMAIN out : Union(s[out[i].to], out[i].value) = s[out[i].to]
    BY DEF Proved!SettledIn, Proved!Absorbs
  <1>2. /\ DOMAIN out = DOMAIN list
        /\ \A i \in DOMAIN out : out[i].to = list[i] /\ out[i].value = sent(list[i])
    BY TransferSends DEF Block
  <1>3. TargetSet(p, b) = {list[i] : i \in DOMAIN list}
    BY TargetsListed DEF Block
  <1> HIDE DEF out, list, sent
  <1>4. Proved!SettledIn(p, s, b) <=> \A i \in DOMAIN list : sent(list[i]) \subseteq s[list[i]]
    BY <1>1, <1>2 DEF Union
  <1>5. Proved!SettledIn(p, s, b) <=> \A t \in TargetSet(p, b) : sent(t) \subseteq s[t]
    BY <1>3, <1>4
  <1>6. QED
    BY <1>5 DEF sent

\* The nodes a name starts at, without the order of the input.
LEMMA OriginsListed ==
  ASSUME Assumptions, program \in Problem, NEW x
  PROVE  Origins(x) = {n \in TargetSet(program, Source) : x \in Seed(program, n)}
  <1> DEFINE list == Targets(program, Source)
  <1>1. /\ TargetSet(program, Source) = {list[i] : i \in DOMAIN list}
        /\ TargetSet(program, Source) \subseteq Node
    BY TargetsListed
  <1>2. Origins(x) = {n \in Node : \E i \in DOMAIN list : list[i] = n /\ x \in Seed(program, n)}
    BY DEF Origins, Targets
  <1> HIDE DEF list
  <1>3. QED
    BY <1>1, <1>2

\* A converged call attributes exactly the names that reach a node: reachability is
\* a solution of the problem, and every solution holds what reachability holds.
THEOREM AttributionExact ==
  ASSUME Assumptions
  PROVE  SetSpec => []ReachesExactly
  <1>1. Proved!NamesAssumption /\ Proved!LatticeAssumption /\ Proved!ProgramAssumption
    BY UnionIsLattice, ProblemIsProgram DEF Assumptions
  <1>2. Proved!TypeOK /\ Proved!ConvergedIsLeastSolution => ReachesExactly
    <2> SUFFICES ASSUME Proved!TypeOK, Proved!ConvergedIsLeastSolution, status = "converged"
                 PROVE  \A n \in Node : states[n] = {x \in Name : Reaches(x, n)}
      BY DEF ReachesExactly
    <2> DEFINE sol == [b \in Block |-> IF b = Source THEN {} ELSE {x \in Name : Reaches(x, b)}]
    <2>1. program \in Problem /\ states \in [Block -> SUBSET Name]
      BY DEF Proved!TypeOK, Block
    <2>2. Proved!IsSolution(program, states)
      BY DEF Proved!ConvergedIsLeastSolution
    <2>3. Source \notin Node
      BY DEF Assumptions, ProblemAssumption
    <2>4. program.uses \in [Node -> SUBSET Node]
      BY <2>1 DEF Assumptions, ProblemAssumption
    <2>5. /\ \A t \in TargetSet(program, Source) : Seed(program, t) \subseteq states[t]
          /\ \A b \in Node : states[b] # {} => \A t \in TargetSet(program, b) : states[b] \subseteq states[t]
      <3>1. \A b \in Block : b = Source \/ states[b] # {} => Proved!SettledIn(program, states, b)
        BY <2>2 DEF Proved!IsSolution, Proved!ReachedIn, SetEntry, Block
      <3>2. Source \in Block /\ \A b \in Node : b \in Block /\ b # Source
        BY <2>3 DEF Block
      <3>3. QED
        BY <2>1, <3>1, <3>2, SettledHandsOn
    <2>6. ASSUME NEW n \in Node, NEW x \in Name, Reaches(x, n)
          PROVE  x \in states[n]
      <3> DEFINE s == {m \in Node : x \in states[m]}
      <3>1. Origins(x) \subseteq s
        BY <2>1, <2>5, OriginsListed, SeedTyped
      <3>2. \A m \in Node : program.uses[m] \cap s # {} => m \in s
        BY <2>3, <2>5 DEF TargetSet
      <3>3. n \in s
        BY <2>6, <3>1, <3>2 DEF Reaches
      <3>4. QED
        BY <3>3
    <2>7. Proved!IsSolution(program, sol)
      <3>1. Union(sol[Source], {}) = sol[Source]
        BY DEF Union
      <3>2. ASSUME NEW t \in TargetSet(program, Source) PROVE Seed(program, t) \subseteq sol[t]
        <4>1. t \in Node /\ Seed(program, t) \subseteq Name
          BY <2>1, SeedTyped
        <4>2. ASSUME NEW x \in Seed(program, t) PROVE Reaches(x, t)
          BY <2>1, <4>1, OriginsListed DEF Reaches
        <4>3. QED
          BY <2>3, <4>1, <4>2 DEF Block
      <3>3. ASSUME NEW b \in Node, NEW t \in TargetSet(program, b) PROVE sol[b] \subseteq sol[t]
        <4>1. t \in Node /\ b \in program.uses[t]
          BY <2>3 DEF TargetSet
        <4>2. ASSUME NEW x \in Name, Reaches(x, b) PROVE Reaches(x, t)
          BY <4>1, <4>2 DEF Reaches
        <4>3. QED
          BY <2>3, <4>1, <4>2 DEF Block
      <3> HIDE DEF sol
      <3>4. \A b \in Block : Proved!SettledIn(program, sol, b)
        BY <2>1, <2>3, <3>2, <3>3, SettledHandsOn DEF Block
      <3>5. QED
        BY <3>1, <3>4 DEF Proved!IsSolution, Proved!Absorbs, SetEntry, SetInitial, Block
    <2>8. \A b \in Block : states[b] \subseteq sol[b]
      <3>1. sol \in [Block -> SUBSET Name]
        OBVIOUS
      <3> HIDE DEF sol
      <3>2. \A b \in Block : Union(sol[b], states[b]) = sol[b]
        BY <2>1, <2>7, <3>1, SendingIsMonotone DEF Proved!ConvergedIsLeastSolution, Proved!Absorbs, Block
      <3>3. QED
        BY <3>2 DEF Union
    <2>9. QED
      BY <2>1, <2>3, <2>6, <2>8 DEF Block
  <1>3. QED
    BY <1>1, <1>2, SameEngine, Proved!TypeCorrect, Proved!ConvergenceSound, PTL

-----------------------------------------------------------------------------
\* The budget of effect propagation.

Effects(p) == UNION {p.names[n] : n \in Node}

\* What has been attributed so far.
Attributed == {a \in Node \X Effects(program) : a[2] \in states[a[1]]}

\* The inductive invariant: a node is scheduled for a name it did not have, so visits
\* made and visits due are at most as many as the names attributed, and the first.
WithinBudget ==
  /\ status \in {"validating", "running", "converged"}
  /\ status = "validating" => iterations = 0
  /\ \A n \in Node : states[n] \subseteq Effects(program)
  /\ states[Source] = {}
  /\ \A i \in DOMAIN pending : pending[i].value \subseteq Effects(program)
  /\ visiting # NoBlock => \A i \in DOMAIN pending : pending[i].to \in TargetSet(program, visiting)
  /\ iterations + Cardinality(queued) <= 1 + Cardinality(Attributed)

\* The graph the call builds is well formed.
LEMMA LoweredIsWellFormed ==
  ASSUME Assumptions, NEW p \in Problem
  PROVE  /\ Proved!WellFormed(p)
         /\ \A b \in Block : Proved!Successors(p, b) = TargetSet(p, b)
  <1>1. /\ NodeOrder \in Seq(Node)
        /\ Node = {NodeOrder[i] : i \in DOMAIN NodeOrder}
        /\ \A i, j \in DOMAIN NodeOrder : NodeOrder[i] = NodeOrder[j] => i = j
        /\ Source \notin Node
    BY DEF Assumptions, NodeOrderAssumption, ProblemAssumption
  <1> DEFINE declared == SetDeclared(p)
  <1>2. /\ Len(NodeOrder) \in Nat
        /\ DOMAIN declared = 1 .. Len(NodeOrder) + 1
        /\ declared[1] = Source
        /\ \A i \in 2 .. Len(NodeOrder) + 1 : i - 1 \in DOMAIN NodeOrder /\ declared[i] = NodeOrder[i - 1]
    BY <1>1 DEF SetDeclared
  <1> HIDE DEF declared
  <1>3. Proved!Distinct(declared)
    BY <1>1, <1>2 DEF Proved!Distinct
  <1>4. {declared[i] : i \in DOMAIN declared} = Block
    <2>1. \A i \in DOMAIN declared : declared[i] \in Block
      BY <1>1, <1>2 DEF Block
    <2>2. \A i \in DOMAIN NodeOrder : i + 1 \in DOMAIN declared /\ declared[i + 1] = NodeOrder[i]
      BY <1>1, <1>2
    <2>3. 1 \in DOMAIN declared
      BY <1>2
    <2>4. QED
      BY <1>1, <1>2, <2>1, <2>2, <2>3 DEF Block
  <1>5. ASSUME NEW b \in Block
        PROVE  /\ Proved!Successors(p, b) = TargetSet(p, b)
               /\ Proved!Distinct(SetEdges(p, b))
               /\ \A i \in DOMAIN SetEdges(p, b) : SetEdges(p, b)[i].label \notin {}
    <2> DEFINE t == Targets(p, b)
               edges == SetEdges(p, b)
    <2>1. /\ TargetSet(p, b) = {t[i] : i \in DOMAIN t}
          /\ \A i, j \in DOMAIN t : t[i] = t[j] => i = j
      BY TargetsListed DEF Block
    <2>2. edges = [i \in DOMAIN t |-> [to |-> t[i], label |-> "normal"]]
      BY DEF SetEdges
    <2> HIDE DEF t, edges
    <2>3. DOMAIN edges = DOMAIN t /\ \A i \in DOMAIN edges : edges[i].to = t[i]
      BY <2>2
    <2>4. {edges[i].to : i \in DOMAIN edges} = TargetSet(p, b)
      BY <2>1, <2>3
    <2>5. \A i, j \in DOMAIN edges : edges[i] = edges[j] => i = j
      BY <2>1, <2>3
    <2>6. QED
      BY <2>4, <2>5 DEF Proved!Successors, Proved!Distinct, edges
  <1>6. \A b \in Block : TargetSet(p, b) \subseteq Block
    BY TargetsListed DEF Block
  <1>7. QED
    BY <1>3, <1>4, <1>5, <1>6 DEF Proved!WellFormed, Proved!DeclaredBlocks, SetEntry, Block, declared

\* Attributions are finitely many: at most every effect to every node.
LEMMA AttributedCounted ==
  ASSUME Assumptions, program \in Problem
  PROVE  /\ IsFiniteSet(Attributed) /\ Cardinality(Attributed) \in Nat
         /\ Cardinality(Attributed) <= Cardinality(Node) * EffectCount(program)
  <1>1. /\ IsFiniteSet(Node) /\ IsFiniteSet(Effects(program))
        /\ Cardinality(Effects(program)) = EffectCount(program)
    BY CountsTyped DEF Effects, EffectCount
  <1>2. /\ IsFiniteSet(Node \X Effects(program))
        /\ Cardinality(Node \X Effects(program)) = Cardinality(Node) * Cardinality(Effects(program))
    BY <1>1, FS_Product
  <1>3. Attributed \subseteq Node \X Effects(program)
    BY DEF Attributed
  <1>4. IsFiniteSet(Attributed) /\ Cardinality(Attributed) <= Cardinality(Node \X Effects(program))
    BY <1>2, <1>3, FS_Subset
  <1>5. QED
    BY <1>1, <1>2, <1>4, FS_CardinalityType

\* An effect is seeded where it is named.
LEMMA SeedsAreEffects ==
  ASSUME Assumptions, NEW p \in Problem, p.client = "effects", NEW n \in Node
  PROVE  Seed(p, n) \subseteq Effects(p) /\ Effects(p) \subseteq Name
  BY DEF Seed, Effects, Assumptions, ProblemAssumption

\* A step of the loop head: either nothing is due, or there is budget left for it.
LEMMA VisitWithinBudget ==
  ASSUME Assumptions, Proved!TypeOK, Proved!QueuedMirrorsQueue, program.client = "effects", WithinBudget,
         queue # <<>>
  PROVE  /\ iterations < SetLimit(program)
         /\ Head(queue) \in queued /\ IsFiniteSet(queued)
  <1>1. program \in Problem /\ queue \in Seq(Block) /\ queued \subseteq Block /\ iterations \in Nat
    BY DEF Proved!TypeOK, Block
  <1>2. IsFiniteSet(Node) /\ Cardinality(Node) \in Nat /\ EffectCount(program) \in Nat
    BY <1>1, CountsTyped
  <1>3. IsFiniteSet(Block)
    BY <1>2, FS_AddElement DEF Block
  <1>4. IsFiniteSet(queued)
    BY <1>1, <1>3, FS_Subset
  <1>5. Head(queue) \in queued
    BY <1>1 DEF Proved!QueuedMirrorsQueue
  <1>6. Cardinality(queued) \in Nat /\ Cardinality(queued) # 0
    BY <1>4, <1>5, FS_CardinalityType, FS_EmptySet
  <1>7. /\ Cardinality(Attributed) \in Nat
        /\ Cardinality(Attributed) <= Cardinality(Node) * EffectCount(program)
        /\ iterations + Cardinality(queued) <= 1 + Cardinality(Attributed)
    BY <1>1, AttributedCounted DEF WithinBudget
  <1> DEFINE n == Cardinality(Node)
             e == EffectCount(program)
             attributed == Cardinality(Attributed)
             due == Cardinality(queued)
  <1>8. SetLimit(program) = 1 + n * (e + 1)
    BY DEF SetLimit
  <1> HIDE DEF n, e, attributed, due
  <1>9. n * (e + 1) = n * e + n /\ n * e \in Nat
    BY <1>2 DEF n, e
  <1>10. attributed \in Nat /\ due \in Nat /\ due >= 1 /\ attributed <= n * e /\ iterations + due <= 1 + attributed
    BY <1>6, <1>7 DEF n, e, attributed, due
  <1>11. n \in Nat
    BY <1>2 DEF n
  <1>12. iterations < SetLimit(program)
    BY <1>1, <1>8, <1>9, <1>10, <1>11
  <1>13. QED
    BY <1>4, <1>5, <1>12

\* A transfer that is absorbed: its target grows by names it did not have.
LEMMA PropagateWithinBudget ==
  ASSUME Assumptions, Proved!TypeOK, program.client = "effects", WithinBudget, Proved!Propagate
  PROVE  WithinBudget'
  <1> DEFINE to == Head(pending).to
             value == Head(pending).value
  <1>1. /\ program \in Problem /\ program' = program
        /\ states \in [Block -> SUBSET Name] /\ queued \subseteq Block /\ iterations \in Nat
        /\ visiting # NoBlock /\ visiting \in Block /\ visiting' = visiting /\ status' = status
        /\ iterations' = iterations
        /\ status = "running"
    BY DEF Proved!TypeOK, Block, Proved!Propagate, Proved!Flowing, Proved!InVisit
  <1>2. pending \in Seq(Proved!Flow) /\ pending # <<>> /\ pending' = Tail(pending)
    BY DEF Proved!TypeOK, Proved!Propagate, Proved!Flowing
  <1>3. /\ Head(pending) = pending[1] /\ 1 \in DOMAIN pending
        /\ \A i \in DOMAIN Tail(pending) : i + 1 \in DOMAIN pending /\ Tail(pending)[i] = pending[i + 1]
    BY <1>2
  <1>4. /\ \A i \in DOMAIN pending : pending[i].value \subseteq Effects(program)
        /\ \A i \in DOMAIN pending : pending[i].to \in TargetSet(program, visiting)
    BY <1>1 DEF WithinBudget
  <1>5. value \subseteq Effects(program) /\ to \in Node
    BY <1>1, <1>3, <1>4, TargetsListed DEF Block
  <1>6. /\ states' = [states EXCEPT ![to] = Union(states[to], value)]
        /\ Union(states[to], value) # states[to]
        /\ queued' = queued \cup {to}
    BY DEF Proved!Propagate
  <1> HIDE DEF to, value
  <1>7. \A n \in Node : states'[n] \subseteq Effects(program)
    BY <1>1, <1>5, <1>6 DEF WithinBudget, Union, Block
  <1>8. states'[Source] = {}
    BY <1>1, <1>5, <1>6 DEF WithinBudget, Assumptions, ProblemAssumption, Block
  <1>9. iterations + Cardinality(queued') <= 1 + Cardinality(Attributed')
    <2> DEFINE old == Attributed
               new == Attributed'
    <2>1. IsFiniteSet(old) /\ Cardinality(old) \in Nat
      BY <1>1, AttributedCounted
    <2>2. IsFiniteSet(new) /\ Cardinality(new) \in Nat
      <3>1. IsFiniteSet(Node \X Effects(program))
        BY <1>1, CountsTyped, FS_Product DEF Effects
      <3>2. new \subseteq Node \X Effects(program)
        BY <1>1 DEF Attributed, Effects
      <3>3. QED
        BY <3>1, <3>2, FS_Subset, FS_CardinalityType
    <2>3. old \subseteq new
      BY <1>1, <1>5, <1>6 DEF Attributed, Union, Block, Effects
    <2>4. PICK x \in value : x \notin states[to]
      BY <1>6 DEF Union
    <2>5. <<to, x>> \in new /\ <<to, x>> \notin old
      BY <1>1, <1>5, <1>6, <2>4 DEF Attributed, Union, Block, Effects
    <2> HIDE DEF old, new
    <2>6. Cardinality(old) + 1 <= Cardinality(new)
      <3>1. Cardinality(old) <= Cardinality(new) /\ (Cardinality(new) = Cardinality(old) => new = old)
        BY <2>2, <2>3, FS_Subset
      <3>2. QED
        BY <2>1, <2>2, <2>5, <3>1
    <2>7. IsFiniteSet(queued)
      <3>1. IsFiniteSet(Block)
        BY <1>1, CountsTyped, FS_AddElement DEF Block
      <3>2. QED
        BY <1>1, <3>1, FS_Subset
    <2>8. Cardinality(queued) \in Nat /\ Cardinality(queued') \in Nat /\ Cardinality(queued') <= Cardinality(queued) + 1
      <3>1. /\ IsFiniteSet(queued \cup {to})
            /\ Cardinality(queued \cup {to}) = IF to \in queued THEN Cardinality(queued) ELSE Cardinality(queued) + 1
        BY <2>7, FS_AddElement
      <3>2. Cardinality(queued) \in Nat /\ Cardinality(queued \cup {to}) \in Nat
        BY <2>7, <3>1, FS_CardinalityType
      <3>3. Cardinality(queued \cup {to}) <= Cardinality(queued) + 1
        BY <3>1, <3>2
      <3>4. QED
        BY <1>6, <3>2, <3>3
    <2>9. iterations + Cardinality(queued) <= 1 + Cardinality(old)
      BY DEF WithinBudget, old
    <2>10. iterations + Cardinality(queued') <= 1 + Cardinality(new)
      BY <1>1, <2>1, <2>2, <2>6, <2>8, <2>9
    <2>11. QED
      BY <2>10 DEF new
  <1>10. /\ \A i \in DOMAIN pending' : pending'[i].value \subseteq Effects(program)
         /\ \A i \in DOMAIN pending' : pending'[i].to \in TargetSet(program, visiting)
    BY <1>2, <1>3, <1>4
  <1>11. QED
    BY <1>1, <1>7, <1>8, <1>9, <1>10 DEF WithinBudget

\* The seed of the entry block is empty, and joining names gives no conflict.
LEMMA NoConflict ==
  ASSUME Assumptions, NEW s \in SUBSET Name, NEW v \in SUBSET Name
  PROVE  Union(s, v) # {Source}
  BY DEF Union, Assumptions, ProblemAssumption

\* A visit is paid for by the entry it takes off the worklist, and sends effects to targets only.
LEMMA VisitKeepsBudget ==
  ASSUME Assumptions, Proved!TypeOK, Proved!QueuedMirrorsQueue, program.client = "effects", WithinBudget,
         Proved!Visit
  PROVE  WithinBudget'
  <1> DEFINE id == Head(queue)
  <1>1. /\ program \in Problem /\ program' = program /\ states' = states /\ status' = status
        /\ states \in [Block -> SUBSET Name] /\ queued \subseteq Block /\ iterations \in Nat
        /\ iterations' = iterations + 1 /\ queued' = queued \ {id} /\ visiting' = id
        /\ pending' = SetTransfer(program, id, states[id])
        /\ queue # <<>> /\ status = "running"
    BY DEF Proved!TypeOK, Block, Proved!Visit
  <1>2. id \in queued /\ IsFiniteSet(queued) /\ id \in Block
    BY <1>1, VisitWithinBudget
  <1> HIDE DEF id
  <1>3. ASSUME NEW i \in DOMAIN pending'
        PROVE  pending'[i].value \subseteq Effects(program) /\ pending'[i].to \in TargetSet(program, id)
    <2>1. /\ pending'[i] = [to |-> Targets(program, id)[i],
                           value |-> IF id = Source THEN Seed(program, Targets(program, id)[i]) ELSE states[id]]
          /\ Targets(program, id)[i] \in TargetSet(program, id)
      BY <1>1, <1>2, TransferSends DEF Block
    <2>2. id = Source => Seed(program, Targets(program, id)[i]) \subseteq Effects(program)
      BY <1>1, <2>1, SeedTyped, SeedsAreEffects
    <2>3. id # Source => states[id] \subseteq Effects(program)
      BY <1>2 DEF WithinBudget, Block
    <2>4. QED
      BY <2>1, <2>2, <2>3
  <1>4. iterations' + Cardinality(queued') <= 1 + Cardinality(Attributed')
    <2>1. Cardinality(queued \ {id}) = Cardinality(queued) - 1 /\ Cardinality(queued) \in Nat
      BY <1>2, FS_RemoveElement, FS_CardinalityType
    <2>2. Attributed' = Attributed
      BY <1>1 DEF Attributed
    <2>3. iterations + Cardinality(queued) <= 1 + Cardinality(Attributed) /\ Cardinality(Attributed) \in Nat
      BY <1>1, AttributedCounted DEF WithinBudget
    <2>4. QED
      BY <1>1, <2>1, <2>2, <2>3
  <1>5. QED
    BY <1>1, <1>3, <1>4 DEF WithinBudget

\* The first entry of the worklist is due before anything is attributed.
LEMMA BeginWithinBudget ==
  ASSUME Assumptions, Proved!TypeOK, Proved!NotStarted, program.client = "effects", WithinBudget, Proved!Begin
  PROVE  WithinBudget'
  <1>1. /\ program \in Problem /\ program' = program /\ status' = "running" /\ iterations' = 0
        /\ pending' = <<>> /\ visiting' = NoBlock /\ queued' = {Source}
        /\ states' = [states EXCEPT ![Source] = Union({}, {})]
        /\ states = [b \in Block |-> {}]
    BY DEF Proved!TypeOK, Proved!NotStarted, Proved!Begin, WithinBudget, Block, SetEntry, SetInitial
  <1>2. states' = states /\ Source \in Block /\ \A n \in Node : n \in Block
    BY <1>1 DEF Union, Block
  <1>3. Attributed' = Attributed
    BY <1>1, <1>2 DEF Attributed
  <1>4. Cardinality(Attributed) \in Nat
    BY <1>1, AttributedCounted
  <1>5. Cardinality({Source}) = 1
    BY FS_Singleton
  <1>6. iterations' + Cardinality(queued') <= 1 + Cardinality(Attributed')
    BY <1>1, <1>3, <1>4, <1>5
  <1>7. QED
    BY <1>1, <1>2, <1>6 DEF WithinBudget

\* Effect propagation never throws: the call is well formed, names never conflict, and
\* the budget is larger than the number of visits that attributions can call for.
THEOREM EffectsSucceed ==
  ASSUME Assumptions
  PROVE  SetSpec => []EffectsNeverFail
  <1> DEFINE Inv == program.client = "effects" => WithinBudget
  <1>0. Proved!NamesAssumption /\ Proved!LatticeAssumption /\ Proved!ProgramAssumption
    BY UnionIsLattice, ProblemIsProgram DEF Assumptions
  <1>1. Proved!Init => Inv
    <2> SUFFICES ASSUME Proved!Init PROVE WithinBudget
      OBVIOUS
    <2>1. /\ program \in Problem /\ status = "validating" /\ states = [b \in Block |-> {}] /\ queued = {}
          /\ iterations = 0 /\ visiting = NoBlock /\ pending = <<>>
      BY DEF Proved!Init, Block
    <2>2. Cardinality(queued) = 0 /\ Cardinality(Attributed) \in Nat
      BY <2>1, FS_EmptySet, AttributedCounted
    <2>3. QED
      BY <2>1, <2>2 DEF WithinBudget, Block
  <1>2. Proved!TypeOK /\ Proved!QueuedMirrorsQueue /\ Proved!NotStarted /\ Inv /\ [Proved!Next]_(Proved!vars) => Inv'
    <2> SUFFICES ASSUME Proved!TypeOK, Proved!QueuedMirrorsQueue, Proved!NotStarted, Inv,
                        [Proved!Next]_(Proved!vars), program'.client = "effects"
                 PROVE  WithinBudget'
      OBVIOUS
    <2>0. program' = program
      BY DEF Proved!Next, Proved!vars, Proved!RejectBudget, Proved!RejectGraph, Proved!ConflictAtEntry,
        Proved!Begin, Proved!Converge, Proved!ExhaustBudget, Proved!Visit, Proved!FinishVisit,
        Proved!UndeclaredTransfer, Proved!ConflictTransfer, Proved!NothingNew, Proved!Propagate, Proved!Return
    <2>1. /\ program.client = "effects" /\ WithinBudget
          /\ program \in Problem /\ states \in [Block -> SUBSET Name] /\ queued \subseteq Block
          /\ iterations \in Nat /\ visiting \in Block \cup {NoBlock} /\ pending \in Seq(Proved!Flow)
      BY <2>0 DEF Proved!TypeOK, Block
    <2>2. pending # <<>> => /\ Head(pending) = pending[1] /\ 1 \in DOMAIN pending
                            /\ Head(pending).to \in Block /\ Head(pending).value \in SUBSET Name
                            /\ \A i \in DOMAIN Tail(pending) :
                                 i + 1 \in DOMAIN pending /\ Tail(pending)[i] = pending[i + 1]
      <3> SUFFICES ASSUME pending # <<>>
                   PROVE  /\ Head(pending) = pending[1] /\ 1 \in DOMAIN pending
                          /\ Head(pending).to \in Block /\ Head(pending).value \in SUBSET Name
                          /\ \A i \in DOMAIN Tail(pending) :
                               i + 1 \in DOMAIN pending /\ Tail(pending)[i] = pending[i + 1]
        OBVIOUS
      <3>1. Head(pending) \in Proved!Flow
        BY <2>1
      <3>2. Head(pending).to \in Block /\ Head(pending).value \in SUBSET Name
        BY <3>1 DEF Proved!Flow, Block
      <3>3. /\ Head(pending) = pending[1] /\ 1 \in DOMAIN pending
            /\ \A i \in DOMAIN Tail(pending) : i + 1 \in DOMAIN pending /\ Tail(pending)[i] = pending[i + 1]
        BY <2>1
      <3>4. QED
        BY <3>2, <3>3
    <2>3. CASE UNCHANGED <<states, queued, iterations, visiting, pending>> /\ status' = status
      BY <2>0, <2>1, <2>3 DEF WithinBudget, Attributed
    <2>4. ~Proved!RejectBudget
      <3>1. SetLimit(program) \in Nat \ {0}
        BY <2>1, CountsTyped
      <3>2. ~(SetLimit(program) <= 0)
        BY <3>1
      <3>3. QED
        BY <3>2 DEF Proved!RejectBudget
    <2>5. ~Proved!RejectGraph
      BY <2>1, LoweredIsWellFormed DEF Proved!RejectGraph
    <2>6. ~Proved!ConflictAtEntry
      BY NoConflict DEF Proved!ConflictAtEntry, SetInitial
    <2>7. CASE Proved!Begin
      BY <2>1, <2>7, BeginWithinBudget
    <2>8. CASE Proved!Converge
      BY <2>0, <2>1, <2>8 DEF WithinBudget, Attributed, Proved!Converge, Proved!Return
    <2>9. ~Proved!ExhaustBudget
      <3> SUFFICES ASSUME queue # <<>> PROVE ~(iterations >= SetLimit(program))
        BY DEF Proved!ExhaustBudget
      <3>1. iterations < SetLimit(program) /\ SetLimit(program) \in Nat
        BY <2>1, VisitWithinBudget, CountsTyped
      <3>2. QED
        BY <2>1, <3>1
    <2>10. CASE Proved!Visit
      BY <2>1, <2>10, VisitKeepsBudget
    <2>11. CASE Proved!FinishVisit
      BY <2>0, <2>1, <2>11 DEF WithinBudget, Attributed, Proved!FinishVisit
    <2>12. ~Proved!UndeclaredTransfer
      BY <2>1, <2>2, LoweredIsWellFormed DEF Proved!UndeclaredTransfer, Proved!Flowing, Proved!InVisit,
        WithinBudget
    <2>13. ~Proved!ConflictTransfer
      BY <2>1, <2>2, NoConflict DEF Proved!ConflictTransfer, Proved!Flowing
    <2>14. CASE Proved!NothingNew
      BY <2>0, <2>1, <2>2, <2>14 DEF WithinBudget, Attributed, Proved!NothingNew, Proved!Flowing
    <2>15. CASE Proved!Propagate
      BY <2>1, <2>15, PropagateWithinBudget
    <2>16. QED
      BY <2>3, <2>4, <2>5, <2>6, <2>7, <2>8, <2>9, <2>10, <2>11, <2>12, <2>13, <2>14, <2>15
        DEF Proved!Next, Proved!vars
  <1>3. Inv => EffectsNeverFail
    BY DEF WithinBudget, EffectsNeverFail
  <1> HIDE DEF Inv
  <1>4. QED
    BY <1>0, <1>1, <1>2, <1>3, SameEngine, Proved!TypeCorrect, Proved!QueueConsistent,
      Proved!NotStartedInvariant, PTL DEF Proved!Spec

=============================================================================
