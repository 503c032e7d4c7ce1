--------------------------- MODULE WorkflowProofs ---------------------------
(***************************************************************************)
(* Proofs about the workflow preflight, for every workflow without forks:  *)
(* the theorems about the data-flow engine, applied to its instance for    *)
(* guaranteed facts, against the executions of the workflow.               *)
(***************************************************************************)
EXTENDS WorkflowPreflight, FiniteProofs

Proved == INSTANCE FixedPointProofs WITH
  Block <- Step, Label <- {"next"}, InvalidLabel <- {},
  Value <- Facts, Bottom <- Null, Conflict <- {Null}, Join <- MustJoin,
  Program <- Workflow, Declared <- PreflightDeclared, Edges <- PreflightEdges,
  Entry <- PreflightEntry, Initial <- PreflightInitial, Limit <- PreflightLimit,
  Transfer <- PreflightTransfer

Assumptions == StepOrderAssumption /\ WorkflowAssumption

-----------------------------------------------------------------------------
\* The instance.

\* The engine's steps are the steps the theorems are about.
LEMMA SameEngine == PreflightSpec => Proved!Spec
  <1>1. PreflightEngine!Init => Proved!Init
    BY DEF PreflightEngine!Init, Proved!Init
  <1>2. [PreflightEngine!Next]_(PreflightEngine!vars) => [Proved!Next]_(Proved!vars)
    <2>1. PreflightEngine!RejectBudget => Proved!RejectBudget
      BY DEF PreflightEngine!RejectBudget, Proved!RejectBudget, PreflightEngine!Return, Proved!Return
    <2>2. PreflightEngine!RejectGraph => Proved!RejectGraph
      BY DEF PreflightEngine!RejectGraph, Proved!RejectGraph, PreflightEngine!Return, Proved!Return,
          PreflightEngine!WellFormed, Proved!WellFormed, PreflightEngine!Distinct, Proved!Distinct,
          PreflightEngine!DeclaredBlocks, Proved!DeclaredBlocks, PreflightEngine!Successors, Proved!Successors
    <2>3. PreflightEngine!ConflictAtEntry => Proved!ConflictAtEntry
      BY DEF PreflightEngine!ConflictAtEntry, Proved!ConflictAtEntry, PreflightEngine!Return, Proved!Return,
          PreflightEngine!WellFormed, Proved!WellFormed, PreflightEngine!Distinct, Proved!Distinct,
          PreflightEngine!DeclaredBlocks, Proved!DeclaredBlocks, PreflightEngine!Successors, Proved!Successors
    <2>4. PreflightEngine!Begin => Proved!Begin
      BY DEF PreflightEngine!Begin, Proved!Begin, PreflightEngine!WellFormed, Proved!WellFormed, PreflightEngine!Distinct,
          Proved!Distinct, PreflightEngine!DeclaredBlocks, Proved!DeclaredBlocks, PreflightEngine!Successors,
          Proved!Successors
    <2>5. PreflightEngine!Converge => Proved!Converge
      BY DEF PreflightEngine!Converge, Proved!Converge, PreflightEngine!Return, Proved!Return
    <2>6. PreflightEngine!ExhaustBudget => Proved!ExhaustBudget
      BY DEF PreflightEngine!ExhaustBudget, Proved!ExhaustBudget, PreflightEngine!Return, Proved!Return
    <2>7. PreflightEngine!Visit => Proved!Visit
      BY DEF PreflightEngine!Visit, Proved!Visit
    <2>8. PreflightEngine!FinishVisit => Proved!FinishVisit
      BY DEF PreflightEngine!FinishVisit, Proved!FinishVisit, PreflightEngine!InVisit, Proved!InVisit
    <2>9. PreflightEngine!UndeclaredTransfer => Proved!UndeclaredTransfer
      BY DEF PreflightEngine!UndeclaredTransfer, Proved!UndeclaredTransfer, PreflightEngine!Flowing, Proved!Flowing,
          PreflightEngine!InVisit, Proved!InVisit, PreflightEngine!Successors, Proved!Successors, PreflightEngine!Return,
          Proved!Return
    <2>10. PreflightEngine!ConflictTransfer => Proved!ConflictTransfer
      BY DEF PreflightEngine!ConflictTransfer, Proved!ConflictTransfer, PreflightEngine!Flowing, Proved!Flowing,
          PreflightEngine!InVisit, Proved!InVisit, PreflightEngine!Successors, Proved!Successors, PreflightEngine!Return,
          Proved!Return
    <2>11. PreflightEngine!NothingNew => Proved!NothingNew
      BY DEF PreflightEngine!NothingNew, Proved!NothingNew, PreflightEngine!Flowing, Proved!Flowing, PreflightEngine!InVisit,
          Proved!InVisit, PreflightEngine!Successors, Proved!Successors, PreflightEngine!Absorbs, Proved!Absorbs
    <2>12. PreflightEngine!Propagate => Proved!Propagate
      BY DEF PreflightEngine!Propagate, Proved!Propagate, PreflightEngine!Flowing, Proved!Flowing, PreflightEngine!InVisit,
          Proved!InVisit, PreflightEngine!Successors, Proved!Successors
    <2>13. QED
      BY <2>1, <2>2, <2>3, <2>4, <2>5, <2>6, <2>7, <2>8, <2>9, <2>10, <2>11, <2>12 DEF PreflightEngine!Next,
          Proved!Next, PreflightEngine!vars, Proved!vars
  <1>3. QED
    BY <1>1, <1>2, PTL DEF PreflightSpec, PreflightEngine!Spec, Proved!Spec

\* A value that absorbs another guarantees no more.
LEMMA AbsorbsGuarantees ==
  ASSUME Assumptions, NEW a \in Facts, NEW b \in Facts
  PROVE  MustJoin(a, b) = a <=> b = Null \/ (a # Null /\ a \subseteq b)
  BY DEF MustJoin, Facts, Assumptions, WorkflowAssumption

\* Guaranteed facts form a lattice: unreachable is its bottom, joining intersects.
LEMMA MustIsLattice ==
  ASSUME Assumptions
  PROVE  Proved!NamesAssumption /\ Proved!LatticeAssumption
  <1>1. Proved!NamesAssumption
    BY DEF Proved!NamesAssumption, Facts, Assumptions, WorkflowAssumption
  <1>2. \A a, b \in Facts : MustJoin(a, b) \in Facts
    BY DEF MustJoin, Facts
  <1>3. \A v \in Facts : MustJoin(v, v) = v /\ MustJoin(Null, v) = v /\ MustJoin(v, Null) = v
    BY DEF MustJoin, Facts
  <1>4. \A a, b \in Facts : MustJoin(MustJoin(a, b), a) = MustJoin(a, b) /\ MustJoin(MustJoin(a, b), b) = MustJoin(a, b)
    BY DEF MustJoin, Facts, Assumptions, WorkflowAssumption
  <1>5. \A a, b, c \in Facts : MustJoin(c, b) = c /\ MustJoin(b, a) = b => MustJoin(c, a) = c
    <2> TAKE a, b, c \in Facts
    <2>1. QED
      BY AbsorbsGuarantees
  <1>6. \A a, b, c \in Facts : MustJoin(c, a) = c /\ MustJoin(c, b) = c => MustJoin(c, MustJoin(a, b)) = c
    BY DEF MustJoin, Facts, Assumptions, WorkflowAssumption
  <1>7. Null \in Facts
    BY DEF Facts
  <1>8. Proved!LatticeAssumption
    <2>1. \A a, b \in Facts : MustJoin(a, b) \in Facts \cup {{Null}}
      BY <1>2
    <2>2. \A a, b \in Facts : MustJoin(a, b) \in Facts =>
            MustJoin(MustJoin(a, b), a) = MustJoin(a, b) /\ MustJoin(MustJoin(a, b), b) = MustJoin(a, b)
      BY <1>4
    <2>3. \A a, b, c \in Facts : MustJoin(c, a) = c /\ MustJoin(c, b) = c =>
            MustJoin(a, b) \in Facts /\ MustJoin(c, MustJoin(a, b)) = c
      BY <1>2, <1>6
    <2>4. QED
      BY <1>3, <1>5, <1>7, <2>1, <2>2, <2>3, Zenon DEF Proved!LatticeAssumption, Proved!Absorbs
  <1>9. QED
    BY <1>1, <1>8

\* A step of the input with its successors, and what executing it does to the facts.
LEMMA WorkflowTyped ==
  ASSUME Assumptions, NEW w \in Workflow, NEW step \in Step
  PROVE  /\ w.next[step] \subseteq Step
         /\ w.requires[step] \subseteq Fact /\ w.provides[step] \subseteq Fact /\ w.revokes[step] \subseteq Fact
         /\ w.entry \in Step /\ w.initial \in SUBSET Fact
  BY DEF Assumptions, WorkflowAssumption

\* The successors are listed in the order of the input, each once.
LEMMA SuccessorsListed ==
  ASSUME Assumptions, NEW w \in Workflow, NEW step \in Step
  PROVE  /\ NextSteps(w, step) \in Seq(Step)
         /\ {NextSteps(w, step)[i] : i \in DOMAIN NextSteps(w, step)} = w.next[step]
  <1> DEFINE list == NextSteps(w, step)
             set == w.next[step]
  <1>1. /\ StepOrder \in Seq(Step)
        /\ Step = {StepOrder[i] : i \in DOMAIN StepOrder}
    BY DEF Assumptions, StepOrderAssumption
  <1>2. set \subseteq Step
    BY WorkflowTyped
  <1>3. list = Listed(StepOrder, set)
    BY DEF NextSteps
  <1> HIDE DEF list, set
  <1>4. list \in Seq(Step) /\ Held(list) = Held(StepOrder) \cap set
    BY <1>1, <1>3, ListedElements
  <1>5. {list[i] : i \in DOMAIN list} = set
    BY <1>1, <1>2, <1>4 DEF Held
  <1>6. QED
    BY <1>4, <1>5 DEF list, set

\* What a reached step hands on, and to whom.
LEMMA TransferSends ==
  ASSUME Assumptions, NEW w \in Workflow, NEW step \in Step, NEW facts \in SUBSET Fact
  PROVE  /\ DOMAIN PreflightTransfer(w, step, facts) = DOMAIN NextSteps(w, step)
         /\ \A i \in DOMAIN PreflightTransfer(w, step, facts) :
              PreflightTransfer(w, step, facts)[i] = [to |-> NextSteps(w, step)[i], value |-> After(w, step, facts)]
         /\ After(w, step, facts) \in SUBSET Fact
  <1>1. facts # Null
    BY DEF Assumptions, WorkflowAssumption
  <1>2. After(w, step, facts) \in SUBSET Fact
    BY WorkflowTyped DEF After
  <1>3. QED
    BY <1>1, <1>2 DEF PreflightTransfer

\* The lowering gives the engine what it expects.
LEMMA WorkflowIsProgram ==
  ASSUME Assumptions
  PROVE  Proved!ProgramAssumption
  <1> SUFFICES ASSUME NEW w \in Workflow
               PROVE  /\ PreflightDeclared(w) \in Seq(Step)
                      /\ PreflightEntry(w) \in Step
                      /\ PreflightInitial(w) \in Facts
                      /\ PreflightLimit(w) \in Int
                      /\ \A b \in Step :
                           /\ PreflightEdges(w, b) \in Seq(Proved!Edge)
                           /\ \A v \in Facts : PreflightTransfer(w, b, v) \in Seq(Proved!Flow)
    BY DEF Proved!ProgramAssumption
  <1>1. PreflightDeclared(w) \in Seq(Step)
    BY DEF PreflightDeclared, Assumptions, StepOrderAssumption
  <1>2. PreflightEntry(w) \in Step /\ PreflightInitial(w) \in Facts /\ PreflightLimit(w) \in Int
    BY DEF PreflightEntry, PreflightInitial, PreflightLimit, Facts, Assumptions, WorkflowAssumption
  <1>3. ASSUME NEW b \in Step PROVE PreflightEdges(w, b) \in Seq(Proved!Edge)
    <2> DEFINE list == NextSteps(w, b)
    <2>1. list \in Seq(Step)
      BY SuccessorsListed
    <2>2. PreflightEdges(w, b) = [i \in DOMAIN list |-> [to |-> list[i], label |-> "next"]]
      BY DEF PreflightEdges
    <2> HIDE DEF list
    <2>3. \A i \in DOMAIN list : [to |-> list[i], label |-> "next"] \in Proved!Edge
      BY <2>1 DEF Proved!Edge
    <2>4. QED
      BY <2>1, <2>2, <2>3
  <1>4. ASSUME NEW b \in Step, NEW v \in Facts PROVE PreflightTransfer(w, b, v) \in Seq(Proved!Flow)
    <2> DEFINE list == NextSteps(w, b)
               sent == After(w, b, v)
    <2>1. CASE v = Null
      BY <2>1 DEF PreflightTransfer
    <2>2. CASE v # Null
      <3>1. list \in Seq(Step)
        BY SuccessorsListed
      <3>2. PreflightTransfer(w, b, v) = [i \in DOMAIN list |-> [to |-> list[i], value |-> sent]]
        BY <2>2 DEF PreflightTransfer
      <3>3. sent \in Facts
        BY <2>2, TransferSends DEF Facts
      <3> HIDE DEF list, sent
      <3>4. \A i \in DOMAIN list : [to |-> list[i], value |-> sent] \in Proved!Flow
        BY <3>1, <3>3 DEF Proved!Flow
      <3>5. QED
        BY <3>1, <3>2, <3>4
    <2>3. QED
      BY <2>1, <2>2
  <1>5. QED
    BY <1>1, <1>2, <1>3, <1>4

-----------------------------------------------------------------------------
\* Executions.

Start(w) == <<w.entry, w.initial>>

\* The successors of a situation are situations.
LEMMA FollowingTyped ==
  ASSUME Assumptions, NEW w \in Workflow, NEW s \in Situations
  PROVE  /\ s[1] \in Step /\ s[2] \in SUBSET Fact /\ s = <<s[1], s[2]>>
         /\ Following(w, s) \subseteq Situations
         /\ Start(w) \in Situations
  BY WorkflowTyped DEF Situations, Following, Start

\* There are finitely many situations.
LEMMA SituationsFinite ==
  ASSUME Assumptions
  PROVE  IsFiniteSet(Situations) /\ Cardinality(Situations) \in Nat
  <1>1. IsFiniteSet(Step)
    <2>1. StepOrder \in Seq(Step) /\ Step = {StepOrder[i] : i \in DOMAIN StepOrder}
      BY DEF Assumptions, StepOrderAssumption
    <2>2. Len(StepOrder) \in Nat /\ DOMAIN StepOrder = 1 .. Len(StepOrder)
      BY <2>1
    <2>3. \E n \in Nat : ExistsSurjection(1 .. n, Step)
      BY <2>1, <2>2 DEF ExistsSurjection, Surjection
    <2>4. QED
      BY <2>3, FS_NatSurjection
  <1>2. IsFiniteSet(SUBSET Fact)
    BY FS_SUBSET DEF Assumptions, WorkflowAssumption
  <1>3. QED
    BY <1>1, <1>2, FS_Product, FS_CardinalityType DEF Situations

\* The situations reached within n steps are those reached within n - 1, and their successors.
LEMMA WithinSteps ==
  ASSUME Assumptions, NEW w \in Workflow
  PROVE  /\ Within(w) \in [Nat -> SUBSET Situations]
         /\ Within(w)[0] = {Start(w)}
         /\ \A n \in Nat : Within(w)[n + 1] = Within(w)[n] \cup UNION {Following(w, s) : s \in Within(w)[n]}
  <1> DEFINE more(x) == x \cup UNION {Following(w, s) : s \in x}
             g == [x \in SUBSET Situations |-> more(x)]
             Recursive(f) == f = [n \in Nat |-> IF n = 0 THEN {Start(w)} ELSE more(f[n - 1])]
  <1>1. g \in [SUBSET Situations -> SUBSET Situations]
    <2>1. \A x \in SUBSET Situations : more(x) \in SUBSET Situations
      BY FollowingTyped
    <2> HIDE DEF more
    <2>2. QED
      BY <2>1
  <1>2. {Start(w)} \in SUBSET Situations
    <2>1. w.entry \in Step /\ w.initial \in SUBSET Fact
      BY DEF Assumptions, WorkflowAssumption
    <2>2. QED
      BY <2>1 DEF Situations, Start
  <1> HIDE DEF more
  <1>3. PICK f \in [Nat -> SUBSET Situations] : f[0] = {Start(w)} /\ \A n \in Nat : f[n + 1] = g[f[n]]
    <2> DEFINE U == SUBSET Situations
               a == {Start(w)}
    <2>1. a \in U /\ g \in [U -> U]
      BY <1>1, <1>2
    <2> HIDE DEF g, U, a
    <2>2. \E f \in [Nat -> U] : f[0] = a /\ \A n \in Nat : f[n + 1] = g[f[n]]
      BY <2>1, Iterates, Z3
    <2>3. QED
      BY <2>2 DEF U, a
  <1>4. Recursive(f)
    <2>1. ASSUME NEW n \in Nat, n # 0 PROVE f[n] = more(f[n - 1])
      <3>1. n - 1 \in Nat /\ (n - 1) + 1 = n
        BY <2>1
      <3>2. f[(n - 1) + 1] = g[f[n - 1]] /\ f[n - 1] \in SUBSET Situations
        BY <1>3, <3>1
      <3>3. QED
        BY <3>1, <3>2
    <2> DEFINE h == [n \in Nat |-> IF n = 0 THEN {Start(w)} ELSE more(f[n - 1])]
    <2>2. \A n \in Nat : f[n] = h[n]
      BY <1>3, <2>1
    <2>3. f = h
      <3>1. DOMAIN h = Nat /\ h = [n \in Nat |-> h[n]] /\ f = [n \in Nat |-> f[n]]
        BY <1>3
      <3> HIDE DEF h
      <3>2. QED
        BY <2>2, <3>1
    <2>4. QED
      BY <2>3
  <1>5. Within(w) = CHOOSE x : Recursive(x)
    BY DEF Within, Start, more
  <1> DEFINE r == Within(w)
  <1>6. Recursive(r)
    <2> HIDE DEF Recursive
    <2>1. QED
      BY <1>4, <1>5
  <1> HIDE DEF r
  <1>7. r[0] = {Start(w)}
    BY <1>6
  <1>8. ASSUME NEW n \in Nat PROVE r[n + 1] = more(r[n])
    <2>1. n + 1 \in Nat /\ n + 1 # 0 /\ (n + 1) - 1 = n
      OBVIOUS
    <2>2. QED
      BY <1>6, <2>1
  <1>9. \A n \in Nat : r[n] \in SUBSET Situations
    <2> DEFINE T == {n \in Nat : r[n] \notin SUBSET Situations}
    <2>1. SUFFICES ASSUME T # {} PROVE FALSE
      OBVIOUS
    <2>2. PICK n \in T : \A m \in T : n <= m
      <3>1. T \in SUBSET Nat
        OBVIOUS
      <3> HIDE DEF T
      <3>2. QED
        BY <2>1, <3>1, LeastNat
    <2>3. n # 0
      BY <1>2, <1>7, <2>2
    <2>4. n - 1 \in Nat /\ (n - 1) + 1 = n /\ n - 1 \notin T
      BY <2>2, <2>3
    <2>5. r[n - 1] \in SUBSET Situations /\ r[(n - 1) + 1] = more(r[n - 1])
      BY <1>8, <2>4
    <2>6. more(r[n - 1]) \in SUBSET Situations
      BY <2>5, FollowingTyped DEF more
    <2>7. QED
      BY <2>2, <2>4, <2>5, <2>6
  <1>10. r \in [Nat -> SUBSET Situations]
    <2>1. DOMAIN r = Nat /\ r = [n \in Nat |-> r[n]]
      <3> DEFINE h == [n \in Nat |-> IF n = 0 THEN {Start(w)} ELSE more(r[n - 1])]
      <3>1. DOMAIN h = Nat /\ h = [n \in Nat |-> h[n]] /\ r = h
        BY <1>6
      <3> HIDE DEF h, Recursive
      <3>2. QED
        BY <3>1
    <2>2. QED
      BY <1>9, <2>1
  <1>11. QED
    BY <1>7, <1>8, <1>10 DEF more, r

\* The situations executions meet are the least set that holds the start and with a
\* situation everything that can follow it.
LEMMA MetIsLeast ==
  ASSUME Assumptions, NEW w \in Workflow
  PROVE  /\ Met(w) \subseteq Situations
         /\ Start(w) \in Met(w)
         /\ \A s \in Met(w) : Following(w, s) \subseteq Met(w)
         /\ \A c \in SUBSET Situations :
              Start(w) \in c /\ (\A s \in c : Following(w, s) \subseteq c) => Met(w) \subseteq c
  <1> DEFINE r == Within(w)
             N == Cardinality(Situations)
             more(x) == x \cup UNION {Following(w, s) : s \in x}
             g == [x \in SUBSET Situations |-> more(x)]
  <1>1. /\ r \in [Nat -> SUBSET Situations]
        /\ r[0] = {Start(w)}
        /\ \A n \in Nat : r[n + 1] = more(r[n])
    BY WithinSteps
  <1>2. Met(w) = r[N] /\ N \in Nat /\ IsFiniteSet(Situations)
    BY SituationsFinite DEF Met
  <1>3. /\ g \in [SUBSET Situations -> SUBSET Situations]
        /\ \A x \in SUBSET Situations : x \subseteq g[x] /\ g[x] = more(x)
    <2>1. \A x \in SUBSET Situations : more(x) \in SUBSET Situations /\ x \subseteq more(x)
      BY FollowingTyped
    <2> HIDE DEF more
    <2>2. QED
      BY <2>1
  <1> HIDE DEF r, more, g
  <1>4. \A n \in Nat : r[n + 1] = g[r[n]]
    BY <1>1, <1>3
  <1>5. g[r[N]] = r[N]
    BY <1>1, <1>2, <1>3, <1>4, GrowthEnds
  <1>6. more(r[N]) = r[N]
    BY <1>1, <1>2, <1>3, <1>5
  <1>7. \A s \in r[N] : Following(w, s) \subseteq r[N]
    BY <1>6 DEF more
  <1>8. ASSUME NEW c \in SUBSET Situations, Start(w) \in c, \A s \in c : Following(w, s) \subseteq c, NEW n \in Nat
        PROVE  r[n] \subseteq c
    <2> DEFINE T == {m \in Nat : ~(r[m] \subseteq c)}
    <2>1. SUFFICES ASSUME T # {} PROVE FALSE
      OBVIOUS
    <2>2. PICK m \in T : \A l \in T : m <= l
      <3>1. T \in SUBSET Nat
        OBVIOUS
      <3> HIDE DEF T
      <3>2. QED
        BY <2>1, <3>1, LeastNat
    <2>3. m # 0
      BY <1>1, <1>8, <2>2
    <2>4. m - 1 \in Nat /\ (m - 1) + 1 = m /\ m - 1 \notin T
      BY <2>2, <2>3
    <2>5. r[m - 1] \subseteq c /\ r[(m - 1) + 1] = more(r[m - 1])
      BY <1>1, <2>4
    <2>6. more(r[m - 1]) \subseteq c
      BY <1>8, <2>5 DEF more
    <2>7. QED
      BY <2>2, <2>4, <2>5, <2>6
  <1>9. \A n \in Nat : Start(w) \in r[n]
    <2> DEFINE T == {m \in Nat : Start(w) \notin r[m]}
    <2>1. SUFFICES ASSUME T # {} PROVE FALSE
      OBVIOUS
    <2>2. PICK m \in T : \A l \in T : m <= l
      <3>1. T \in SUBSET Nat
        OBVIOUS
      <3> HIDE DEF T
      <3>2. QED
        BY <2>1, <3>1, LeastNat
    <2>3. m # 0
      BY <1>1, <2>2
    <2>4. m - 1 \in Nat /\ (m - 1) + 1 = m /\ m - 1 \notin T
      BY <2>2, <2>3
    <2>5. r[(m - 1) + 1] = more(r[m - 1])
      BY <1>1, <2>4
    <2>6. QED
      BY <2>2, <2>4, <2>5 DEF more
  <1>10. QED
    BY <1>1, <1>2, <1>7, <1>8, <1>9

-----------------------------------------------------------------------------
\* The result.

\* The facts that hold when an execution enters a step.
Entries(w, step) == {s[2] : s \in {m \in Met(w) : m[1] = step}}

\* What a step may rely on.
Reliable(w, step) ==
  IF Entries(w, step) = {} THEN Null ELSE {f \in Fact : \A facts \in Entries(w, step) : f \in facts}

\* An entry of a step is a situation some execution meets.
LEMMA EntryMet ==
  ASSUME Assumptions, NEW w \in Workflow, NEW step
  PROVE  \A facts : facts \in Entries(w, step) <=> <<step, facts>> \in Met(w)
  <1>1. \A m \in Met(w) : m = <<m[1], m[2]>>
    BY MetIsLeast, FollowingTyped
  <1> SUFFICES ASSUME NEW facts PROVE facts \in Entries(w, step) <=> <<step, facts>> \in Met(w)
    OBVIOUS
  <1>2. facts \in Entries(w, step) => <<step, facts>> \in Met(w)
    BY <1>1 DEF Entries
  <1>3. <<step, facts>> \in Met(w) => facts \in Entries(w, step)
    <2> SUFFICES ASSUME <<step, facts>> \in Met(w) PROVE facts \in Entries(w, step)
      OBVIOUS
    <2>1. <<step, facts>>[1] = step /\ <<step, facts>>[2] = facts
      OBVIOUS
    <2> DEFINE m == <<step, facts>>
    <2>2. m \in Met(w) /\ m[1] = step /\ m[2] = facts
      BY <2>1
    <2> HIDE DEF m
    <2>3. QED
      BY <2>2 DEF Entries
  <1>4. QED
    BY <1>2, <1>3

\* A step that is settled has handed its guarantees on to its successors.
LEMMA SettledHandsOn ==
  ASSUME Assumptions, NEW w \in Workflow, NEW s \in [Step -> Facts], NEW step \in Step, s[step] # Null
  PROVE  Proved!SettledIn(w, s, step) <=>
           \A t \in w.next[step] : s[t] # Null /\ s[t] \subseteq After(w, step, s[step])
  <1> DEFINE facts == s[step]
             sent == After(w, step, facts)
             list == NextSteps(w, step)
             out == PreflightTransfer(w, step, facts)
  <1>1. facts \in SUBSET Fact
    BY DEF Facts
  <1>2. /\ DOMAIN out = DOMAIN list
        /\ \A i \in DOMAIN out : out[i] = [to |-> list[i], value |-> sent]
        /\ sent \in SUBSET Fact /\ sent \in Facts /\ sent # Null
    BY <1>1, TransferSends DEF Facts, Assumptions, WorkflowAssumption
  <1>3. /\ \A i \in DOMAIN list : list[i] \in w.next[step]
        /\ \A t \in w.next[step] : \E i \in DOMAIN list : list[i] = t
        /\ w.next[step] \subseteq Step
    BY SuccessorsListed, WorkflowTyped
  <1>4. Proved!SettledIn(w, s, step) <=> \A i \in DOMAIN out : MustJoin(s[out[i].to], out[i].value) = s[out[i].to]
    BY DEF Proved!SettledIn, Proved!Absorbs
  <1> HIDE DEF facts, sent, list, out
  <1>5. Proved!SettledIn(w, s, step) <=> \A i \in DOMAIN list : MustJoin(s[list[i]], sent) = s[list[i]]
    BY <1>2, <1>4
  <1>6. Proved!SettledIn(w, s, step) <=> \A t \in w.next[step] : MustJoin(s[t], sent) = s[t]
    BY <1>3, <1>5
  <1>7. \A t \in w.next[step] : MustJoin(s[t], sent) = s[t] <=> s[t] # Null /\ s[t] \subseteq sent
    BY <1>2, <1>3, AbsorbsGuarantees
  <1>8. Proved!SettledIn(w, s, step) <=> \A t \in w.next[step] : s[t] # Null /\ s[t] \subseteq sent
    BY <1>6, <1>7
  <1>9. QED
    BY <1>8 DEF sent, facts

\* A step that is entered with fewer guarantees hands on fewer.
LEMMA GuaranteesAreMonotone ==
  ASSUME Assumptions, NEW w \in Workflow
  PROVE  Proved!Monotone(w)
  <1> SUFFICES ASSUME NEW b \in Step, NEW u \in Facts, NEW v \in Facts, MustJoin(v, u) = v
               PROVE  \A i \in DOMAIN PreflightTransfer(w, b, u) : \E j \in DOMAIN PreflightTransfer(w, b, v) :
                        /\ PreflightTransfer(w, b, v)[j].to = PreflightTransfer(w, b, u)[i].to
                        /\ MustJoin(PreflightTransfer(w, b, v)[j].value, PreflightTransfer(w, b, u)[i].value)
                             = PreflightTransfer(w, b, v)[j].value
    BY DEF Proved!Monotone, Proved!Absorbs
  <1>1. CASE u = Null
    BY <1>1 DEF PreflightTransfer
  <1>2. CASE u # Null
    <2>1. u \in SUBSET Fact /\ v \in SUBSET Fact /\ v \subseteq u
      BY <1>2, AbsorbsGuarantees DEF Facts
    <2>2. After(w, b, v) \subseteq After(w, b, u)
      BY <2>1 DEF After
    <2>3. /\ DOMAIN PreflightTransfer(w, b, u) = DOMAIN PreflightTransfer(w, b, v)
          /\ \A i \in DOMAIN PreflightTransfer(w, b, u) :
               /\ PreflightTransfer(w, b, u)[i] = [to |-> NextSteps(w, b)[i], value |-> After(w, b, u)]
               /\ PreflightTransfer(w, b, v)[i] = [to |-> NextSteps(w, b)[i], value |-> After(w, b, v)]
          /\ After(w, b, u) \in SUBSET Fact /\ After(w, b, v) \in SUBSET Fact
      BY <2>1, TransferSends
    <2>4. MustJoin(After(w, b, v), After(w, b, u)) = After(w, b, v)
      BY <2>2, <2>3, AbsorbsGuarantees DEF Facts, Assumptions, WorkflowAssumption
    <2>5. QED
      BY <2>3, <2>4
  <1>3. QED
    BY <1>1, <1>2

\* Every solution guarantees only what holds whenever an execution enters the step.
LEMMA SolutionIsSound ==
  ASSUME Assumptions, NEW w \in Workflow, NEW s \in [Step -> Facts], Proved!IsSolution(w, s)
  PROVE  \A m \in Met(w) : s[m[1]] # Null /\ s[m[1]] \subseteq m[2]
  <1> DEFINE c == {m \in Situations : s[m[1]] # Null /\ s[m[1]] \subseteq m[2]}
  <1>1. /\ MustJoin(s[w.entry], w.initial) = s[w.entry]
        /\ \A b \in Step : s[b] # Null => Proved!SettledIn(w, s, b)
    BY DEF Proved!IsSolution, Proved!ReachedIn, Proved!Absorbs, PreflightEntry, PreflightInitial
  <1>2. w.entry \in Step /\ w.initial \in SUBSET Fact /\ w.initial \in Facts /\ w.initial # Null
    BY DEF Facts, Assumptions, WorkflowAssumption
  <1>3. Start(w) \in c
    <2>1. s[w.entry] # Null /\ s[w.entry] \subseteq w.initial
      BY <1>1, <1>2, AbsorbsGuarantees
    <2>2. QED
      BY <1>2, <2>1 DEF Start, Situations
  <1>4. ASSUME NEW m \in c PROVE Following(w, m) \subseteq c
    <2>1. /\ m[1] \in Step /\ m[2] \in SUBSET Fact /\ s[m[1]] # Null /\ s[m[1]] \subseteq m[2]
          /\ Following(w, m) \subseteq Situations
      BY FollowingTyped
    <2>2. \A t \in w.next[m[1]] : s[t] # Null /\ s[t] \subseteq After(w, m[1], s[m[1]])
      BY <1>1, <2>1, SettledHandsOn
    <2> DEFINE then == {f \in Fact : f \in w.provides[m[1]] \/ (f \in m[2] /\ f \notin w.revokes[m[1]])}
    <2>3. After(w, m[1], s[m[1]]) \subseteq then
      BY <2>1, WorkflowTyped DEF After
    <2>4. \A k \in Following(w, m) : k[1] \in w.next[m[1]] /\ k[2] = then
      BY DEF Following
    <2> HIDE DEF then
    <2>5. QED
      BY <2>1, <2>2, <2>3, <2>4
  <1>5. c \in SUBSET Situations
    OBVIOUS
  <1> HIDE DEF c
  <1>6. Met(w) \subseteq c
    BY <1>3, <1>4, <1>5, MetIsLeast
  <1>7. QED
    BY <1>6 DEF c

\* What holds whenever an execution enters a step is a solution.
LEMMA ReliableIsSolution ==
  ASSUME Assumptions, NEW w \in Workflow
  PROVE  /\ [step \in Step |-> Reliable(w, step)] \in [Step -> Facts]
         /\ Proved!IsSolution(w, [step \in Step |-> Reliable(w, step)])
  <1> DEFINE sol == [step \in Step |-> Reliable(w, step)]
  <1>1. sol \in [Step -> Facts]
    BY DEF Reliable, Facts
  <1>2. \A b \in Step : sol[b] = Null <=> Entries(w, b) = {}
    BY DEF Reliable, Assumptions, WorkflowAssumption
  <1>3. \A b \in Step : \A facts \in Entries(w, b) : sol[b] \subseteq facts
    BY DEF Reliable
  <1>4. w.entry \in Step /\ w.initial \in SUBSET Fact
    BY DEF Assumptions, WorkflowAssumption
  <1>5. MustJoin(sol[w.entry], w.initial) = sol[w.entry]
    <2>1. w.initial \in Entries(w, w.entry)
      BY MetIsLeast, EntryMet DEF Start
    <2>2. sol[w.entry] # Null /\ sol[w.entry] \subseteq w.initial /\ sol[w.entry] \in Facts /\ w.initial \in Facts
      BY <1>1, <1>2, <1>3, <1>4, <2>1 DEF Facts
    <2> HIDE DEF sol
    <2>3. QED
      BY <2>2, AbsorbsGuarantees
  <1>6. ASSUME NEW b \in Step, sol[b] # Null, NEW t \in w.next[b]
        PROVE  sol[t] # Null /\ sol[t] \subseteq After(w, b, sol[b])
    <2> DEFINE Then(facts) == {f \in Fact : f \in w.provides[b] \/ (f \in facts /\ f \notin w.revokes[b])}
    <2>1. t \in Step
      BY WorkflowTyped
    <2>2. \A facts \in Entries(w, b) : Then(facts) \in Entries(w, t)
      <3> TAKE facts \in Entries(w, b)
      <3> DEFINE m == <<b, facts>>
      <3>1. m \in Met(w) /\ m[1] = b /\ m[2] = facts
        BY EntryMet
      <3>2. Following(w, m) = w.next[m[1]] \X
              {{f \in Fact : f \in w.provides[m[1]] \/ (f \in m[2] /\ f \notin w.revokes[m[1]])}}
        BY DEF Following
      <3>3. <<t, Then(facts)>> \in Following(w, m)
        BY <3>1, <3>2
      <3> HIDE DEF m
      <3>4. <<t, Then(facts)>> \in Met(w)
        BY <3>1, <3>3, MetIsLeast
      <3> HIDE DEF Then
      <3>5. QED
        BY <3>4, EntryMet
    <2>3. PICK some \in Entries(w, b) : TRUE
      BY <1>2, <1>6
    <2>4. sol[t] # Null
      BY <1>2, <2>1, <2>2, <2>3
    <2>5. sol[t] \subseteq Fact /\ sol[b] = {f \in Fact : \A facts \in Entries(w, b) : f \in facts}
      BY <1>1, <1>2, <1>6, <2>1, <2>4 DEF Facts, Reliable
    <2>6. ASSUME NEW f \in sol[t], f \notin w.provides[b]
          PROVE  f \in sol[b] /\ f \notin w.revokes[b]
      <3>1. \A facts \in Entries(w, b) : f \in Then(facts)
        BY <1>3, <2>1, <2>2, <2>6
      <3>2. \A facts \in Entries(w, b) : f \in facts /\ f \notin w.revokes[b]
        BY <2>6, <3>1
      <3>3. QED
        BY <2>3, <2>5, <3>2
    <2>7. QED
      BY <2>4, <2>6 DEF After
  <1> HIDE DEF sol
  <1>7. \A b \in Step : sol[b] # Null => Proved!SettledIn(w, sol, b)
    BY <1>1, <1>6, SettledHandsOn
  <1>8. ASSUME NEW b \in Step, sol[b] = Null PROVE Proved!SettledIn(w, sol, b)
    BY <1>8 DEF Proved!SettledIn, PreflightTransfer
  <1>9. Proved!IsSolution(w, sol)
    BY <1>5, <1>7, <1>8 DEF Proved!IsSolution, Proved!Absorbs, PreflightEntry, PreflightInitial
  <1>10. QED
    BY <1>1, <1>9 DEF sol

\* The least solution is what holds whenever an execution enters the step.
LEMMA ConvergedIsReliable ==
  ASSUME Assumptions, Proved!TypeOK, Proved!ConvergedIsLeastSolution, status = "converged"
  PROVE  /\ program \in Workflow
         /\ \A step \in Step : states[step] = Reliable(program, step)
  <1>1. program \in Workflow /\ states \in [Step -> Facts]
    BY DEF Proved!TypeOK
  <1> DEFINE sol == [step \in Step |-> Reliable(program, step)]
  <1>2. sol \in [Step -> Facts] /\ Proved!IsSolution(program, sol)
    BY <1>1, ReliableIsSolution
  <1>3. \A m \in Met(program) : states[m[1]] # Null /\ states[m[1]] \subseteq m[2]
    BY <1>1, SolutionIsSound DEF Proved!ConvergedIsLeastSolution
  <1>4. ASSUME NEW step \in Step PROVE states[step] = sol[step]
    <2>1. MustJoin(sol[step], states[step]) = sol[step]
      <3> HIDE DEF sol
      <3>1. QED
        BY <1>1, <1>2, GuaranteesAreMonotone DEF Proved!ConvergedIsLeastSolution, Proved!Absorbs
    <2>2. states[step] = Null \/ (sol[step] # Null /\ sol[step] \subseteq states[step])
      <3> HIDE DEF sol
      <3>1. QED
        BY <1>1, <1>2, <2>1, AbsorbsGuarantees
    <2>3. \A facts \in Entries(program, step) : states[step] # Null /\ states[step] \subseteq facts
      <3> TAKE facts \in Entries(program, step)
      <3> DEFINE m == <<step, facts>>
      <3>1. m \in Met(program) /\ m[1] = step /\ m[2] = facts
        BY <1>1, EntryMet
      <3> HIDE DEF m
      <3>2. QED
        BY <1>3, <3>1
    <2>4. CASE Entries(program, step) = {}
      BY <2>2, <2>4 DEF Reliable
    <2>5. CASE Entries(program, step) # {}
      <3>1. states[step] # Null /\ states[step] \subseteq Fact
        BY <1>1, <2>3, <2>5 DEF Facts
      <3>2. sol[step] = {f \in Fact : \A facts \in Entries(program, step) : f \in facts}
        BY <2>5 DEF Reliable
      <3>3. states[step] \subseteq sol[step]
        BY <2>3, <3>1, <3>2
      <3>4. QED
        BY <2>2, <3>1, <3>3
    <2>6. QED
      BY <2>4, <2>5
  <1>5. QED
    BY <1>1, <1>4

\* The facts reported for a step are exactly those that hold every time an execution
\* enters it, in loops and behind any choice of paths.
THEOREM GuaranteesExact ==
  ASSUME Assumptions
  PROVE  PreflightSpec => []GuaranteesAreExact
  <1>1. Proved!NamesAssumption /\ Proved!LatticeAssumption /\ Proved!ProgramAssumption
    BY MustIsLattice, WorkflowIsProgram
  <1>2. Proved!TypeOK /\ Proved!ConvergedIsLeastSolution => GuaranteesAreExact
    BY ConvergedIsReliable DEF GuaranteesAreExact, Reliable, Entries
  <1>3. QED
    BY <1>1, <1>2, SameEngine, Proved!TypeCorrect, Proved!ConvergenceSound, PTL

\* A workflow is called valid exactly when no execution enters a step whose
\* requirements do not hold.
THEOREM VerdictExact ==
  ASSUME Assumptions
  PROVE  PreflightSpec => []VerdictIsExact
  <1>1. Proved!NamesAssumption /\ Proved!LatticeAssumption /\ Proved!ProgramAssumption
    BY MustIsLattice, WorkflowIsProgram
  <1>2. Proved!TypeOK /\ Proved!ConvergedIsLeastSolution => VerdictIsExact
    <2> SUFFICES ASSUME Proved!TypeOK, Proved!ConvergedIsLeastSolution, Verdict \in {"valid", "invalid"}
                 PROVE  Verdict = "valid" <=> \A s \in Met(program) : program.requires[s[1]] \subseteq s[2]
      BY DEF VerdictIsExact
    <2>1. status = "converged" /\ (Verdict = "valid" <=> Diagnosed = {})
      BY DEF Verdict
    <2>2. program \in Workflow /\ \A step \in Step : states[step] = Reliable(program, step)
      BY <2>1, ConvergedIsReliable
    <2>3. ASSUME NEW step \in Step
          PROVE  Missing(step) = {} <=> \A facts \in Entries(program, step) : program.requires[step] \subseteq facts
      <3>1. program.requires[step] \subseteq Fact
        BY <2>2, WorkflowTyped
      <3>2. CASE Entries(program, step) = {}
        BY <2>2, <3>2 DEF Missing, Reliable
      <3>3. CASE Entries(program, step) # {}
        <4>1. states[step] = {f \in Fact : \A facts \in Entries(program, step) : f \in facts}
          BY <2>2, <3>3 DEF Reliable
        <4>2. states[step] # Null
          BY <4>1 DEF Assumptions, WorkflowAssumption
        <4>3. Missing(step) = program.requires[step] \ states[step]
          BY <4>2 DEF Missing
        <4>4. QED
          BY <3>1, <4>1, <4>3
      <3>4. QED
        BY <3>2, <3>3
    <2>4. Diagnosed = {} <=> \A step \in Step : Missing(step) = {}
      BY DEF Diagnosed
    <2>5. (\A step \in Step : \A facts \in Entries(program, step) : program.requires[step] \subseteq facts)
            <=> \A s \in Met(program) : program.requires[s[1]] \subseteq s[2]
      <3>1. \A s \in Met(program) : s[1] \in Step /\ s[2] \in Entries(program, s[1])
        BY <2>2, MetIsLeast, FollowingTyped DEF Entries
      <3>2. \A step \in Step : \A facts \in Entries(program, step) :
              \E s \in Met(program) : s[1] = step /\ s[2] = facts
        BY DEF Entries
      <3>3. QED
        BY <3>1, <3>2
    <2>6. QED
      BY <2>1, <2>3, <2>4, <2>5
  <1>3. QED
    BY <1>1, <1>2, SameEngine, Proved!TypeCorrect, Proved!ConvergenceSound, PTL

=============================================================================
