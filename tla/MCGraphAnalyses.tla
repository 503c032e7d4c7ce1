--------------------------- MODULE MCGraphAnalyses ---------------------------
(***************************************************************************)
(* Five analyses of graphs, side by side: `client` says which one an       *)
(* input is for, and the variables of the others stay as they are.         *)
(*                                                                         *)
(* statements: labelled loops of every form whose body is a conditional, a *)
(*            try, a switch or a loop followed by another statement; the   *)
(*            same with a second label and a return behind them; a         *)
(*            labelled block inside a try; and expressions of up to three  *)
(*            operators in every place that evaluates one.                 *)
(* workflow:  every successor relation over three steps, which provide,    *)
(*            revoke, exchange or renew one of two facts; requirements at  *)
(*            two of them, and a scarce budget besides the ample one.      *)
(* resources: graphs of four blocks over one resource: an entry, two       *)
(*            blocks with any successors, loops included, and an exit;     *)
(*            each block does at most one thing, or acquires and releases. *)
(* modules:   every import graph of three modules with at most two imports *)
(*            each, self-imports included, where one module may wait,      *)
(*            throw or launch; and rings of two and three modules, reached *)
(*            from outside, with imports that bind names, are repeated, or *)
(*            stand beside an unsupported construct.                       *)
(* sets:      every call graph of three functions, self-calls included,    *)
(*            with eight distributions of two effects; and every           *)
(*            dependency graph of three nodes with five sets of changed    *)
(*            nodes, under a scarce and an ample budget.                   *)
(***************************************************************************)
EXTENDS SetPropagation, WorkflowPreflight, ResourceCfg, Completion, TLC

CONSTANTS
  Client,                                              \* the analyses the run is about
  p, q, r, built, tested,                              \* workflow
  enter, one, two, exit, file,                         \* resources
  a, b, c, d,                                          \* modules, functions
  io, net                                              \* effects

VARIABLES
  client,                                                            \* whose input it is
  artifact, calls, called, waiting, running, suspended, done,        \* modules
  statement, doing, frames                                           \* statements

-----------------------------------------------------------------------------
\* Workflows.

MCStep == {p, q, r}
MCStepOrder == <<p, q, r>>
MCFact == {built, tested}

\* What the three steps provide and revoke: nothing, a fact, another fact than they
\* revoke, or the fact they revoke.
Providing ==
  {[z \in MCStep |-> CASE z = p -> x [] z = q -> y [] z = r -> {f}] :
     x \in {{}, {built}}, y \in {{}, {tested}}, f \in MCFact}
Revoking == {[z \in MCStep |-> IF z = p THEN {} ELSE IF z = q THEN x ELSE {built}] : x \in {{}, {built}}}
Requiring == {[z \in MCStep |-> IF z = p THEN {} ELSE IF z = q THEN {tested} ELSE {built}]}

MCWorkflow ==
  [entry : {p}, next : [MCStep -> SUBSET MCStep], initial : {{}, {built, tested}}, budget : {20},
   provides : Providing, revokes : Revoking, requires : Requiring]
  \cup
  [entry : {p}, next : {[z \in MCStep |-> {q, r}]}, initial : {{built}}, budget : {2},
   provides : Providing, revokes : Revoking, requires : Requiring]

ASSUME WorkflowsAssumption ==
  StepOrderAssumption /\ WorkflowAssumption /\ PreflightInstanceAssumption

-----------------------------------------------------------------------------
\* Resources.

MCBlock == {enter, one, two, exit}
MCBlockOrder == <<enter, one, two, exit>>

Do(kind) == [kind |-> kind, resource |-> file, others |-> <<>>, unsure |-> FALSE]
Maybe(kind) == [kind |-> kind, resource |-> file, others |-> <<>>, unsure |-> TRUE]

NoTransition == <<>>

MCCfg ==
  [toE : {{2}, {2, 3}, {2, 3, 4}}, toF : SUBSET {2, 3, 4}, toG : {{4}, {1}, {2, 4}, {1, 3, 4}},
   e : {NoTransition, <<Do("acquire")>>},
   f : {NoTransition, <<Do("acquire")>>, <<Do("use")>>, <<Maybe("release")>>, <<Do("acquire"), Do("release")>>},
   g : {NoTransition, <<Do("release")>>, <<Maybe("acquire")>>},
   x : {NoTransition, <<Do("release")>>}, limit : {40}]
  \cup
  [toE : {{2, 3}}, toF : {{3, 4}}, toG : {{2, 4}}, e : {<<Do("acquire")>>},
   f : {NoTransition}, g : {<<Do("release")>>}, x : {NoTransition}, limit : {2}]

MCCfgEntry(g) == enter
MCExits(g) == <<exit>>
MCCfgBudget(g) == g.limit

Positions(g, n) ==
  CASE n = enter -> g.toE [] n = one -> g.toF [] n = two -> g.toG [] n = exit -> {}

MCCfgTargets(g, n) ==
  SelectSeq(MCBlockOrder, LAMBDA t : \E i \in Positions(g, n) : MCBlockOrder[i] = t)

MCTransitions(g, n) ==
  CASE n = enter -> g.e [] n = one -> g.f [] n = two -> g.g [] n = exit -> g.x

MCResource == {file}
MCStarts == [f \in MCResource |-> "absent"]
MCRequired == [f \in MCResource |-> {"released"}]
MCTransition == {Do(k) : k \in {"acquire", "use", "release"}} \cup {Maybe(k) : k \in {"acquire", "release"}}

ASSUME ResourcesAssumption == CfgAssumption

-----------------------------------------------------------------------------
\* Modules.

MCModule == {a, b, c, d}

Import(to) == [to |-> to, sideEffectOnly |-> TRUE]
Bind(to) == [to |-> to, sideEffectOnly |-> FALSE]

Lists == {<<>>} \cup {<<Import(x)>> : x \in {a, b, c}}
         \cup {<<Import(x), Import(y)>> : x \in {a, b, c}, y \in {a, b, c}}

ProperLists == {l \in Lists : Len(l) = 2 => l[1] # l[2]}

Bodies == {<<"await">>, <<"throw">>, <<"await", "throw", "await">>, <<"launch">>}

Of(requests, body, unsupported) ==
  [entry |-> a, requests |-> requests, body |-> body, unsupported |-> unsupported]

Inert == [m \in MCModule |-> <<>>]

\* Renaming b and c covers the entry that imports c before b.
Graphs ==
  {Of([n \in MCModule |-> CASE n = a -> ra [] n = b -> rb [] n = c -> rc [] n = d -> <<>>],
      [Inert EXCEPT ![m] = s], {}) :
     ra \in {<<Import(b)>>, <<Import(b), Import(c)>>, <<Import(a), Import(b)>>},
     rb \in ProperLists, rc \in ProperLists, m \in {a, b, c}, s \in {<<>>} \cup Bodies}

\* The entry imports one or two members of a ring.
Rings ==
  {Of([n \in MCModule |-> CASE n = a -> ra [] n = b -> rb [] n = c -> rc [] n = d -> <<Import(b)>>],
      [Inert EXCEPT ![a] = s], u) :
     ra \in {<<Import(b)>>, <<Import(c), Import(b)>>, <<Bind(b)>>},
     rb \in {<<Import(c)>>, <<Bind(c)>>, <<Import(c), Bind(c)>>},
     rc \in {<<Import(b)>>, <<Import(d)>>, <<Import(b), Import(d)>>},
     s \in {<<>>, <<"await">>}, u \in {{}, {c}}}

MCProgram == Graphs \cup Rings

Modules == INSTANCE ModuleOrder WITH Module <- MCModule, Program <- MCProgram

-----------------------------------------------------------------------------
\* Effects and impact.

MCNode == {a, b, c}
MCNodeOrder == <<a, b, c>>
MCName == {a, b, c, io, net}

Calls == [MCNode -> SUBSET MCNode]

MCProblem ==
  [client : {"effects"}, uses : Calls, changed : {{}}, budget : {1},
   names : {f \in [MCNode -> SUBSET {io, net}] :
              f[a] \subseteq {io} /\ f[b] \subseteq {net} /\ f[c] \in {{}, {io, net}}}]
  \cup
  [client : {"impact"}, uses : Calls, changed : {{}, {a}, {c}, {a, b}, {b, c}},
   budget : {2, 12}, names : {[n \in MCNode |-> {}]}]

ASSUME SetsAssumption == NodeOrderAssumption /\ ProblemAssumption /\ SetInstanceAssumption

-----------------------------------------------------------------------------
\* Statements.

Constant(value) == [kind |-> "constant", value |-> value]
Unknown == [kind |-> "unknown"]
Call(callee, arguments, never, conditional) ==
  [kind |-> "call", callee |-> callee, arguments |-> arguments, never |-> never, conditional |-> conditional]
Eager(operands) == [kind |-> "eager", operands |-> operands]
Unary(kind, operand) == [kind |-> kind, operand |-> operand]
BinaryOf(operator, left, right) ==
  [kind |-> "binary", operator |-> operator, left |-> left, right |-> right]

Fail == Call(Unknown, <<>>, TRUE, FALSE)
Simple == {Constant("true"), Constant("false"), Unknown, Fail}
Binaries ==
  {BinaryOf(o, x, y) : o \in {"&&", "||", "??", "===", "!==", "+"}, x \in Simple, y \in Simple}
Expressions ==
  Simple \cup Binaries
  \cup {Unary(k, x) : k \in {"not", "wrapped"}, x \in Binaries} \cup {Eager(<<Unknown, x>>) : x \in Simple}
  \cup {Call(x, <<y>>, n, m) : x \in {Unknown, Fail}, y \in {Unknown, Fail}, n \in BOOLEAN, m \in BOOLEAN}
  \cup {BinaryOf(o, Unary("not", x), y) :
            o \in {"&&", "||"}, x \in {z \in Binaries : z.operator \in {"&&", "||"}}, y \in Simple \ {Unknown}}

Basic == [kind |-> "normal"]
Throw == [kind |-> "throw"]
Return(expressions) == [kind |-> "return", expressions |-> expressions]
BreakTo(label) == [kind |-> "break", label |-> label]
ContinueTo(label) == [kind |-> "continue", label |-> label]
Expression(expressions, body) == [kind |-> "expression", expressions |-> expressions, body |-> body]
BlockOf(statements) == [kind |-> "block", statements |-> statements]
IfElse(condition, consequent, alternate) ==
  [kind |-> "if", condition |-> condition, consequent |-> consequent, alternate |-> alternate]
SwitchOf(condition, clauses, exhaustive) ==
  [kind |-> "switch", condition |-> condition, clauses |-> clauses, exhaustive |-> exhaustive]
TryOf(body, handler, finalizer) ==
  [kind |-> "try", body |-> body, handler |-> handler, finalizer |-> finalizer]
LoopOf(condition, postTest, body) ==
  [kind |-> "loop", condition |-> condition, postTest |-> postTest, body |-> body]
Labelled(label, body) == [kind |-> "label", label |-> label, body |-> body]

Transfers == {BreakTo(NoLabel), ContinueTo(NoLabel), BreakTo("a"), ContinueTo("a")}
Atoms == Transfers \cup {Basic, Throw, Return(<<>>)}

Possibly(s) == IfElse(Unknown, s, <<>>)

Conditions == {IfElse(t, x, y) : t \in Simple,
                 x \in {Return(<<Fail>>), ContinueTo("a")}, y \in {<<>>, <<BreakTo(NoLabel)>>}}

Tries == {TryOf(x, y, z) : x \in Atoms,
            y \in {<<>>, <<Basic>>, <<ContinueTo("a")>>},
            z \in {<<>>, <<Possibly(BreakTo(NoLabel))>>, <<Return(<<>>)>>, <<Throw>>}}

Switches == {SwitchOf(Unknown, <<<<x>>, <<y, Basic>>>>, e) :
               x \in Atoms, y \in {Basic, BreakTo(NoLabel), ContinueTo("a")}, e \in BOOLEAN}

InnerLoops == {LoopOf(t, late, x) : t \in {Unknown, Constant("true")}, late \in BOOLEAN, x \in Transfers \cup {Basic}}

Pieces == Atoms \cup Conditions \cup Tries \cup Switches \cup InnerLoops \cup
          {Expression(<<Fail>>, <<>>), Expression(<<Unknown>>, <<ContinueTo("a")>>)}

LoopBodies == {BlockOf(<<x, y>>) : x \in Pieces, y \in {Basic, BreakTo("a"), Possibly(ContinueTo(NoLabel))}}

Loops(conditions) == {LoopOf(t, late, body) : t \in conditions, late \in BOOLEAN, body \in LoopBodies}

\* One expression, with a different end for each of its values.
Evaluating(e) ==
  {IfElse(e, Return(<<>>), <<Basic>>), SwitchOf(e, <<<<Return(<<>>)>>>>, TRUE), Return(<<e>>),
   Expression(<<Unknown, e>>, <<>>), LoopOf(BinaryOf("||", Unknown, e), FALSE, Return(<<>>))}

MCStatement ==
  UNION {{s, TryOf(s, <<Basic>>, <<>>)} : s \in UNION {Evaluating(e) : e \in Expressions}}
  \cup {Labelled("a", l) : l \in Loops(Simple \ {Fail})}
  \cup {BlockOf(<<Labelled("a", Labelled("b", l)), Return(<<>>)>>) : l \in Loops({Unknown})}
  \cup {TryOf(Labelled("a", BlockOf(<<x, y>>)), <<Return(<<>>)>>, <<Possibly(Throw)>>) :
          x \in {Possibly(BreakTo("a")), BreakTo("a"), TryOf(BreakTo("a"), <<>>, <<Throw>>)}, y \in {Throw, Basic}}

Statements == INSTANCE ContractControlFlow WITH Statement <- MCStatement

-----------------------------------------------------------------------------
\* One of the five.

run == <<status, reason, states, queue, queued, iterations, visiting, pending>>
evaluation == <<artifact, calls, called, waiting, running, suspended, done>>
execution == <<statement, doing, frames>>

NoRun ==
  /\ status = "none" /\ reason = "none" /\ states = <<>> /\ queue = <<>> /\ queued = {}
  /\ iterations = 0 /\ visiting = NoBlock /\ pending = <<>>

NoEvaluation ==
  /\ artifact = "none" /\ calls = <<>> /\ called = {} /\ waiting = {} /\ running = <<>>
  /\ suspended = {} /\ done = {}

NoExecution == statement = <<>> /\ doing = <<>> /\ frames = <<>>

MCInit ==
  /\ client \in Client
  /\ \/ client = "workflow" /\ PreflightEngine!Init /\ NoEvaluation /\ NoExecution
     \/ client = "resources" /\ CfgEngine!Init /\ NoEvaluation /\ NoExecution
     \/ client = "sets" /\ SetEngine!Init /\ NoEvaluation /\ NoExecution
     \/ client = "modules" /\ Modules!Init /\ NoRun /\ NoExecution
     \/ client = "statements" /\ Statements!Init /\ program = <<>> /\ NoRun /\ NoEvaluation

MCNext ==
  \/ client = "workflow" /\ PreflightEngine!Next /\ UNCHANGED <<client, evaluation, execution>>
  \/ client = "resources" /\ CfgEngine!Next /\ UNCHANGED <<client, evaluation, execution>>
  \/ client = "sets" /\ SetEngine!Next /\ UNCHANGED <<client, evaluation, execution>>
  \/ client = "modules" /\ Modules!Next /\ UNCHANGED <<client, run, execution>>
  \/ client = "statements" /\ Statements!Next /\ UNCHANGED <<client, program, run, evaluation>>

MCSpec == MCInit /\ [][MCNext]_<<client, program, run, evaluation, execution>>

\* The properties of the other two modules, each for its own inputs.
VerifiedOrderHolds == client = "modules" => Modules!VerifiedOrderHolds
ImportersWait == client = "modules" => Modules!ImportersWait
ComponentsAreExact == client = "modules" => Modules!ComponentsAreExact
CompletionsCoverExecutions == client = "statements" => Statements!CompletionsCoverExecutions
=============================================================================
