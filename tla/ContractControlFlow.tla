------------------------- MODULE ContractControlFlow -------------------------
(***************************************************************************)
(* createContractControlFlow (src/contracts/control-flow-core.ts): how the *)
(* statements of a function may complete, read from its syntax, so that a  *)
(* contract knows whether control can reach the end of the function.  The  *)
(* facts of the checker (constantBoolean, isNeverCall, exhaustiveSwitch)   *)
(* are part of the expressions and statements.                             *)
(*                                                                         *)
(* First, what a statement of the language does: an abstract machine that  *)
(* runs it one part at a time, with a stack of the statements around it.   *)
(* Conditions with an unknown value and the clause a switch enters are     *)
(* chosen freely; an operation of the host may throw wherever a handler    *)
(* waits for it.  Independent of the analyzer, whose result it judges.     *)
(*                                                                         *)
(* Absent parts of a statement are empty sequences.  A switch with a       *)
(* default, or with tests that cover every value, is exhaustive; a loop    *)
(* without a condition has the constant true.  An expression is a constant *)
(* (a literal, or what its type says), unknown, a call, or composed; what  *)
(* may be skipped, as behind ?., is "conditional".                         *)
(***************************************************************************)
EXTENDS Sequences, SequencesExt, Completion

CONSTANT Statement

VARIABLES
  statement,  \* never changes
  doing,      \* the part to run, or the completion the last part ended with
  frames      \* innermost first

vars == <<statement, doing, frames>>

Run(what, labels) == [at |-> "run", what |-> what, labels |-> labels]
Completed(value) == [at |-> "completed", what |-> value, labels |-> {}]

Init ==
  /\ statement \in Statement
  /\ doing = Run(statement, {})
  /\ frames = <<>>

-----------------------------------------------------------------------------
\* Expressions.

Negation == [true |-> "false", false |-> "true", throws |-> "throws"]

RECURSIVE Values(_)

\* Whether one of them throws for certain, evaluated one after the other.
MustThrow(expressions) == \E i \in DOMAIN expressions : Values(expressions[i]) = {"throws"}

\* Evaluating `expressions` first, if they can be evaluated.
Behind(expressions, values) ==
  (IF \E i \in DOMAIN expressions : "throws" \in Values(expressions[i]) THEN {"throws"} ELSE {})
  \cup (IF MustThrow(expressions) THEN {} ELSE values)

Binary(e) ==
  LET left == Values(e.left)
      right == Values(e.right)
  IN CASE e.operator = "&&" -> (left \ {"true"}) \cup (IF "true" \in left THEN right ELSE {})
       [] e.operator = "||" -> (left \ {"false"}) \cup (IF "false" \in left THEN right ELSE {})
       [] e.operator = "??" -> left \cup (IF "false" \in left THEN right ELSE {})
       [] e.operator \in {"===", "!=="} ->
            Behind(<<e.left, e.right>>,
                   {IF (x = y) = (e.operator = "===") THEN "true" ELSE "false" :
                      x \in left \ {"throws"}, y \in right \ {"throws"}})
       [] OTHER -> Behind(<<e.left, e.right>>, {"true", "false"})

\* The truth values an expression may have, and whether it may throw of its own.
Values(e) ==
  CASE e.kind = "constant" -> {e.value}
    [] e.kind = "unknown" -> {"true", "false"}
    [] e.kind = "call" ->
         LET answer == IF e.never THEN {"throws"} ELSE {"true", "false"}
         IN Behind(<<e.callee>>, Behind(e.arguments, answer) \cup (IF e.conditional THEN {"false"} ELSE {}))
    [] e.kind = "eager" -> Behind(e.operands, {"true", "false"})
    [] e.kind = "wrapped" -> Values(e.operand)
    [] e.kind = "not" -> {Negation[v] : v \in Values(e.operand)}
    [] e.kind = "binary" -> Binary(e)

-----------------------------------------------------------------------------

Goto(next, stack) == doing' = next /\ frames' = stack /\ UNCHANGED statement
Push(frame) == <<frame>> \o frames

-----------------------------------------------------------------------------
\* Running a part.

Kind(kind) == doing.at = "run" /\ doing.what.kind = kind

Handled == \E i \in DOMAIN frames : frames[i].frame = "catch"

\* Like the host, an expression throws only where a handler waits: an exception
\* that leaves the function is no concern of its completions.
MayBe(condition, value) == value \in Values(condition) /\ (value = "throws" => Handled)

MayThrow(expressions) == Handled /\ "throws" \in Behind(expressions, {})

At(value) == [frame |-> "break", target |-> value]

Simple ==
  \/ Kind("normal") /\ Goto(Completed(NORMAL), frames)
  \/ Kind("throw") /\ Goto(Completed(THROW), frames)
  \/ Kind("break") /\ Goto(Completed(Break(doing.what.label)), frames)
  \/ Kind("continue") /\ Goto(Completed(Continue(doing.what.label)), frames)

\* Expressions, and the statement behind them if there is one.
Expression ==
  /\ Kind("expression") \/ Kind("return")
  /\ \/ MayThrow(doing.what.expressions) /\ Goto(Completed(THROW), frames)
     \/ /\ ~MustThrow(doing.what.expressions)
        /\ IF doing.what.kind = "return" THEN Goto(Completed(RETURN), frames)
           ELSE IF doing.what.body = <<>> THEN Goto(Completed(NORMAL), frames)
           ELSE Goto(Run(doing.what.body[1], {}), frames)

Block ==
  /\ Kind("block")
  /\ Goto(Completed(NORMAL), Push([frame |-> "sequence", rest |-> doing.what.statements]))

If ==
  /\ Kind("if")
  /\ \/ MayBe(doing.what.condition, "true") /\ Goto(Run(doing.what.consequent, {}), frames)
     \/ /\ MayBe(doing.what.condition, "false")
        /\ IF doing.what.alternate = <<>> THEN Goto(Completed(NORMAL), frames)
           ELSE Goto(Run(doing.what.alternate[1], {}), frames)
     \/ MayBe(doing.what.condition, "throws") /\ Goto(Completed(THROW), frames)

\* The clauses from the chosen one on; or none of them.
Switch ==
  /\ Kind("switch")
  /\ LET clauses == doing.what.clauses
         Rest(entry) == FlattenSeq(SubSeq(clauses, entry, Len(clauses)))
     IN \/ MayBe(doing.what.condition, "throws") /\ Goto(Completed(THROW), frames)
        \/ /\ ~MustThrow(<<doing.what.condition>>)
           /\ \/ \E entry \in DOMAIN clauses :
                   Goto(Completed(NORMAL),
                        <<[frame |-> "sequence", rest |-> Rest(entry)], At("nearest-breakable")>> \o frames)
              \/ ~doing.what.exhaustive /\ Goto(Completed(NORMAL), frames)

Try ==
  /\ Kind("try")
  /\ Goto(Run(doing.what.body, {}),
          (IF doing.what.handler = <<>> THEN <<>>
           ELSE <<[frame |-> "catch", handler |-> doing.what.handler[1]]>>)
          \o (IF doing.what.finalizer = <<>> THEN <<>>
              ELSE <<[frame |-> "finally", finalizer |-> doing.what.finalizer[1]]>>)
          \o frames)

\* A statement inside several labels answers to each of them.
Label ==
  /\ Kind("label")
  /\ Goto(Run(doing.what.body, doing.labels \cup {doing.what.label}), Push(At(doing.what.label)))

\* The condition of a loop with the frames `outer` around it.
Test(loop, labels, outer) ==
  \/ /\ MayBe(loop.condition, "true")
     /\ Goto(Run(loop.body, {}), <<[frame |-> "loop", loop |-> loop, labels |-> labels]>> \o outer)
  \/ MayBe(loop.condition, "false") /\ Goto(Completed(NORMAL), outer)
  \/ MayBe(loop.condition, "throws") /\ Goto(Completed(THROW), outer)

Loop ==
  /\ Kind("loop")
  /\ IF doing.what.postTest
       THEN Goto(Run(doing.what.body, {}),
                 Push([frame |-> "loop", loop |-> doing.what, labels |-> doing.labels]))
       ELSE Test(doing.what, doing.labels, frames)

HostThrows ==
  /\ doing.at = "run" /\ Handled
  /\ Goto(Completed(THROW), frames)

-----------------------------------------------------------------------------
\* Completing a part: what the statement around it does.

Inside(frame) == doing.at = "completed" /\ frames # <<>> /\ Head(frames).frame = frame
Leave == Goto(doing, Tail(frames))

NextOfSequence ==
  /\ Inside("sequence")
  /\ LET rest == Head(frames).rest
     IN IF doing.what = NORMAL /\ rest # <<>>
          THEN Goto(Run(Head(rest), {}), <<[frame |-> "sequence", rest |-> Tail(rest)]>> \o Tail(frames))
          ELSE Leave

NextOfLoop ==
  /\ Inside("loop")
  /\ LET loop == Head(frames).loop
         labels == Head(frames).labels
     IN IF \/ doing.what = NORMAL
           \/ doing.what.completion = "continue" /\ doing.what.target \in {"nearest-loop"} \cup labels
          THEN Test(loop, labels, Tail(frames))
        ELSE IF doing.what = Break(NoLabel) THEN Goto(Completed(NORMAL), Tail(frames))
        ELSE Leave

EndOfBreak ==
  /\ Inside("break")
  /\ IF doing.what.completion = "break" /\ doing.what.target = Head(frames).target
       THEN Goto(Completed(NORMAL), Tail(frames)) ELSE Leave

Catch ==
  /\ Inside("catch")
  /\ IF doing.what = THROW THEN Goto(Run(Head(frames).handler, {}), Tail(frames)) ELSE Leave

Finally ==
  /\ Inside("finally")
  /\ Goto(Run(Head(frames).finalizer, {}), <<[frame |-> "resume", value |-> doing.what]>> \o Tail(frames))

Resume ==
  /\ Inside("resume")
  /\ Goto(IF doing.what = NORMAL THEN Completed(Head(frames).value) ELSE doing, Tail(frames))

Next ==
  \/ Simple \/ Expression \/ Block \/ If \/ Switch \/ Try \/ Label \/ Loop \/ HostThrows
  \/ NextOfSequence \/ NextOfLoop \/ EndOfBreak \/ Catch \/ Finally \/ Resume

Spec == Init /\ [][Next]_vars

Finished == doing.at = "completed" /\ frames = <<>>

-----------------------------------------------------------------------------
\* The analyzer.

RECURSIVE conditionBoolean(_)
RECURSIVE expressionNeverCompletes(_)

Not(value) == IF value = "unknown" THEN value ELSE Negation[value]

\* What a condition is known to be: "true", "false" or "unknown".
conditionBoolean(e) ==
  CASE e.kind = "constant" -> e.value
    [] e.kind = "wrapped" -> conditionBoolean(e.operand)
    [] e.kind = "not" -> Not(conditionBoolean(e.operand))
    [] e.kind = "binary" ->
         LET left == conditionBoolean(e.left)
             right == conditionBoolean(e.right)
             same == IF left = right THEN "true" ELSE "false"
         IN CASE e.operator = "&&" -> IF left = "true" THEN right ELSE left
              [] e.operator = "||" -> IF left = "false" THEN right ELSE left
              [] "unknown" \in {left, right} -> "unknown"
              [] e.operator = "===" -> same
              [] e.operator = "!==" -> Not(same)
              [] OTHER -> "unknown"
    [] OTHER -> "unknown"

Never(expressions) == \E i \in DOMAIN expressions : expressionNeverCompletes(expressions[i])

expressionNeverCompletes(e) ==
  CASE e.kind = "call" -> \/ expressionNeverCompletes(e.callee)
                          \/ ~e.conditional /\ (e.never \/ Never(e.arguments))
    [] e.kind \in {"wrapped", "not"} -> expressionNeverCompletes(e.operand)
    [] e.kind = "eager" -> Never(e.operands)
    [] e.kind = "binary" ->
         \/ expressionNeverCompletes(e.left)
         \/ /\ expressionNeverCompletes(e.right)
            /\ e.operator = "&&" => conditionBoolean(e.left) = "true"
            /\ e.operator = "||" => conditionBoolean(e.left) = "false"
            /\ e.operator # "??"
    [] OTHER -> FALSE

-----------------------------------------------------------------------------
\* Statements.

\* A switch or a label takes the breaks that name it.
consumeBreaks(completions, label) ==
  LET own == Break(label)
  IN (completions \ {own}) \cup (IF own \in completions THEN {NORMAL} ELSE {})

RECURSIVE statementCompletion(_)

statementsCompletion(statements) ==
  FoldLeft(LAMBDA completions, s : sequenceCompletions(completions, statementCompletion(s)),
           {NORMAL}, statements)

\* A loop may end behind its condition, if that can be reached and be false.
loopCompletion(loop, label) ==
  LET always == conditionBoolean(loop.condition) = "true"
      body == statementCompletion(loop.body)
      reachesCondition ==
        \E value \in body :
          value = NORMAL \/ (value.completion = "continue" /\ isTransferOwnedByLoop(value, label))
  IN consumeLoopCompletions(IF always THEN body \ {NORMAL} ELSE body, label)
     \cup (IF ~always /\ (loop.postTest => reachesCondition) THEN {NORMAL} ELSE {})

ifCompletion(s) ==
  LET condition == conditionBoolean(s.condition)
  IN (IF condition = "false" THEN {} ELSE statementCompletion(s.consequent))
     \cup (IF condition = "true" THEN {}
           ELSE IF s.alternate = <<>> THEN {NORMAL} ELSE statementCompletion(s.alternate[1]))

\* Every clause may be the first; without a default the switch may pass by.
switchCompletion(s) ==
  LET From(entry) == FlattenSeq(SubSeq(s.clauses, entry, Len(s.clauses)))
  IN consumeBreaks(
       UNION {statementsCompletion(From(entry)) : entry \in DOMAIN s.clauses}
       \cup (IF s.exhaustive THEN {} ELSE {NORMAL}), NoLabel)

\* With a handler, any operation of the body may throw.
tryCompletion(s) ==
  LET body == statementCompletion(s.body)
      completions == IF s.handler = <<>> THEN body
                     ELSE catchCompletions(body \cup {THROW}, statementCompletion(s.handler[1]))
  IN IF s.finalizer = <<>> THEN completions
     ELSE finallyCompletions(completions, statementCompletion(s.finalizer[1]))

labelCompletion(s) ==
  consumeBreaks(IF s.body.kind = "loop" THEN loopCompletion(s.body, s.label)
                ELSE statementCompletion(s.body), s.label)

statementCompletion(s) ==
  CASE s.kind = "normal" -> {NORMAL}
    [] s.kind = "throw" -> {THROW}
    [] s.kind = "return" -> {IF Never(s.expressions) THEN THROW ELSE RETURN}
    [] s.kind = "break" -> {Break(s.label)}
    [] s.kind = "continue" -> {Continue(s.label)}
    [] s.kind = "block" -> statementsCompletion(s.statements)
    [] s.kind = "if" -> IF Never(<<s.condition>>) THEN {THROW} ELSE ifCompletion(s)
    [] s.kind = "switch" -> IF Never(<<s.condition>>) THEN {THROW} ELSE switchCompletion(s)
    [] s.kind = "try" -> tryCompletion(s)
    [] s.kind = "loop" -> loopCompletion(s, NoLabel)
    [] s.kind = "label" -> labelCompletion(s)
    [] s.kind = "expression" -> IF Never(s.expressions) THEN {THROW} ELSE IF s.body = <<>> THEN {NORMAL}
                                ELSE statementCompletion(s.body[1])

functionMayFallThrough(s) ==
  \E value \in statementCompletion(s) : value.completion \in {"normal", "break", "continue"}

-----------------------------------------------------------------------------

\* Labels directly around another label.
Parts(s) ==
  CASE s.kind = "block" -> Range(s.statements)
    [] s.kind = "if" -> {s.consequent} \cup Range(s.alternate)
    [] s.kind = "switch" -> Range(FlattenSeq(s.clauses))
    [] s.kind = "expression" -> Range(s.body)
    [] s.kind = "try" -> {s.body} \cup Range(s.handler) \cup Range(s.finalizer)
    [] s.kind \in {"loop", "label"} -> {s.body}
    [] OTHER -> {}

RECURSIVE OuterLabels(_)
OuterLabels(s) ==
  UNION {OuterLabels(part) : part \in Parts(s)}
  \cup (IF s.kind = "label" /\ s.body.kind = "label" THEN {s.label} ELSE {})

\* Whatever an execution of a statement ends with is among its completions, so that
\* a function said not to reach its end never does (functionMayFallThrough).  One
\* exception: a continue to the outer of two labels of one loop, which labelCompletion
\* leaves in the set, stands for everything that may follow it.
CompletionsCoverExecutions ==
  Finished =>
    LET completions == statementCompletion(statement)
    IN /\ \/ doing.what \in completions
          \/ \E label \in OuterLabels(statement) : Continue(label) \in completions
       /\ doing.what = NORMAL => functionMayFallThrough(statement)
=============================================================================
