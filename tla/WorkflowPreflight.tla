------------------------- MODULE WorkflowPreflight -------------------------
(***************************************************************************)
(* verifyWorkflow (src/graph-analysis/workflow.ts) on a workflow without   *)
(* forks: a must analysis.  A value is the set of facts guaranteed at a    *)
(* step's entry, or Null while no path has reached the step; values are    *)
(* joined by intersection.  Requirements play no part in the iteration:    *)
(* they are read off the converged states only, because an early visit can *)
(* hold a stronger guarantee than the final one.                           *)
(***************************************************************************)
EXTENDS EngineRun, Listings, Sequences

CONSTANTS
  Step,       \* step ids
  StepOrder,  \* the sorted order in which the parsed input lists them
  Fact,       \* fact names
  Null,       \* "unreachable", distinct from "no guaranteed facts"
  Workflow    \* inputs: [entry, next, requires, provides, revokes, initial, budget]

\* Assumptions; where the module is instantiated, the instance is checked against them.
StepOrderAssumption ==
  /\ StepOrder \in Seq(Step)
  /\ Step = {StepOrder[i] : i \in DOMAIN StepOrder}
  /\ \A i, j \in DOMAIN StepOrder : StepOrder[i] = StepOrder[j] => i = j

\* {Null} stands for the conflict that no join returns.
WorkflowAssumption ==
  /\ IsFiniteSet(Fact)
  /\ \A facts \in SUBSET Fact : facts # Null
  /\ {Null} \notin {Null} \cup SUBSET Fact
  /\ NoBlock \notin Step
  /\ \A w \in Workflow :
       /\ w.entry \in Step
       /\ w.next \in [Step -> SUBSET Step]
       /\ {w.requires, w.provides, w.revokes} \subseteq [Step -> SUBSET Fact]
       /\ w.initial \subseteq Fact
       /\ w.budget \in Nat \ {0}

-----------------------------------------------------------------------------
\* The lattice of guaranteed facts.

Facts == {Null} \cup SUBSET Fact

\* Deliberate fault: a fact of either path is taken for a fact of both.
MayJoin(a, b) == IF a = Null THEN b ELSE IF b = Null THEN a ELSE a \cup b

MustJoin(a, b) == IF a = Null THEN b ELSE IF b = Null THEN a ELSE a \cap b

\* Deliberate fault: a fact a step both revokes and provides is lost.
AfterRevokesLast(w, step, facts) == (facts \cup w.provides[step]) \ w.revokes[step]

\* A step removes what it revokes, then adds what it provides.
After(w, step, facts) == (facts \ w.revokes[step]) \cup w.provides[step]

NextSteps(w, step) == Listed(StepOrder, w.next[step])

PreflightDeclared(w) == StepOrder
PreflightEdges(w, step) ==
  [i \in DOMAIN NextSteps(w, step) |-> [to |-> NextSteps(w, step)[i], label |-> "next"]]
PreflightEntry(w) == w.entry
PreflightInitial(w) == w.initial
PreflightLimit(w) == w.budget

PreflightTransfer(w, step, facts) ==
  IF facts = Null THEN <<>>
  ELSE [i \in DOMAIN NextSteps(w, step) |->
         [to |-> NextSteps(w, step)[i], value |-> After(w, step, facts)]]

-----------------------------------------------------------------------------
\* The run of the engine.

PreflightEngine == INSTANCE FixedPoint WITH
  Block <- Step, Label <- {"next"}, InvalidLabel <- {},
  Value <- Facts, Bottom <- Null, Conflict <- {Null}, Join <- MustJoin,
  Program <- Workflow, Declared <- PreflightDeclared, Edges <- PreflightEdges,
  Entry <- PreflightEntry, Initial <- PreflightInitial, Limit <- PreflightLimit,
  Transfer <- PreflightTransfer

\* The assumptions under which the engine's theorems are proved hold of this
\* instance.
PreflightInstanceAssumption ==
  PreflightEngine!NamesAssumption /\ PreflightEngine!LatticeAssumption /\ PreflightEngine!ProgramAssumption

PreflightSpec == PreflightEngine!Spec

-----------------------------------------------------------------------------
\* The verdict.

\* Deliberate fault: a step no path reaches is reported as well.
MissingEverywhere(step) ==
  program.requires[step] \ (IF states[step] = Null THEN {} ELSE states[step])

Missing(step) == IF states[step] = Null THEN {} ELSE program.requires[step] \ states[step]

Diagnosed == {step \in Step : Missing(step) # {}}

Verdict ==
  CASE status = "converged" -> IF Diagnosed = {} THEN "valid" ELSE "invalid"
    [] status \in {"unknown", "thrown"} -> "unknown"
    [] OTHER -> "open"

-----------------------------------------------------------------------------
\* Properties, stated against the executions of the workflow.  They speak of
\* the inputs of this client, since a run may also be that of another one.

\* A situation is a step about to execute and the facts that hold.
Situations == Step \X SUBSET Fact

\* A fact holds behind a step that provides it, even one that revokes it too,
\* and behind any step that leaves it alone.
Following(w, s) ==
  w.next[s[1]] \X {{f \in Fact : f \in w.provides[s[1]] \/ (f \in s[2] /\ f \notin w.revokes[s[1]])}}

\* The situations reached within n steps.
Within(w) ==
  LET reached[n \in Nat] ==
        IF n = 0 THEN {<<w.entry, w.initial>>}
        ELSE LET known == reached[n - 1]
             IN  known \cup UNION {Following(w, s) : s \in known}
  IN  reached

\* The situations some execution meets: no shortest execution is longer than
\* the number of situations.
Met(w) == Within(w)[Cardinality(Situations)]

\* The facts reported for a step are exactly those that hold every time any
\* execution enters it, and a step is reported unreachable exactly when no
\* execution enters it: intersecting at every block loses nothing compared to
\* intersecting over whole paths, loops included (workflow.ts:10-15, 48-54).
GuaranteesAreExact ==
  program \in Workflow /\ status = "converged" => \A step \in Step :
    LET entries == {s[2] : s \in {m \in Met(program) : m[1] = step}}
    IN  states[step] = IF entries = {} THEN Null
                       ELSE {f \in Fact : \A facts \in entries : f \in facts}

\* "valid" means that no execution enters a step whose requirements do not
\* hold, and "invalid" that some execution does (docs/graph-analysis.md).
VerdictIsExact ==
  program \in Workflow /\ Verdict \in {"valid", "invalid"} =>
    (Verdict = "valid" <=>
       \A s \in Met(program) : program.requires[s[1]] \subseteq s[2])
=============================================================================
