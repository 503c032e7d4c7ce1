-------------------------- MODULE ParallelWorkflow --------------------------
(***************************************************************************)
(* The configurations a fork/join workflow passes through, as              *)
(* advanceConfiguration (src/graph-analysis/parallel-transitions.ts)       *)
(* computes them: tokens that know the branch that owns them, and one      *)
(* activation per live fork that knows the branch it was started from.     *)
(* verifyParallelWorkflow, modelled after them, explores every behaviour   *)
(* of this specification and reports nothing but "invalid-input" when one  *)
(* of them reaches a rejected configuration.                               *)
(***************************************************************************)
EXTENDS Naturals, FiniteSets, Sequences, Bags

Ext == INSTANCE SequencesExt

CONSTANTS
  Step,      \* step ids
  Fact,      \* fact names
  NoBranch,  \* the owner of the entry token: null
  Workflow,       \* the inputs
  Entry(_),       \* the entry step
  Initial(_),     \* the facts that hold at the start
  Kind(_, _),     \* "action", "fork" or "join"
  NextOf(_, _),   \* the alternatives or branches of a step
  PairOf(_, _),   \* a fork's join, a join's fork
  Provides(_, _),
  Revokes(_, _)

Branch == [fork : Step, branch : Step]
Owner == Branch \cup {NoBranch}
Token == [step : Step, owner : Owner]
Activation == [fork : Step, parent : Owner]

\* The steps an input names are its steps (validateParallelWorkflow refuses others), and
\* null is no branch.
ASSUME WorkflowAssumption ==
  /\ IsFiniteSet(Step)
  /\ NoBranch \notin Branch
  /\ \A w \in Workflow :
       /\ Entry(w) \in Step
       /\ Initial(w) \subseteq Fact
       /\ \A s \in Step :
            /\ Kind(w, s) \in {"action", "fork", "join"}
            /\ NextOf(w, s) \subseteq Step
            /\ Provides(w, s) \subseteq Fact

After(w, s, facts) == (facts \ Revokes(w, s)) \cup Provides(w, s)

\* validateParallelWorkflow: a fork has distinct branches, and forks and joins
\* come in pairs that name each other.
Valid(w) ==
  \A s \in Step :
    /\ Kind(w, s) = "fork" =>
         /\ Cardinality(NextOf(w, s)) >= 2
         /\ Kind(w, PairOf(w, s)) = "join" /\ PairOf(w, PairOf(w, s)) = s
    /\ Kind(w, s) = "join" =>
         Kind(w, PairOf(w, s)) = "fork" /\ PairOf(w, PairOf(w, s)) = s

VARIABLES
  workflow,     \* the input; never changes
  verdict,      \* "exploring" or "invalid-input"
  facts,        \* the facts that hold
  tokens,       \* the runnable tokens, with repetition
  activations   \* the forks whose join has not executed

vars == <<workflow, verdict, facts, tokens, activations>>

Init ==
  /\ workflow \in Workflow
  /\ verdict = IF Valid(workflow) THEN "exploring" ELSE "invalid-input"
  /\ facts = Initial(workflow)
  /\ tokens = SetToBag({[step |-> Entry(workflow), owner |-> NoBranch]})
  /\ activations = {}

-----------------------------------------------------------------------------
\* Reading a configuration of workflow w: the bag of its tokens, and the
\* activations `active`.

ForksOf(active) == {a.fork : a \in active}
ParentOf(active, f) == (CHOOSE a \in active : a.fork = f).parent
OwnerFork(o) == IF o = NoBranch THEN {} ELSE {o.fork}

Arrival(w, t) == Kind(w, t.step) = "join"
ForkOf(w, t) == PairOf(w, t.step)

\* An arrival at a join whose fork is not the one that owns the token.
Unscoped(w, active, t) ==
  Arrival(w, t) /\ ForkOf(w, t) \notin ForksOf(active) \cap OwnerFork(t.owner)

\* A fork started again before its previous activation joined.
Reentered(w, active, t) == Kind(w, t.step) = "fork" /\ t.step \in ForksOf(active)

Rejected(w, bag, active) ==
  \E t \in BagToSet(bag) : Unscoped(w, active, t) \/ Reentered(w, active, t)

\* The tokens that wait for the join at which t has arrived.
AtJoin(w, bag, t) == {u \in BagToSet(bag) : u.step = t.step /\ ForkOf(w, t) \in OwnerFork(u.owner)}

Arrived(w, bag, t) == {u.owner.branch : u \in AtJoin(w, bag, t)}

\* Deliberate fault: one arrival is enough.
ReadyWhenOneArrived(w, bag, t) == Arrival(w, t) /\ Arrived(w, bag, t) # {}

Ready(w, bag, t) == Arrival(w, t) /\ NextOf(w, ForkOf(w, t)) \subseteq Arrived(w, bag, t)

-----------------------------------------------------------------------------
\* The tokens after a step.

One(t) == SetToBag({t})

\* One alternative is taken; a step without alternatives ends its branch, whose
\* activation stays.
Onward(w, others, owner, step) ==
  IF NextOf(w, step) = {} THEN {others}
  ELSE {others (+) One([step |-> to, owner |-> owner]) : to \in NextOf(w, step)}

Branches(w, t) ==
  SetToBag({[step |-> b, owner |-> [fork |-> t.step, branch |-> b]] : b \in NextOf(w, t.step)})

Without(bag, set) == [u \in BagToSet(bag) \ set |-> bag[u]]

-----------------------------------------------------------------------------
\* Executing one step.

Exploring == verdict = "exploring" /\ ~Rejected(workflow, tokens, activations)

Reject ==
  /\ verdict = "exploring"
  /\ Rejected(workflow, tokens, activations)
  /\ verdict' = "invalid-input"
  /\ UNCHANGED <<workflow, facts, tokens, activations>>

Changed(t) == facts' = After(workflow, t.step, facts) /\ UNCHANGED <<workflow, verdict>>

ExecuteAction(t) ==
  /\ Exploring
  /\ Kind(workflow, t.step) = "action"
  /\ tokens' \in Onward(workflow, tokens (-) One(t), t.owner, t.step)
  /\ UNCHANGED activations
  /\ Changed(t)

\* Deliberate faults: the activation forgets the branch it was started from;
\* the forking token goes on beside its branches.
ExecuteForkAtRoot(t) ==
  /\ Exploring
  /\ Kind(workflow, t.step) = "fork"
  /\ tokens' = (tokens (-) One(t)) (+) Branches(workflow, t)
  /\ activations' = activations \cup {[fork |-> t.step, parent |-> NoBranch]}
  /\ Changed(t)

ExecuteForkKeepsToken(t) ==
  /\ Exploring
  /\ Kind(workflow, t.step) = "fork"
  /\ tokens' = tokens (+) Branches(workflow, t)
  /\ activations' = activations \cup {[fork |-> t.step, parent |-> t.owner]}
  /\ Changed(t)

ExecuteFork(t) ==
  /\ Exploring
  /\ Kind(workflow, t.step) = "fork"
  /\ tokens' = (tokens (-) One(t)) (+) Branches(workflow, t)
  /\ activations' = activations \cup {[fork |-> t.step, parent |-> t.owner]}
  /\ Changed(t)

ExecuteJoin(t) ==
  /\ Exploring
  /\ Ready(workflow, tokens, t)
  /\ tokens' \in Onward(workflow, Without(tokens, AtJoin(workflow, tokens, t)),
                        ParentOf(activations, ForkOf(workflow, t)), t.step)
  /\ activations' = {a \in activations : a.fork # ForkOf(workflow, t)}
  /\ Changed(t)

Next ==
  \/ Reject
  \/ \E t \in BagToSet(tokens) : ExecuteAction(t) \/ ExecuteFork(t) \/ ExecuteJoin(t)

Spec == Init /\ [][Next]_vars

-----------------------------------------------------------------------------
\* Properties.

\* The values the fields of a configuration may have (the types WorkflowToken and
\* ForkActivation of parallel-model.ts).
TypeOK ==
  /\ workflow \in Workflow
  /\ verdict \in {"exploring", "invalid-input"}
  /\ facts \subseteq Fact
  /\ BagToSet(tokens) \subseteq Token
  /\ activations \subseteq Activation

\* How many threads run in branch o: its tokens, and the forks it is inside of.
ThreadsIn(o) ==
  BagCardinality([t \in {u \in BagToSet(tokens) : u.owner = o} |-> tokens[t]])
    + Cardinality({a \in activations : a.parent = o})

\* A branch is one thread: it is at one step, or inside one fork, or has ended;
\* so no join ever counts one branch's arrival twice or leaves one behind
\* (parallel-model.ts:1).
OneThreadPerBranch ==
  /\ \A o \in Owner : ThreadsIn(o) <= 1
  /\ Cardinality(activations) = Cardinality(ForksOf(activations))

\* A fork one of whose branches has ended never joins: a missing arrival is not
\* turned into completion (parallel-transitions.ts:64-65).
EndedBranchBlocksItsJoin ==
  [][\A f \in ForksOf(activations) :
       (\E b \in NextOf(workflow, f) : ThreadsIn([fork |-> f, branch |-> b]) = 0)
         => \E a \in activations' : a.fork = f]_vars

\* The path of a thread: the branches from the outermost scope inwards, which are no
\* more than there are activations.
Paths(active) ==
  LET path[depth \in Nat] ==
        [o \in Owner |->
          IF depth = 0 \/ OwnerFork(o) \cap ForksOf(active) = {} THEN <<>>
          ELSE Append(path[depth - 1][ParentOf(active, o.fork)], o)]
  IN  path

PathIn(active, o) == Paths(active)[Cardinality(active)][o]

ThreadsOf(set, active) == {[path |-> PathIn(active, t.owner), step |-> t.step] : t \in set}
ForkedIn(active) == {[path |-> PathIn(active, a.parent), fork |-> a.fork] : a \in active}

Threads == INSTANCE ForkJoin WITH
  threads <- ThreadsOf(BagToSet(tokens), activations),
  forked <- ForkedIn(activations)

\* The flat configurations are the thread semantics: nested forks restore their
\* parent branch, a join waits for exactly its own branches and executes once,
\* and arrivals of a finished activation are not reused.
ImplementsForkJoin == Threads!Spec

-----------------------------------------------------------------------------
\* verifyParallelWorkflow (src/graph-analysis/parallel-workflow.ts): it
\* explores every configuration within three limits, asks the data-flow
\* engine from which of them the join of a fork can still execute, and
\* reports.  A behaviour of the workflow follows, with which the result
\* has to agree.
CONSTANTS
  Requires(_, _), \* the facts a step requires
  Limits          \* [budget, maxConfigurations, maxTransitions]

\* verifyParallelWorkflow throws for a limit that is no positive integer.
ASSUME LimitsAssumption == \A l \in Limits : l.maxConfigurations \in Nat \ {0}

VARIABLES
  limits,
  nodes,        \* the configurations found, in order of discovery
  graph,        \* the executions of those explored so far
  transitions,  \* executions followed
  result        \* [status, guaranteed, blocked]

verification == <<limits, nodes, graph, transitions, result>>

-----------------------------------------------------------------------------
\* The configurations that follow a configuration.

\* What token t can do: [step, after].
ExecutionsOf(w, c, t) ==
  LET At(bag, active) == [facts |-> After(w, t.step, c.facts), tokens |-> bag, activations |-> active]
      rest == c.tokens (-) One(t)
      after ==
        CASE Kind(w, t.step) = "action" ->
               {At(bag, c.activations) : bag \in Onward(w, rest, t.owner, t.step)}
          [] Kind(w, t.step) = "fork" ->
               {At(rest (+) Branches(w, t), c.activations \cup {[fork |-> t.step, parent |-> t.owner]})}
          [] Kind(w, t.step) = "join" ->
               IF ~Ready(w, c.tokens, t) THEN {}
               ELSE {At(bag, {a \in c.activations : a.fork # ForkOf(w, t)}) :
                       bag \in Onward(w, Without(c.tokens, AtJoin(w, c.tokens, t)),
                                      ParentOf(c.activations, ForkOf(w, t)), t.step)}
  IN  {[step |-> t.step, after |-> d] : d \in after}

\* Deliberate fault: only one task runs at a time.
ExecutionsInOneOrder(w, c) ==
  IF BagToSet(c.tokens) = {} THEN {}
  ELSE LET able == {t \in BagToSet(c.tokens) : ExecutionsOf(w, c, t) # {}}
       IN  IF able = {} THEN {} ELSE ExecutionsOf(w, c, CHOOSE t \in able : TRUE)

Executions(w, c) == UNION {ExecutionsOf(w, c, t) : t \in BagToSet(c.tokens)}

-----------------------------------------------------------------------------
\* The exploration.

Start(w) ==
  [facts |-> Initial(w), tokens |-> SetToBag({[step |-> Entry(w), owner |-> NoBranch]}),
   activations |-> {}]

Open == [status |-> "open", guaranteed |-> <<>>, blocked |-> {}]
Unknown == [Open EXCEPT !.status = "unknown"]

VerdictInit ==
  /\ Init
  /\ limits \in Limits
  /\ nodes = <<Start(workflow)>> /\ graph = <<>> /\ transitions = 0
  /\ result = IF Valid(workflow) THEN Open ELSE Unknown

Verifying == result.status = "open" /\ UNCHANGED <<vars, limits>>

Frontier == nodes[Len(graph) + 1]
Found == Executions(workflow, Frontier)
New == {e.after : e \in Found} \ Ext!ToSet(nodes)

WithinLimits ==
  /\ Len(graph) < limits.budget
  /\ ~Rejected(workflow, Frontier.tokens, Frontier.activations)
  /\ transitions + Cardinality(Found) <= limits.maxTransitions
  /\ Len(nodes) + Cardinality(New) <= limits.maxConfigurations

Expand ==
  /\ Verifying
  /\ Len(graph) < Len(nodes) /\ WithinLimits
  /\ nodes' = nodes \o Ext!SetToSeq(New)
  /\ graph' = Append(graph, Found)
  /\ transitions' = transitions + Cardinality(Found)
  /\ UNCHANGED result

\* A limit, or a configuration that misuses a fork or a join.
GiveUp ==
  /\ Verifying
  /\ Len(graph) < Len(nodes) /\ ~WithinLimits
  /\ result' = Unknown
  /\ nodes' = <<>> /\ graph' = <<>> /\ transitions' = 0

-----------------------------------------------------------------------------
\* The result.

Executed(i) == {e.step : e \in graph[i]}

\* Deliberate fault: a configuration that executes any join completes every fork.
GoalsOfAnyJoin(i) ==
  IF \E j \in Executed(i) : Kind(workflow, j) = "join"
  THEN {f \in Step : Kind(workflow, f) = "fork"} ELSE {}

\* The forks whose join executes in the i-th configuration.
Goals(i) == {PairOf(workflow, j) : j \in {k \in Executed(i) : Kind(workflow, k) = "join"}}

\* The least solution of the reverse problem: <<i, f>> when f can still join.
CanJoin ==
  LET edges == UNION {{<<i, k>> : k \in {l \in DOMAIN nodes :
                 \E e \in graph[i] : e.after = nodes[l]}} : i \in DOMAIN graph}
      Round[n \in Nat] ==
        IF n = 0 THEN UNION {{i} \X Goals(i) : i \in DOMAIN graph}
        ELSE LET known == Round[n - 1]
             IN  known \cup UNION {{<<e[1], k[2]>> : k \in {j \in known : j[1] = e[2]}} : e \in edges}
  IN  Round[Len(nodes)]

Guaranteed ==
  [id \in UNION {Executed(i) : i \in DOMAIN graph} |->
    {x \in Fact : \A i \in DOMAIN graph : id \in Executed(i) => x \in nodes[i].facts}]

Blocked ==
  LET able == CanJoin
  IN  {f \in Step : \E i \in DOMAIN nodes :
         \E a \in nodes[i].activations : a.fork = f /\ <<i, f>> \notin able}

\* The visits the engine can need: one for the artificial entry, and one for
\* every configuration and every fork that is added to it.
Visits == 1 + Len(nodes) * (1 + Cardinality({f \in Step : Kind(workflow, f) = "fork"}))

Report ==
  /\ Verifying
  /\ Len(graph) = Len(nodes) /\ Len(graph) < limits.budget
  /\ LET missing == {id \in DOMAIN Guaranteed : ~(Requires(workflow, id) \subseteq Guaranteed[id])}
     IN  result' = [status |-> IF missing \cup Blocked = {} THEN "valid" ELSE "invalid",
                    guaranteed |-> Guaranteed, blocked |-> Blocked]
  /\ nodes' = <<>> /\ graph' = <<>> /\ transitions' = 0

\* What the exploration left of the budget is not enough for the engine.
Exhaust ==
  /\ Verifying
  /\ Len(graph) = Len(nodes) /\ limits.budget - Len(graph) < Visits
  /\ result' = Unknown
  /\ nodes' = <<>> /\ graph' = <<>> /\ transitions' = 0

Run == result.status # "open" /\ Next /\ UNCHANGED verification

VerdictNext == Expand \/ GiveUp \/ Report \/ Exhaust \/ Run

VerdictSpec == VerdictInit /\ [][VerdictNext]_<<vars, verification>>

-----------------------------------------------------------------------------
\* Properties.

Reported == result.status \in {"valid", "invalid"}

Executing ==
  {t.step : t \in {u \in BagToSet(tokens) : Kind(workflow, u.step) # "join" \/ Ready(workflow, tokens, u)}}

\* A workflow that got a verdict never misuses a fork or a join, and what the
\* verdict guarantees for a step holds whenever the step executes, in every
\* interleaving of the branches, wherever a limit would have cut the exploration
\* off ("every enabled task ordering is explored", parallel-transitions.ts:28).
VerdictCoversEveryInterleaving ==
  Reported =>
    /\ verdict = "exploring" /\ ~Rejected(workflow, tokens, activations)
    /\ \A s \in Executing :
         /\ s \in DOMAIN result.guaranteed
         /\ result.guaranteed[s] \subseteq facts
         /\ result.status = "valid" => Requires(workflow, s) \subseteq facts

\* The configurations that follow those of a set, by forward steps.  A verdict is given
\* only when there are no more than maxConfigurations: a later round finds no other.
Following(w, from) ==
  LET Within[n \in Nat] ==
        IF n = 0 THEN from
        ELSE LET known == Within[n - 1]
             IN  known \cup {e.after : e \in UNION {Executions(w, c) : c \in known}}
  IN  Within[limits.maxConfigurations]

\* The forks with an execution that makes them active and then can never join them.
NeverJoining(w) ==
  {f \in Step : \E c \in Following(w, {Start(w)}) : \E a \in c.activations :
     a.fork = f /\ \A d \in Following(w, {c}) :
       \A e \in Executions(w, d) : e.step # PairOf(w, f)}

\* A fork is reported exactly when some execution reaches a configuration in which
\* it is active and from which its own join is never executed, stuck or cycling
\* ("Check each activation's own join, not global termination or a later barrier",
\* parallel-workflow.ts:52-54).
BlockedForksNeverJoin ==
  Reported /\ tokens = Start(workflow).tokens =>
    result.blocked = NeverJoining(workflow)
=============================================================================
