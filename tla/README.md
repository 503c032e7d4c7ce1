# A TLA+ model of uneffect

uneffect is a static analyzer for TypeScript.  It reads source files through
several compiler front ends, infers effects, resource protocols, promise and
event-loop behaviour, and answers with *verdicts*: satisfied, unsatisfied,
valid, invalid, converged, unknown.  The value of such a tool is that a positive
verdict can be relied on.  The modules here state what each verdict promises and
check the algorithms that compute it against that promise.

Two kinds of concurrency appear in it.  The tool itself is a synchronous
program, whose difficulty is iteration: worklists, partial results, budgets,
values that change while they are being propagated.  The programs it analyzes
are concurrent, and the tool writes state machines for them: fork/join
configurations, the event loops of Node and of the browser, the disposal of
`using` declarations, the updates of React.  Both are modelled: the algorithms
beside what they promise, the generated machines beside the host they stand for.

## 1. Inventory

All paths are below `src/src/`.

| component | state it keeps | operations | interacts with | hard behaviour | what makes it correct |
|---|---|---|---|---|---|
| data-flow engine `cfg/fixed-point.ts` | values per block, worklist and its membership set, visit count | validate, visit a block, absorb a transfer, return | called by every iterative analysis, calls their transfers and joins | self-feeding blocks, conflicts, budget, order of visits | least solution, no lost change, conflict is a fact of the problem |
| completion algebra `cfg/completion.ts`, `contracts/control-flow-core.ts` | none | sequence, catch, finally, loop; completions of a statement | contracts, refinement, promise chains | transfers that pass finalizers, labels, switches and loops | covers every execution |
| effect propagation, change impact `effects/effect-propagation.ts`, `graph-analysis/impact.ts` | the engine's | lower a call or dependency graph | engine | recursion, computed budget | exact reachability, never out of its own budget |
| workflow preflight `graph-analysis/workflow.ts` | the engine's | lower a workflow, read the verdict | engine | early visits too strong, unreachable vs. no facts | verdict agrees with all executions |
| parallel workflows `graph-analysis/parallel-*.ts` | facts, tokens, fork activations; configurations explored | execute action, fork, join; reject | engine (barrier reachability) | nesting, loops through forks, ended branches | implements thread semantics |
| resource protocol `resources/resource-protocol.ts` | a state per resource, diagnostics | ten transitions, sure and unsure; join of paths; terminal status | engine; fed by front ends, promise ownership, disposal | optional resources, joins, order of evaluation | "satisfied" is sound for every path |
| disposal and temporal product `resources/resource-disposal-protocol.ts`, `resource-temporal-product.ts` | program counter, pending await, active failure, failure parents | acquire, release, fail, suppress | resource protocol | failure of an initializer or disposer in the middle | cleanup completes, failures keep their parent |
| Node event loop `async/async-patterns.ts` (2039-2381) | phase, pending flags, due times, instances, sources, executors | drain, run, advance, complete, cancel, diverge | fed by pattern and promise extraction, run by an external simulator | order of queues, re-registration, starvation, stuck guards | covers what Node does; every job runs |
| browser event loop `async/async-patterns.ts` (2384-2681) | task or microtask phase, scheduler priorities, abort state | run task, drain, render, abort | as above | priorities, abort racing a ready task | covers the host's order |
| React machines `analysis/react-semantics.ts` (2976-4240) | queue and failure of Actions, render attempts, suspensions, fallbacks, effects set up and cleaned up | dispatch, settle, render, suspend, resolve, commit, interrupt, retry | fed by component extraction, run by an external simulator | interruption, late data, fallback effects of a boundary already revealed | one sequential dispatcher, one suspended update, everything started completes |
| async safety, promise ownership, fetch and iterator products `async/` | recognised bindings | extract, project | resource protocol | who observes a rejection | each rejection observed once |
| module order `modules/` | visit stack, component stack | depth-first order, cycles | engine (conditional await) | cycles, await | evaluation order of the specification |
| effects, capabilities, contracts, refinement, spec, analysis, lint | tables and syntax facts | recognise, translate, report | engine, solver | mostly data | translation preserves meaning |
| front ends | compiler sessions | provide facts | all analyses | disagreement of front ends | parity |
| solver back end `backends/z3.ts` | attempts, evidence files | probe, execute, fall back | contracts | time-out against late answer, fallback hiding a failure | one semantic answer, all attempts kept |
| evidence, optimizer, project, cli | files, caches, exit codes | read, write, replay, run | all | partial writes, external processes | no verdict without evidence |

`PROJECT.json` lists the components with their status, the lines every
definition translates, and the hazards, each at its line.

## 2. Modules

```
FlowProblem            graph, lattice, solution: no state
  ChaoticIteration     what the engine promises
  FixedPoint           solveBasicBlockFixedPoint   -- implements ChaoticIteration
    FixedPointProofs   theorems
    SetPropagation     instance: effects, impact
      SetProofs        theorems
    WorkflowPreflight  instance: sequential workflows
      WorkflowProofs   theorems
    ResourceCfg        instance: resource protocol on a control-flow graph
      ResourceProofs   theorems, with those of ResourceProtocol
ForkJoin               threads: what parallel workflows promise
  ParallelWorkflow     advanceConfiguration        -- implements ForkJoin
                       verifyParallelWorkflow: exploration, limits, verdict
    ParallelProofs     theorems
Completion             the algebra of completions: no state
  ContractControlFlow  createContractControlFlow, beside what statements do (external)
ModuleOrder            buildModuleInitializationOrder, beside the host's evaluation
ResourceStates         transitions, joins, terminal status, executions: no state
  ResourceProtocol     evaluateResourceProtocol
    ResourceProofs     theorems
  ResourceCfg          evaluateResourceProtocolCfg
UsingScope             what leaving scopes promises
  DisposalProduct      lowering of `using`, generated machine -- implements UsingScope
NodeEventLoop          the machine generateNodeEventLoopQuint writes, beside the queues of Node
  NodeLoopProofs       theorems
JobQueue               one queue of microtasks
  WebEventLoop         the machine generateWebEventLoopQuint writes -- implements JobQueue
    BrowserProofs      theorems
ActionDispatcher       the Actions of one useActionState (external)
  ReactActionQueue, ReactActionErrorBoundary          -- implement ActionDispatcher
SuspendedUpdate        what a user sees of a suspended update (external)
  ReactTransitionSuspense, ReactSuspenseFallback, ReactSuspenseBoundary,
  ReactSuspenseTree                                   -- implement SuspendedUpdate
ReactTransition, ReactLifecycle
ReactNestedSuspense    chains of boundaries            -- implements ReactSuspenseTree
ReactUpdates           the nine React machines side by side
  BrowserProofs        theorems (the module of the event loop's)
Listings               filtering a list in its order, sorting a set by a key
EngineRun              the variables of a call of the engine, for its clients
FiniteProofs           lemmas: least numbers, images, listings, growing sets
```

The runs combine them: `MCGraphAnalyses` (set propagation, workflows, resources on
graphs, modules, statements), `MCContracts` (lists of transitions, scopes, parallel
workflows), `MCNodeEventLoop`, `MCBrowser` (event loop and React), `MCFixedPoint`.

An `MC` module gives the constants of a specification their checked values; a
configuration lists what is checked.  The runs of the findings have configurations of
their own over the same modules, chosen by the constants `Client`, `Part` and `Machine`
or by the programs.  Definitions whose comment
says *deliberate fault* are mutated forms of a neighbouring definition: they are
used by no specification and show, for each property, a plausible mistake the
property would find.

### 2.1 The engine: `FlowProblem`, `ChaoticIteration`, `FixedPoint`

State: `status`/`reason` (how the call ended), `states`, `queue`, `queued`,
`iterations` as in the code, and `visiting`/`pending` for the inner loop of
`fixed-point.ts:91-109`: the transfers of the visited block, computed once and
absorbed one by one.  Every early return is an action (`RejectBudget`,
`RejectGraph`, `ConflictAtEntry`, `ExhaustBudget`, `UndeclaredTransfer`,
`ConflictTransfer`), so is every visit and every transfer (`NothingNew`,
`Propagate`).

The caller's record is an opaque identifier read through operators (`Declared`,
`Edges`, `Transfer`, ...).  The lattice is any set with a partial join:
`LatticeAssumption` says that a join is a least upper bound whenever one exists,
and fails otherwise; that is what `docs/cfg.md` calls a suitable lattice.
Equality of values stands for `lattice.equivalent`.  Transfers are *not* assumed
monotone: the properties that need it say so.

`ChaoticIteration` is the abstract specification: values grow by justified joins,
and the verdict "converged" is given only to a solution.

### 2.2 Clients: `SetPropagation`, `WorkflowPreflight`, `ResourceCfg`

Each instantiates `FixedPoint` with its lowering (blocks, edges, transfer, budget
formula) and its lattice.  The proofs show that each satisfies the assumptions of the
engine, so that the engine's theorems apply to it.  The properties are stated
against a definition that knows no engine: reachability as membership in every
closed set, executions of a workflow, paths through a graph.

The transfers of `ResourceCfg` are not monotone (see finding 2); its properties
are the soundness of what is recorded, which does not need monotonicity.

### 2.3 Parallel workflows: `ForkJoin`, `ParallelWorkflow`

`ParallelWorkflow` is `advanceConfiguration`: a bag of tokens that know their
owning branch and a set of activations that know their parent.
`verifyParallelWorkflow` explores all of its behaviours and gives up at the first
configuration with an unscoped arrival or a reentered fork, which is the action
`Reject`.  The canonical sorting of configurations only identifies equal ones; a
bag and a set do the same.  `ForkJoin` has threads named by the path of branches
they descend through; `ThreadsOf` and `ForkedIn` are the refinement mapping, which
looks up the path of an owner in the activations (`PathIn`).

The second half of the module is `verifyParallelWorkflow` around it.  The three limits are
constants of the input; the exploration expands configurations in order of
discovery and stops in the middle of one when a limit is reached.  Which joins can
still execute is the least solution of the reversed problem (`CanJoin`), which the code asks of
the engine; that the engine finds it is `ConvergedIsLeastSolution`.  A behaviour of the
workflow then follows, and the verdict is compared with it: the guarantees at every step, the
blocked forks with `Following`, a search that goes forward from every configuration.

### 2.4 Resources: `ResourceStates`, `ResourceProtocol`, `ResourceCfg`

`ResourceStates` translates the ten transitions, the treatment of conditional
and unknown ones (`Apply`), the join of two paths and the terminal status.  A
recorded state *means* a set of certain states; the end of the module gives the
executions it has to describe, in which a conditional transition happens or not
and an operation that ends a resource is skipped when nothing was acquired.
Diagnostics are kept as the set of resources diagnosed.  Transitions are
evaluated in the order of their positions; callable summaries are types without
behaviour in this file.

### 2.5 Scopes: `UsingScope`, `DisposalProduct`

`DisposalProduct` translates the lowering of `using` and `await using` to
acquisitions and releases (`resource-disposal-protocol.ts`, the sort of
`async-safety.ts:2788`) and the machine generated for them: program counter,
failure jumps, the pending await, the chain of suppressed failures.  `UsingScope` is
the abstract specification: a stack of open resources and a stack of failures.  The
composition with a temporal specification, a renaming of text, is left out.

### 2.6 Module order: `ModuleOrder`

First `buildModuleInitializationOrder`: walk, components, admitted rings,
constraints.  Then the program runs by InnerModuleEvaluation of ECMA-262, with
top-level await; a verified order has to hold of what the host does.

### 2.7 Statements: `Completion`, `ContractControlFlow`

The algebra is used by several front ends; the one that is modelled with it decides
whether a function may reach its end.  A statement or expression is the neutral view
of `control-flow-contracts.ts`; the facts of the checker are part of it.
Beside the check, the module runs a statement with an explicit stack (`Run`), which knows
nothing of completion sets.  The check is one-sided, as the use is: a missing completion makes an
end look unreachable, a superfluous one costs precision.  Exceptions that leave the
function from inside an expression are no concern of the algebra and of the check.
Assignment operators and the tests of cases are left out.

### 2.8 The Node event loop: `NodeEventLoop`

The generator turns the asynchronous calls of a source file into a machine with
one action per callback, phase change, completion and cancellation.  The input
`program` is the pattern model: jobs with their queue, parent, delay and
repetition; promise chains; executors.  Each action of the module is one family
of generated actions, its guards are the generated guards.  Time is relative
(`wait` is due time minus clock), which makes the machine finite.  Callback
summaries of temporal specifications and the options that deliberately break the
generated machine are left out; the number of times a callback fired is kept as
"has fired", which is all the guards read.

The second half of the module observes that machine: `arrival` is what Node's queues hold,
`inV8` says that Node is emptying the V8 queue, and `faithful` that so far the machine has
drained what Node drains.  The queues are external to the repository.  Node turns to the
ticks after each callback and after the script, and to the V8 queue when no tick is left;
once there it empties the whole V8 queue, also of what its jobs add, before it looks at
the ticks again, and the evaluation of an ES module is such a job.
`docs/async-pattern-models.md` puts ticks before V8 jobs and says nothing of a tick that a
V8 job registers; see section 3 for the files this leaves out.

### 2.9 The browser event loop: `WebEventLoop`, `JobQueue`

The generator writes one machine per page: a checkpoint in which the job with the
smallest ticket runs, a rendering opportunity, a turn in which a timer, a scheduler
task or a listener runs.  `callback` holds per callback what the generated variables
hold; tickets, priorities, abort flags and the chosen paths of composed signals are
kept as written.  Due times are relative to the clock and tickets start over when the
queue is empty; `fires` is cut at `FireBound`, since guards ask for none, one or more.
`arrival` is a history no guard reads: per pending scheduler task the pending ones
registered before it, which is the host's order among equal priorities (finding 7).
`JobQueue` is the abstract queue; sorting the tickets is the refinement mapping.

### 2.10 React: `ReactUpdates` and the machines it composes

Each generator of `react-semantics.ts` has a module of its own with the variables the
generator declares (as fields of `state`), its actions, and the predicate generated
with it.  `ReactUpdates` puts the nine side by side (`machine`), so that one property
can be stated of several: both Action machines implement `ActionDispatcher`, four
Suspense machines implement `SuspendedUpdate`, and the generator for chains of
boundaries does what the generator for trees does.  The bounds
(`MaxQueuedActions`, ...) are options of the generators.  What is external, React
itself, is stated in the two abstract modules with the rules
`docs/react-semantics.md` cites.

## 3. Runs

| run | instance | what it shows |
|---|---|---|
| `fixed_point` | all graphs of three blocks, five kinds of transfer one of which is not monotone, values with exclusive facts, budgets 2 and 12, one program per defect | types, worklist, no lost change, least solution, conflicts, growth, refinement of `ChaoticIteration` |
| `graph_analyses` | `client` = `sets`: all call graphs of three functions with two effects, all dependency graphs of three nodes with five change sets; `workflow`: all successor relations of three steps; `resources`: graphs of four blocks with loops; `modules`: import graphs of three modules, rings reached from outside; `statements`: loops, tries, switches, labels and expressions nested three deep | exact reachability, the effect client stays in its budget; guarantees and verdict of a workflow equal those of all executions; recorded resource states cover every path and satisfied is safe; verified module orders hold of the host, components are exact; completions cover every execution |
| `contracts` | `part` = `list`: all lists of four transitions over three resources; `scope`: functions of three `using` declarations in every nesting, with loops, a condition, awaited and inline initializers and disposals; `workflow`: two nested forks whose branches end, loop, go to the wrong join or fork again, with ample limits and with each limit scarce | recorded states describe every execution, satisfied is safe; the generated predicate holds, scopes are left as `UsingScope` says; one thread per branch, ended branches block their join, refinement of `ForkJoin`, the verdict agrees with every interleaving, forks reported blocked never join |
| `node_event_loop` | files of up to three registrations and two chains | see below |
| `browser` | the event loop on eight families of programs with up to four callbacks; the nine React machines | see below |
| `resource_transfer` | transfers with a target | finding 1 |
| `resource_optional` | one acquisition in a branch of two blocks | finding 2 |
| `node_chains` | two chains of two reactions | finding 3 |
| `node_immediate` | an immediate registered by an interval | finding 4 |
| `module_ring` | an entry that imports a member of a ring of two | finding 5 |
| `react_lifecycle` | a component with a layout Effect and a passive Effect | finding 6 |
| `scheduler_order` | a scheduler task that registers another, beside a later one | finding 7 |

Three runs hold several systems at once.  A variable (`client`, `part`, `machine`)
says which one a behaviour belongs to; the variables of the others keep one idle value,
and every property speaks of its own system only (or the idle value is an initial state
of the abstract specification).  Nothing is composed that the program does not
compose: the systems share an input space and a command line.  A module is either
extended or instantiated by such a run, never both with different constants.

### Bounds, and why they are enough

* Three blocks allow every combination of self loop, two-block cycle, join of two
  paths and unreachable block; a fourth adds length.  The theorems hold for any
  number.  The budget 2 stops a run in the middle of every loop, 12 never does.
* Three functions give direct, mutual and indirect recursion.
* Two nested forks are the smallest instance in which a join has to restore a
  parent branch; all successors that matter vary.
* Two transitions lead a resource to any recorded state, and two more are applied to it
  and its partners (`MaxLength` = 4); three resources are what a split or a join with two
  partners needs.  The theorems hold for lists of any length.
  In the graphs one resource suffices because paths are joined resource by
  resource.
* `MaxPath` = 10 bounds the edges of a path through a graph of resources; on every input
  the paths of 8 edges already meet every situation any path meets.
* `MaxJobs` = 3 jobs give a child of a child, `MaxChains` = 2 chains of
  `MaxStages` = 2 links two reactions that can meet; `MaxDelay` = 2 stands for the
  host's largest delay, so 3 is the delay that overflows; `MaxInstances` = 3
  registrations of one call site are kept and further ones dropped, which the
  property about registrations takes into account.  Two alternatives of a
  callback stand for any number.
* Two nested forks under limits of 400 visits, 40 configurations and 200 transitions
  are explored completely; with one limit scarce the exploration stops in the middle.
* Three `using` declarations are a scope in a scope beside another one; `failureCount`
  is bounded by the machine itself.
* Three modules give a ring with an entry outside, and a graph with a diamond; a
  fourth one only carries an import out of a ring.
* `MaxCallbacks` = 4 browser callbacks are a parent with two jobs and a later job
  of another parent; three priorities, delays up to two, signals of two sources and
  signals of signals.  `FireBound` = 2.
* Four queued Actions, three Actions of a Transition, two interruptions, three render
  attempts, up to two effects per component (three in the lifecycle machine), trees of
  three boundaries: enough for a failure with Actions before and behind it, for a
  suspension after an interruption and the other way round, and for a boundary
  between a leaf and the root.
* Statements: a loop around a construct around a transfer, with a second statement
  behind it, is the smallest shape in which a transfer passes something before its
  owner takes it; the loop may have a second label.

Deadlock is not checked where the system may stop: a call returns, a list ends, a
workflow has no token left, a statement has completed, an executor never returns.  For
the machines of a host, `EveryJobRuns`, `EveryPendingCallbackRuns` and
`EveryUpdateCompletes` say what may not stop.

### The event-loop run

`NodeOrderIsAllowed` relates the generated guards to Node's queues: whenever the
machine has followed Node so far, the guards permit the job Node drains next.
This is what makes a check of the generated machine meaningful: a machine that
cannot do what the program does proves nothing about it.  `EveryJobRuns` adds that
no job starves.  `InstancesAgree`, `RegistrationsAreKept` and `DueTimersRunFirst`
are about the four variables kept for timers.

The files of the run leave out shapes for which these properties fail or for
which the machine keeps too little: two reactions that wait for each other
(finding 3), immediates and one-flag timers a repeating source registers again
before they have run (finding 4), ticks registered by ticks and jobs of ES
modules that register further jobs in the first checkpoint (their order
differs from Node's), ticks registered by a microtask while other microtasks wait, and
cleared handles of timers an interval registers.  They
are listed among the hazards, each at its line.

The ticks of microtasks are a difference between the machine and Node itself.  For
`queueMicrotask(() => process.nextTick(t)); queueMicrotask(m)` Node runs `m` before `t`,
since it empties the V8 queue first; the guards (`async-patterns.ts:2253-2275`) hold `m`
back while `t` is pending.  With these files `NodeOrderIsAllowed` fails.  No run claims it:
the documentation of the repository describes the order of the guards.

### The browser run

Event loop: `DrainsInOrder` says that tickets amount to one first-in first-out queue
that is emptied before anything else runs; `CancelledNeverRuns` says that an event, and a
task of the script, never runs after a signal of its own has aborted it or its listener is
removed, whenever it had completed (signals composed of others are not its subject, see below);
`EveryPendingCallbackRuns` says that no combination of queues, priorities and due times
leaves a callback behind.

React: `GeneratedPredicatesHold` runs what the simulator would run, exhaustively.  Eight
machines keep the predicate they are generated with.  The ninth, of the lifecycle, keeps it
for effects of one phase; for others the property asks for all of it but the order of the
phases, which that machine does not keep (finding 6).
`ImplementsDispatcher` and `ImplementsSuspendedUpdate` say that the machines are about
the right thing: a predicate over counters does not tell an Action that was dropped from
one that was finished.  `FallbackIsNearest` and `NestedImplementsTree` are about the
ownership of leaves.  `EveryUpdateCompletes` says that what is started is shown or
fails visibly.

Some programs are left out, because the generated machine does not do there what the
documentation says (only the first has a run of its own):

* a scheduler task registered by an earlier task, beside later tasks of its priority
  (finding 7);
* a continuation (`scheduler.yield`, 1513-1529) of a task that a signal from outside may
  abort: each of the two has a flag of its own for the one signal (2426, 2598), and
  registering the continuation (2514-2517) does not ask for it;
* an executor that may diverge and is followed by jobs of the script, or stands beside
  callbacks that register jobs: what drains the queue and what ends the checkpoint
  (2519-2545) does not wait for the script to return (2466-2484);
* work that listens to a signal composed of timeouts or of other signals, and listeners
  after a timeout or a composed signal: a composed signal aborts one step after its
  source, and a task asks only for the flag of the composed signal (2579), the turn of an
  outside event for none (2614-2620).  So the machine can run work whose source has
  aborted, where `docs/real-time-models.md:84` says that guards reject an aborted source and
  `docs/async-pattern-models.md:217` removes also an event that has completed but not run.
  No property of the run is about these programs;
* timers and frames registered by a callback are never queued (2505-2518 queues
  jobs and tasks only), so they do not occur as children; nor does a zero-delay
  interval beside a later timer, which it starves;
* a scheduler child that is registered again while it is pending stays one task.

In the `contracts` run, functions in which the last release of a loop body is inline,
another one awaited, and an initializer of the body awaited are left out
(`ResumesInline`): the machine starts the body over inside the checkpoint and cannot
start that initializer again (`docs/resource-protocols.md:235`).

Three observations about React that are kept in the models: a render begun before
another Action settles commits what that Action settled (`react-semantics.ts:3248`); a
suspension may use up the last attempt, which an interruption may not (3336, 3348), so
that the Transition stays pending (`OutOfAttempts`, excepted in
`EveryUpdateCompletes`); effects of a fallback may be set up after the boundary was
revealed (3815), and are then cleaned up.

The statements with two labels around one loop show a limit of
`control-flow-core.ts:120-123`: only the inner label reaches the loop, so that a
`continue` to the outer one stays in the set instead of leading to the condition.
`functionMayFallThrough` counts it as reaching the end, which keeps its answer safe;
`statementExit` reports the transfer instead of what follows it.

## 4. Fairness

* The engine, its clients and the evaluators are synchronous functions: once called,
  nothing else runs until they return, so only safety is checked of them.  That
  the effect client ends is a safety property as well (`EffectsNeverFail`: the budget
  it computes is enough).
* The host of the event loop keeps going: weak fairness of `ObservedHostStep`,
  the disjunction of everything the host does of its own accord.  Nothing is
  assumed of single callbacks: that each one gets its turn has to follow from the
  phases.  Completions of outside sources, cleared handles and the decisions of
  executors are not fair.  A source that is ready again and again can keep the
  poll phase busy (the generated machine, like the documentation, bounds nothing
  there), and an executor that diverges stops the host; `NoPromise` excepts both.

* Browser: the checkpoint goes on, rendering opportunities come, decisions of executors
  and of signals settle, idle turns pass, and aborted tasks are taken out: weak fairness
  of each.  The clock and every single task get strong fairness: which of several
  ready queues a turn serves is the host's choice, and a host that never serves one is
  not a browser.  Outside events, aborts from outside and cancellations get none.
* React: weak fairness of `HostStep`: React goes on rendering and committing, Actions
  settle, data arrives.  Dispatches, urgent updates, interruptions and suspensions get
  none.

Everything else is safety and needs no fairness.

## 5. Findings

Each is a run that ends in a counterexample, beside a passing run over inputs that
avoid it.

1. `resource_transfer`: transferring a resource that may be absent returns before
   the target is marked available (`resource-protocol.ts:243`).  A target that was
   released before counts as released afterwards, and a list is "satisfied"
   although one of its executions leaves the target open.
2. `resource_optional`: the transfer of a block is not monotone
   (`resource-protocol.ts:379`).  `if (c) { f = open(); work() } close(f)` is
   evaluated for the absent resource first, and the diagnostic made then stays: the
   result is not a fixed point of the equations it is documented to solve, and the
   verdict is unknown where a branch of one block gives satisfied.  The error is on
   the safe side.
3. `node_chains`: the second reactions of two promise chains each wait until no
   other reaction is pending (`async-patterns.ts:2290`), so the generated machine
   stops in its first checkpoint and its safety predicate holds of what is left.
4. `node_immediate`: registering an immediate that is pending moves its due time to
   the next iteration (`async-patterns.ts:2190`); under an interval of one
   millisecond it never runs.
5. `module_ring`: imports with an end in a cycle are left out of the constraints
   (`module-order-core.ts:209`), also the import of a ring member by a module outside the
   ring, so that nothing orders the importer behind the ring, while the artifact is
   "verified" and claims that importers wait.
6. `react_lifecycle`: the setup of an effect is guarded by its own commit and counters
   (`react-semantics.ts:3658`); the generated predicate, and
   `docs/react-semantics.md:211`, bound it by the effects of the phase before.  The
   machine of a component with effects in two phases violates its own predicate: in the run,
   the commit of a layout and a passive Effect is followed by the setup of the passive one.
   `docs/formal-models.md:241` calls different commit instances intentionally unordered,
   which the predicate does not reflect; the tests simulate components with one effect.
7. `scheduler_order`: eligible scheduler tasks of one priority run by their place in the
   source (`other < index`, `async-patterns.ts:2576`), where `docs/real-time-models.md:69-70`
   says that "equal priority preserves registration FIFO".  In
   `postTask(() => postTask(g)); postTask(h)` the task `h` is registered before `g`; the
   nested call comes first in the source, so the machine must run `g` first.

## 6. Proofs

`FixedPointProofs` proves about the engine, for every set of blocks, every lattice
that satisfies `LatticeAssumption`, every well-typed program and every budget:

| theorem | statement |
|---|---|
| `TypeCorrect` | `Spec => []TypeOK` |
| `QueueConsistent` | `Spec => []QueuedMirrorsQueue` |
| `Growing` | `Spec => StatesOnlyGrow` |
| `NothingForgotten` | `Spec => []UnsettledIsScheduled` |
| `ConvergenceSound` | `Spec => []ConvergedIsLeastSolution` |
| `ConflictSound` | `Spec => []ConflictMeansNoSolution` |
| `Refinement` | `Spec => ImplementsChaoticIteration` |

The argument.  `UnsettledIsScheduled` is the loop invariant of the worklist
algorithm and is inductive only together with `VisitAccountedFor`: while a block is
visited, what it sends at its current value is a list whose first part is absorbed
and whose rest is `pending`, unless its value has changed, in which case it is
queued again.  That clause is where the self-feeding block bites.  `NotStarted` and
`EntrySeeded` describe the call before and after `Begin`.  When the worklist is
empty nothing is queued or visited (`ConvergedOnEmptyQueue`), so every reached
block is settled: the values are a solution.  For leastness, `BelowEverySolution`
says that with monotone transfers neither a value nor a pending transfer exceeds
any solution; it rests on `WorkIsReached`, since only a reached block of the engine
is reached in the solution.  The same invariant gives `ConflictSound`: two values
below a common solution have a join.  For the refinement, `PendingJustified` keeps,
for each pending transfer, an earlier value of the visited block it was computed
from, so that every join of the engine is one of the abstract iteration.

Assumptions: `NamesAssumption`, `LatticeAssumption`, `ProgramAssumption` of
`FlowProblem`.  They are evaluated for the instance of `MCFixedPoint` and proved for
those of the clients.

### Clients of the engine

`SetProofs`, `WorkflowProofs` and the second half of `ResourceProofs` apply these
theorems to the instances the clients run.  Each proves that its values are a lattice
(`UnionIsLattice`, `MustIsLattice`, `FlowsAreLattice`), that its lowering satisfies the
engine's assumptions (`ProblemIsProgram`, `WorkflowIsProgram`, `CfgIsProgram`) and that
the instance takes the same steps (`SameEngine`, `SameCfgEngine`).  The hypothesis `Assumptions` of their theorems describes the input
after parsing: a finite list of nodes or steps in some order, a finite set of names or
facts.  `MCGraphAnalyses` evaluates it.

| theorem | statement |
|---|---|
| `SetProofs!AttributionExact` | `Assumptions`, `Spec => []ReachesExactly` |
| `SetProofs!EffectsSucceed` | `Assumptions`, `Spec => []EffectsNeverFail` |
| `WorkflowProofs!GuaranteesExact` | `Assumptions`, `Spec => []GuaranteesAreExact` |
| `WorkflowProofs!VerdictExact` | `Assumptions`, `Spec => []VerdictIsExact` |

*Exactness* has two halves.  A converged result is a solution, and every solution
holds what reachability (or an execution) hands on: `SettledHandsOn`,
`SolutionIsSound`.  And what reachability (or the set of all executions) gives is
itself a solution, `ReliableIsSolution`, so the least one holds no more.

*The budget.*  `SetLimit` is one visit per node plus one per node and effect, and
`EffectsNeverFail` is not inductive: the number of visits alone says nothing of those
still to come.  `WithinBudget` is: visits made, plus blocks waiting, never exceed one
per node for the first seeding and one for each pair of node and name attributed so
far, and there are no more pairs than the formula counts.

*Executions of a workflow* are the situations reached in up to `Cardinality(Situations)`
steps (`Met`).  That this is all of them is `MetIsLeast`: a growing chain of subsets of
a finite set stands still within its size (`GrowthEnds` of `FiniteProofs`).

### Parallel workflows

| theorem of `ParallelProofs` | statement |
|---|---|
| `TypeCorrect` | `Spec => []TypeOK` |
| `BranchesAreThreads` | `Spec => []OneThreadPerBranch` |
| `EndedBranchesBlock` | `Spec => EndedBranchBlocksItsJoin` |
| `Refinement` | `Spec => ImplementsForkJoin` |
| `VerdictSound` | `VerdictSpec => []VerdictCoversEveryInterleaving` |
| `BlockedForksExact` | `VerdictSpec => []BlockedForksNeverJoin` |

`OneThreadPerBranch` counts the tokens and activations of a branch; a join removes
arrivals, so the count is kept only if nothing else carries their branch.
The inductive invariant `IInv` says that owners and parents name live forks and their
branches (`ScopeLive`), that nothing occurs twice in the bag (`Single`), and that no two
of all tokens and activations share an owner or parent (`OwnersDisjoint`).  `ReadyTakesAll`
is the heart: when a join is ready, what it takes is every token of the fork's branches.

The refinement needs that paths identify owners.  `FInv` adds to `IInv` that the
activations are a `Forest`: every set of them has one whose parent is outside of the set.
With it the recursive definition of paths ends within as many levels as there are
activations (`LevelsReachAll`) and obeys `PathLaw`: the path of a branch is the path of the
scope its fork was started in, and the branch.  Then different scopes have different
paths, and a fork that starts or a join that ends one leaves the other paths alone
(`PathsAgree`), so that each action replaces exactly the threads it should; the threads a
join replaces are all siblings, again by `ReadyTakesAll`.

For the verdict, `VInv` says that the configurations listed so far are all those that
executions of the expanded ones lead to (`Explored`), that none of the expanded ones is
rejected or dies unnoticed, and, once there is a verdict, that the list is closed under
executions (`Sound`).  The running workflow is then in a listed configuration, whatever
order it takes its steps in.

For the blocked forks, `BInv` adds that every listed configuration but the first follows an
earlier one, and that there are no more than `maxConfigurations` once one is expanded
(`Traced`).  A search of `maxConfigurations` rounds is then complete: rounds that only add
stand still within the size of the set they stay in (`RoundsEnd`), so `Following` is the least
closed set (`FollowingLeast`).  In the same way `CanJoin` is the least set of pairs closed under going
back along an edge (`CanJoinLeast`), within as many rounds as there are configurations, since the
rounds of each fork are independent of the others.  The configurations from which a fork can
no longer join are closed under executions, and those that follow a configuration follow
each that leads to it, so the two agree (`BlockedExact`).  That a step named by a fork is its
join needs `Valid` and that activations belong to forks (`OnlyForks`).  The only assumption on
the limits is that `maxConfigurations` is positive (`LimitsAssumption`,
`parallel-workflow.ts:18-20`).

### Resources

| theorem of `ResourceProofs` | statement |
|---|---|
| `RecordsCover` | `SureTransfers`, `ListSpec => []CoversEveryExecution` |
| `AcceptedIsSafe` | `SureTransfers`, `ListSpec => []SatisfiedIsSafe` |
| `EntryStatesCover` | `CfgAssumption`, `CfgSpec => [](TransfersAreSure => EntryStatesCoverEveryPath)` |
| `SatisfiedPathsSafe` | `CfgAssumption`, `CfgSpec => [](TransfersAreSure => SatisfiedPathsAreSafe)` |

*Lists* (the first two).  Without `SureTransfers` the statements are false: it excludes finding 1, lists that
transfer to a target a resource acquired unsurely, and nothing else.  The invariant `IInv`
needs more than coverage: only an unsure acquisition of the same resource leaves
"absent-or-available" behind (`DoubtHasCause`), or else the hypothesis on the list would
say nothing about the record.  The cases of the ten transitions are `SureTyped` and `SureCovers`;
`ApplyCovers` adds the join with the path that does not take an unsure one.

*Graphs* (the last two).  `TransfersAreSure` excludes finding 1 at the point where the
evaluator meets it: a block that transfers to a target a resource recorded as
"absent-or-available" at that transition.  In the inputs of `MCGraphAnalyses` no transfer
has a target, so there it always holds.  The other hypothesis, `CfgAssumption`, describes
the input and is evaluated there.  The order of the lattice is `Below`: a recorded state
absorbs those that mean no more (`StateAbsorbs`), and states that mean the same are the
same (`MeaningIdentifies`).  The transfers are not monotone (finding 2), and the proof uses
of the engine only that a converged result is a solution.  Of a solution, what is recorded
for a block tells the truth about an execution that enters it (`Told`): at the entry
(`ToldAtEntry`), and from a block to its successors (`ToldOnward`), because a block covers
its executions transition by transition (`BlockCovers`) and a target is above all it is
sent.  So it does for every situation a path meets, within any number of edges
(`ToldEverywhere`).  The verdict is read off a join that is above what leaves every exit
(`TerminalAbove`).

### The Node event loop

| theorem of `NodeLoopProofs` | statement |
|---|---|
| `NodeLoopTyped` | `Spec => []TypeOK` |
| `RepeatedRegistrationsAgree` | `Spec => [](no cancellable repeated registration => InstancesAgree)` |
| `TimersComeFirst` | `Spec => []DueTimersRunFirst` |
| `NoRegistrationIsLost` | `Spec /\ SingleFlagsOnce => RegistrationsAreKept` |
| `HistoryOnlyWatches` | `OrderSpec => Spec` |

They hold for every set of programs that satisfies `ProgramAssumption` and every value of
the five bounds; `HistoryOnlyWatches` carries them over to the specification the run checks.

Two of them have a hypothesis about the program, and every program of the run satisfies
both.  Clearing the handle of a repeated registration takes its flag and leaves its due
times (2193-2197, 2310-2330), so that `InstancesAgree` is not true of it.  `SingleFlagsOnce`:
a timer or an immediate with a single flag is registered only by jobs that run once; run
`node_immediate` shows what happens otherwise.

`InstancesAgree` alone is not inductive.  `IInv` adds that no due time of a job exceeds its
delay (`InOrder`), so that the one that is appended is the largest and the one that is
taken out the smallest; and it says of clearable handles the part that remains true of
them (`Counted`).  `NoneDue` says of `DueTimersRunFirst` what holds *between* the
phases as well: a checkpoint remembers the phase it returns to (`resume`), and no callback
registers a timer that is due at once (`DelayShape`).  For `RegistrationsAreKept` two more
invariants are needed.  `OnceInv`: a job that runs once is registered, becomes pending and
runs, in this order, so its flag is free when it is registered.  `NestedInv`: a job that a
checkpoint drains is never pending together with one of the jobs it is nested in, so that
it cannot be registered twice; "nested in" is `Above`, the least set with the parent of
the job that is closed under parents.

### React

| theorem of `BrowserProofs` | statement |
|---|---|
| `PredicatesHold` | `ReactSpec => []GeneratedPredicatesHold` |
| `DispatcherImplemented` | `ReactSpec => ImplementsDispatcher` |
| `SuspendedUpdateImplemented` | `ReactSpec => ImplementsSuspendedUpdate` |

`BoundsAssumption` is what the generators check of their options: positive numbers, and
possibly no interruption.  They accept up to 64 Actions and 8 attempts, the theorems hold for
any number.  `PredicatesHold` is as qualified as its property: the printed predicate of the
lifecycle machine is proved for effects of one phase (`OnePhaseSafe`), and its counts for all.  `ComponentAssumption` has two parts.  `LeavesHaveOwners`: the walk through a tree
numbers the boundaries and gives each leaf one of them as its owner.  The walk is a recursion
over the tree, which the provers cannot unfold for every tree; TLC evaluates the statement
for the trees of the run.  `ScenariosKnown`: a component has one of the scenarios of the
generator.  `DispatcherImplemented` rests on the first assumption only.

Each machine has a set of states of its own (`QueueState`, ...) and an invariant
(`QueueInv`, ...), chosen by the value of `machine` in `ReactInv`.  Some predicates need a
conjunct more: a failure has settled an Action (`QueueInv`), the failed Action is the
only one started and not settled (`ErrorInv`), a render is active only while something is
unseen (`TransitionInv`).  That of the lifecycle machine needs the most: `LifecycleInv`
says that each effect has come to one step of its life (`LivedTo`), that every commit up
to there has happened, and that a retry follows the resolution of its suspension.  The
machine orders its effects by phase, with a stable sort given by the rank of each; the
proof uses only that the sorted list has as many effects as the component.

A refinement is proved once per abstract specification (`DispatcherSteps`, `UpdateSteps`): if
the values of the refinement mapping change in one of the listed ways, the step is one of
the abstract specification, or a stutter.  Each machine then shows that its actions
change them in those ways.

### The browser event loop

| theorem of `BrowserProofs` | statement |
|---|---|
| `CancelledStaysIdle` | `Spec => CancelledNeverRuns` |
| `JobQueueImplemented` | `Spec /\ ScriptEndsFirst => DrainsInOrder` |

They hold for every set of programs that satisfies `ProgramAssumption` (the fields have
their types, a callback is registered by an earlier one, a place in the source has one
job) and every `FireBound`.  The hypothesis of the second excludes programs of section 3 for
which the machine does not do what the documentation says, and every program of the run
satisfies it.  `ScriptEndsFirst`: in a program with executors that may diverge, no
callback is a microtask, no chain is settled at the start, and only the last of them in
the source has a reaction.

Neither property is inductive.  `GoneInv`: what is aborted or removed is not pending, which
holds of external events and of the tasks of the script (a repeating timer stays pending,
and an earlier task registers a later one whatever has happened to its signal).  It needs to
know how a callback becomes pending at all (`CallbacksMove`).  `JobsInv`: the tickets of the
waiting jobs are the
positions in a queue below `nextTicket`; a microtask is never waiting together with one it
is nested in (`Around`), nor two reactions of a chain; and nothing waits outside the
checkpoint, or while the script has not returned.  The second part is why a job that is
queued is never queued already, which would move it to the end.

The refinement mapping sorts tickets.  `SortedIs` of `FiniteProofs` makes this a relation: the
sorted sequence is the only one with the elements in the order of their keys.
`QueueGrows` and `QueueShrinks` show what new tickets and the removal of the smallest do to
this sequence, `QueueMoves` names the steps of `JobQueue` in these terms.

### What the provers are asked

No proof uses induction over data.  Induction over numbers is taken from the
well-foundedness of strict subsets of a finite set: `LeastNat` of `FiniteProofs` gives
the least number with a property, without an operator as parameter.  `Iterates` gives the
values of a function defined by recursion on numbers, and `StepsTaken` those of a
function defined along a list.

Model-checked only:

* liveness (`EveryJobRuns`, `EveryPendingCallbackRuns`, `EveryUpdateCompletes`), since
  fairness and `ENABLED` are outside the prover's reach;
* `CompletionsCoverExecutions`, `VerifiedOrderHolds`, `ComponentsAreExact`,
  `LeavesEveryScope`, `ResourceTemporalSafe`: `ModuleOrder`, `DisposalProduct` and
  `ContractControlFlow` declare or reach a recursive operator, and what they compute is
  found by induction over data;
* `FallbackIsNearest` and `NestedImplementsTree`: both say what the walk through a tree
  computes, which is induction over data again;
* `NodeOrderIsAllowed`, which leaves out shapes that only an enumeration of programs
  names.

## 7. Plan

Done: the engine and its theorems, its clients, parallel configurations and their
verdict, both resource evaluators, the disposal of scopes, module order, completions,
both event loops, the React machines.

Next, in this order:

1. The event-loop shapes left out of the runs: an abstract list of timers, ticks of
   ticks, ES modules with nested jobs, the close protocol, composed signals.
2. The smaller generators: promise chains (`promise-chains.ts`), the flat machine of
   `async-patterns.ts`, abortable fetch, iterator cleanup.
3. Conditional await (`module-order-control-flow.ts`) and the lint client of the engine.
4. Solver fallback (`backends/z3.ts`): an answer is never retried, a failure never hidden.

## 8. What is not modelled, and why

The modelled lines are a small part of the repository, and the larger part is out of
reach of a model of this kind.  Front ends, syntax-driven recognisers (effects,
contracts, analysis, refinement, async safety, lint registries) and printers translate
data and keep no state between steps: what can go wrong in them is a wrong table or a
missed case, which tests reach better than a model, and a model of them would repeat
them.  Where such a file writes or evaluates a machine, the machine is modelled
(`async-patterns.ts`, `react-semantics.ts`, `resource-temporal-product.ts`,
`control-flow-core.ts`) and the recognition is its input.  Process and file input and
output (project, cli, evidence, optimizer) is modelled nowhere.  The simulator, the
solvers, the compilers, React, Node and the browser are external; what is stated of
the last three is in `NodeEventLoop`, `JobQueue`, `ActionDispatcher` and `SuspendedUpdate`.
