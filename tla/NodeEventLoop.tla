---------------------------- MODULE NodeEventLoop ----------------------------
(***************************************************************************)
(* The state machine generateNodeEventLoopQuint (src/async/                *)
(* async-patterns.ts) writes for the asynchronous calls found in a source  *)
(* file, without its temporal predicates and its deliberately broken       *)
(* options.  The machine is deterministic about nothing but its guards:    *)
(* which job a checkpoint drains next is decided by the conditions each    *)
(* generated action carries, so their combination can forbid every step.   *)
(*                                                                         *)
(* Time is kept relative: wait is "due - clock", zero once due, so that    *)
(* the clock itself disappears and the machine is finite.                  *)
(***************************************************************************)
EXTENDS Integers, Sequences, FiniteSets

CONSTANTS
  Program,      \* [jobs, chains, executors, esm, cancellable]
  MaxJobs,      \* bound on the jobs of a program
  MaxChains,    \* bound on its promise chains
  MaxStages,    \* bound on the links of a chain
  MaxDelay,     \* the host's largest delay, 2147483647
  MaxInstances  \* bound on the registrations kept for one call site

\* A job is named by its position in the source; the jobs registered inside its
\* callback follow it (collectNestedJobs).  parent = 0 means registered by the
\* file itself, alternatives = 0 that the callback is one function.
Job == [queue : {"next-tick", "microtask", "timer", "poll", "check", "close"},
        parent : 0 .. MaxJobs, alternative : 0 .. 2, alternatives : {0, 2},
        delay : 0 .. MaxDelay + 1, abort : BOOLEAN, repeats : BOOLEAN, module : BOOLEAN,
        cancelled : BOOLEAN, closes : 0 .. MaxJobs, closing : SUBSET (1 .. MaxJobs)]
Chain == [links : 0 .. MaxStages, settled : BOOLEAN, executor : 0 .. MaxChains, after : 0 .. MaxJobs]
Executor == [diverges : BOOLEAN, settles : BOOLEAN, idles : BOOLEAN]

ASSUME BoundsAssumption ==
  /\ {MaxJobs, MaxStages, MaxDelay, MaxInstances} \subseteq Nat \ {0}
  /\ MaxChains \in Nat

ASSUME ProgramAssumption == \A p \in Program :
  /\ p.jobs \in Seq(Job) /\ Len(p.jobs) <= MaxJobs
  /\ p.chains \in Seq(Chain) /\ Len(p.chains) <= MaxChains
  /\ p.executors \in Seq(Executor) /\ p.esm \in BOOLEAN
  /\ p.cancellable \subseteq DOMAIN p.jobs
  /\ \A i \in DOMAIN p.jobs :
       /\ p.jobs[i].parent < i
       /\ p.jobs[i].queue \in {"poll", "close"} => p.jobs[i].delay = 0
       /\ p.jobs[i].abort => p.jobs[i].delay <= MaxDelay /\ p.jobs[i].parent = 0

\* What a checkpoint drains or a phase runs: <<0, i>> is the callback of job i,
\* <<c, s>> the reaction of stage s of chain c.
Key == (0 .. MaxChains) \X (1 .. IF MaxJobs < MaxStages THEN MaxStages ELSE MaxJobs)
Callback(i) == <<0, i>>

VARIABLES
  program,     \* the input of the generator; never changes
  phase,       \* node_phase: 0 checkpoint, 1 timers, 2 poll, 3 check, 4 close
  resume,      \* resume_phase: where the checkpoint returns to
  pending,     \* the keys whose callback_i_pending or promise_reaction_c_s_pending is set
  wait,        \* callback_i_due - clock
  fired,       \* the jobs whose callback_i_fires is not 0
  instances,   \* callback_i_instances
  dueTimes,    \* callback_i_due_times, relative to the clock
  registered,  \* callback_i_registered
  closed,      \* the sources whose callback_i_source_open is false
  decided,     \* promise_executor_i_decided
  blocked      \* synchronously_blocked

vars == <<program, phase, resume, pending, wait, fired, instances, dueTimes, registered,
          closed, decided, blocked>>

-----------------------------------------------------------------------------
\* What the generator computes before it writes an action.

Jobs == DOMAIN program.jobs
J(i) == program.jobs[i]
Of(queue) == {i \in Jobs : J(i).queue = queue}
Before(i, js) == {Callback(k) : k \in {j \in js : j < i}}
Callbacks(js) == {Callback(i) : i \in js}

\* Deliberate fault: a delay below one millisecond is kept.
NodeDelayAsWritten(i) == J(i).delay

NodeDelay(i) ==
  IF ~J(i).abort /\ J(i).queue = "timer" /\ J(i).delay \notin 1 .. MaxDelay THEN 1 ELSE J(i).delay

External(i) == J(i).queue \in {"poll", "close"}

\* Deliberate fault: only intervals are registered more than once.
MultiInstanceInterval(i) ==
  J(i).queue = "timer" /\ J(i).repeats /\ J(i).parent # 0 /\ J(J(i).parent).repeats

MultiInstance(i) == J(i).queue = "timer" /\ J(i).parent # 0 /\ J(J(i).parent).repeats
Registers(i) == External(i) /\ J(i).parent # 0

Sources == (UNION {J(i).closing \cup {J(i).closes} : i \in Jobs}) \ {0}

Chains == DOMAIN program.chains
C(c) == program.chains[c]
Reactions == UNION {{<<c, s>> : s \in 1 .. C(c).links} : c \in Chains}
E(e) == program.executors[e]
Divergent == {e \in DOMAIN program.executors : E(e).diverges}

SettledAtStart(c) ==
  \/ C(c).settled
  \/ C(c).executor # 0 /\ E(C(c).executor).settles /\ ~E(C(c).executor).idles
     /\ ~E(C(c).executor).diverges

InitialReactions == {<<c, 1>> : c \in {d \in Chains : C(d).links > 0 /\ SettledAtStart(d)}}
InitialMicrotasks == {i \in Of("microtask") : J(i).parent = 0}
InitialV8 == Callbacks(InitialMicrotasks) \cup InitialReactions

\* Source positions: chain c stands behind job C(c).after.
Position(k) == IF k[1] = 0 THEN k[2] * (MaxChains + 1) ELSE C(k[1]).after * (MaxChains + 1) + k[1]
EarlierV8(k) == {j \in InitialV8 : Position(j) < Position(k)}

\* Jobs the evaluation of an ES module queues itself.
ModuleJob(i) == J(i).module /\ J(i).parent = 0
ModuleTicks == {i \in Of("next-tick") : ModuleJob(i)}

Init ==
  /\ program \in Program
  /\ phase = 0
  /\ resume = 1
  /\ pending = InitialReactions
       \cup Callbacks({i \in Jobs : J(i).parent = 0 /\ ~External(i) /\ ~J(i).cancelled})
  /\ wait = [i \in Jobs |-> NodeDelay(i)]
  /\ fired = {}
  /\ instances = [i \in Jobs |-> 0]
  /\ dueTimes = [i \in Jobs |-> <<>>]
  /\ registered = [i \in Jobs |-> 0]
  /\ closed = {J(i).closes : i \in {j \in Jobs : J(j).parent = 0}} \ {0}
  /\ decided = {}
  /\ blocked = FALSE

-----------------------------------------------------------------------------
\* Executors that may never return to the event loop.

CanDecide(e) ==
  /\ ~blocked /\ phase = 0
  /\ e \in Divergent \ decided
  /\ \A d \in Divergent : d < e => d \in decided

\* The first chain of the executor's promise, when it has a reaction.
FirstReaction(e) ==
  {<<c, 1>> : c \in {d \in Chains : C(d).executor = e /\ C(d).links > 0
                       /\ \A b \in Chains : C(b).executor = e => b >= d}}

Decide(e, reactions, diverges) ==
  /\ decided' = decided \cup {e}
  /\ pending' = pending \cup reactions
  /\ blocked' = diverges
  /\ UNCHANGED <<program, phase, resume, wait, fired, instances, dueTimes, registered, closed>>

DivergeExecutor(e) == CanDecide(e) /\ Decide(e, {}, TRUE)

ReturnSettled(e) ==
  /\ CanDecide(e)
  /\ FirstReaction(e) # {} /\ E(e).settles
  /\ Decide(e, FirstReaction(e), FALSE)

ReturnPending(e) ==
  /\ CanDecide(e)
  /\ E(e).idles \/ FirstReaction(e) = {}
  /\ Decide(e, {}, FALSE)

-----------------------------------------------------------------------------
\* What running a callback registers: enqueueNodeChildren.

Alternatives(i) == IF J(i).alternatives = 0 THEN {0} ELSE 1 .. J(i).alternatives

Children(i, a) == {j \in Jobs : J(j).parent = i /\ J(j).alternative \in {0, a}}

\* Registrations above the bound are dropped.
Bounded(n) == IF n < MaxInstances THEN n + 1 ELSE n
AppendBounded(s, d) == IF Len(s) < MaxInstances THEN Append(s, d) ELSE s

NewWait(j, own) ==
  IF J(j).queue = "check" THEN 1
  ELSE IF MultiInstance(j) /\ Callback(j) \in pending THEN own ELSE NodeDelay(j)

\* A step that runs job i, whose own flag, due time and instances become these.
Ran(i, a, again, ownWait, ownInstances, ownDueTimes) ==
  LET kids == Children(i, a)
      flagged == {j \in kids : ~External(j)}
      timed == {j \in kids : J(j).queue \in {"timer", "check"}}
      many == {j \in kids : MultiInstance(j)}
      external == {j \in kids : External(j)}
  IN  /\ pending' = (pending \ {Callback(i)}) \cup Callbacks(flagged \cup (IF again THEN {i} ELSE {}))
      /\ wait' = [j \in Jobs |-> IF j = i THEN ownWait
                                 ELSE IF j \in timed THEN NewWait(j, wait[j]) ELSE wait[j]]
      /\ instances' = [j \in Jobs |-> IF j = i THEN ownInstances
                                      ELSE IF j \in many THEN Bounded(instances[j]) ELSE instances[j]]
      /\ dueTimes' = [j \in Jobs |-> IF j = i THEN ownDueTimes
                        ELSE IF j \in many THEN AppendBounded(dueTimes[j], NodeDelay(j)) ELSE dueTimes[j]]
      /\ registered' = [j \in Jobs |-> IF j \in external THEN Bounded(registered[j]) ELSE registered[j]]
      /\ fired' = fired \cup {i}
      /\ UNCHANGED <<program, decided, blocked>>

ClosedByRegistering(i, a) == {J(j).closes : j \in {k \in Children(i, a) : External(k)}} \ {0}

-----------------------------------------------------------------------------
\* The checkpoint: phase 0.

Draining == ~blocked /\ phase = 0

CanDrainNextTick(i) ==
  /\ Callback(i) \in pending
  /\ program.esm /\ ModuleJob(i) => InitialV8 \cap pending = {}
  /\ Before(i, Of("next-tick")) \cap pending = {}

\* Ticks that go before a V8 job: the ones of a module's evaluation do not go
\* before the V8 jobs of that evaluation.
TicksAhead(moduleJob) ==
  Callbacks(Of("next-tick") \ (IF moduleJob THEN ModuleTicks ELSE {})) \cap pending

\* Deliberate fault: only the jobs of the same kind are held to source order.
CanDrainMicrotaskAlone(i) ==
  /\ Callback(i) \in pending
  /\ TicksAhead(program.esm /\ ModuleJob(i)) = {}
  /\ Before(i, InitialMicrotasks) \cap pending = {}
  /\ InitialReactions \cap pending = {}

CanDrainMicrotask(i) ==
  /\ Callback(i) \in pending
  /\ TicksAhead(program.esm /\ ModuleJob(i)) = {}
  /\ IF i \in InitialMicrotasks THEN EarlierV8(Callback(i)) \cap pending = {}
     ELSE Before(i, {j \in Of("microtask") : J(j).parent = J(i).parent}) \cap pending = {}

\* A reaction that is not queued from the start goes behind everything.
CanDrainReaction(k) ==
  /\ k \in pending
  /\ TicksAhead(program.esm /\ k \in InitialReactions) = {}
  /\ IF k \in InitialReactions THEN EarlierV8(k) \cap pending = {}
     ELSE ((Reactions \ {k}) \cup Callbacks(Of("microtask"))) \cap pending = {}

Drain(i, a) ==
  /\ a \in Alternatives(i)
  /\ Ran(i, a, FALSE, wait[i], instances[i], dueTimes[i])
  /\ closed' = closed \cup ClosedByRegistering(i, a)
  /\ UNCHANGED <<phase, resume>>

DrainNextTick(i, a) == Draining /\ i \in Of("next-tick") /\ CanDrainNextTick(i) /\ Drain(i, a)

DrainMicrotask(i, a) == Draining /\ i \in Of("microtask") /\ CanDrainMicrotask(i) /\ Drain(i, a)

NextStage(k) == {<<k[1], k[2] + 1>>} \cap Reactions

DrainReaction(k) ==
  /\ Draining /\ k \in Reactions /\ CanDrainReaction(k)
  /\ pending' = (pending \ {k}) \cup NextStage(k)
  /\ UNCHANGED <<program, phase, resume, wait, fired, instances, dueTimes, registered, closed,
                 decided, blocked>>

CheckpointPending == (Callbacks(Of("next-tick") \cup Of("microtask")) \cup Reactions) \cap pending

FinishCheckpoint ==
  /\ Draining
  /\ CheckpointPending = {}
  /\ phase' = resume
  /\ UNCHANGED <<program, resume, pending, wait, fired, instances, dueTimes, registered, closed,
                 decided, blocked>>

-----------------------------------------------------------------------------
\* Callbacks of the phases.

Due(i) == Callback(i) \in pending /\ wait[i] = 0

\* A source outside the program becomes ready, in any phase.
Complete(i) ==
  /\ ~blocked
  /\ External(i)
  /\ J(i).queue = "poll" => ~J(i).cancelled /\ i \notin closed
  /\ Registers(i) => registered[i] > 0
  /\ J(i).repeats \/ Registers(i) \/ i \notin fired
  /\ Callback(i) \notin pending
  /\ pending' = pending \cup {Callback(i)}
  /\ registered' = [registered EXCEPT ![i] = IF Registers(i) /\ ~J(i).repeats THEN @ - 1 ELSE @]
  /\ UNCHANGED <<program, phase, resume, wait, fired, instances, dueTimes, closed, decided, blocked>>

\* The next due time of a call site with several registrations.
FollowingDue(i, otherwise) == IF instances[i] > 1 THEN dueTimes[i][2] ELSE otherwise

Again(i) ==
  CASE External(i) -> FALSE
    [] MultiInstance(i) -> J(i).repeats \/ instances[i] > 1
    [] OTHER -> J(i).repeats

WaitAfter(i) ==
  CASE MultiInstance(i) -> FollowingDue(i, IF J(i).repeats THEN NodeDelay(i) ELSE wait[i])
    [] OTHER -> IF J(i).repeats THEN NodeDelay(i) ELSE wait[i]

InstancesAfter(i) == IF MultiInstance(i) /\ ~J(i).repeats THEN instances[i] - 1 ELSE instances[i]

\* Deliberate fault: the list keeps the due time that has just been used.
DueTimesKept(i) == dueTimes[i]

DueTimesAfter(i) ==
  CASE ~MultiInstance(i) -> dueTimes[i]
    [] MultiInstance(i) /\ J(i).repeats -> Append(Tail(dueTimes[i]), NodeDelay(i))
    [] OTHER -> Tail(dueTimes[i])

RunMacro(i, a, queuePhase) ==
  /\ ~blocked /\ phase = queuePhase
  /\ Due(i)
  /\ CheckpointPending = {}
  /\ a \in Alternatives(i)
  /\ Ran(i, a, Again(i), WaitAfter(i), InstancesAfter(i), DueTimesAfter(i))
  /\ phase' = 0
  /\ resume' = queuePhase
  /\ closed' = closed \cup J(i).closing \cup ClosedByRegistering(i, a)

NoEarlierDue(i, js) == \A j \in js : j < i => ~Due(j)

RunTimer(i, a) == i \in Of("timer") /\ NoEarlierDue(i, Of("timer")) /\ RunMacro(i, a, 1)
RunPoll(i, a) == i \in Of("poll") /\ RunMacro(i, a, 2)
RunCheck(i, a) == i \in Of("check") /\ NoEarlierDue(i, Of("check")) /\ RunMacro(i, a, 3)
RunClose(i, a) == i \in Of("close") /\ NoEarlierDue(i, Of("close")) /\ RunMacro(i, a, 4)

\* A handle cleared on some paths only.
CancelTimer(i) ==
  /\ ~blocked
  /\ i \in program.cancellable
  /\ Callback(i) \in pending
  /\ pending' = pending \ {Callback(i)}
  /\ UNCHANGED <<program, phase, resume, wait, fired, instances, dueTimes, registered, closed,
                 decided, blocked>>

-----------------------------------------------------------------------------
\* From phase to phase.

Advance(from, to, queue) ==
  /\ ~blocked /\ phase = from
  /\ \A i \in Of(queue) : ~Due(i)
  /\ phase' = to
  /\ UNCHANGED <<program, resume, pending, wait, fired, instances, dueTimes, registered, closed,
                 decided, blocked>>

AdvanceTimersToPoll == Advance(1, 2, "timer")
AdvancePollToCheck == Advance(2, 3, "poll")
AdvanceCheckToClose == Advance(3, 4, "check")

Sooner(d) == IF d > 0 THEN d - 1 ELSE 0

\* Deliberate fault: the next iteration starts without a tick of the clock.
AdvanceCloseWithoutTick ==
  /\ ~blocked /\ phase = 4
  /\ \A i \in Of("close") : ~Due(i)
  /\ phase' = 0
  /\ resume' = 1
  /\ UNCHANGED <<program, pending, wait, fired, instances, dueTimes, registered, closed, decided, blocked>>

AdvanceCloseToNextIteration ==
  /\ ~blocked /\ phase = 4
  /\ \A i \in Of("close") : ~Due(i)
  /\ wait' = [i \in Jobs |-> Sooner(wait[i])]
  /\ dueTimes' = [i \in Jobs |-> [n \in DOMAIN dueTimes[i] |-> Sooner(dueTimes[i][n])]]
  /\ phase' = 0
  /\ resume' = 1
  /\ UNCHANGED <<program, pending, fired, instances, registered, closed, decided, blocked>>

-----------------------------------------------------------------------------

DrainsJob(i, a) == DrainNextTick(i, a) \/ DrainMicrotask(i, a)
RunsInPhase(i, a) == RunTimer(i, a) \/ RunPoll(i, a) \/ RunCheck(i, a) \/ RunClose(i, a)
RunsAlternative(i, a) == DrainsJob(i, a) \/ RunsInPhase(i, a)

AdvancesPhase ==
  \/ AdvanceTimersToPoll \/ AdvancePollToCheck
  \/ AdvanceCheckToClose \/ AdvanceCloseToNextIteration

\* What the host does of its own accord.
HostStep ==
  \/ \E i \in Jobs : \E a \in Alternatives(i) : RunsAlternative(i, a)
  \/ \E k \in Reactions : DrainReaction(k)
  \/ FinishCheckpoint \/ AdvancesPhase

Next ==
  \/ HostStep
  \/ \E i \in Jobs : Complete(i) \/ CancelTimer(i)
  \/ \E e \in Divergent : DivergeExecutor(e) \/ ReturnSettled(e) \/ ReturnPending(e)

Spec == Init /\ [][Next]_vars

-----------------------------------------------------------------------------
\* Properties.

\* The four variables kept for a timer that is registered again and again agree
\* (async-patterns.ts:2193-2197, 2310-2330): it is pending exactly while it has
\* instances, every instance has a due time, the times are in order, and the
\* due time the guards read is the first of them.
InstancesAgree ==
  \A i \in Jobs : MultiInstance(i) =>
    /\ Len(dueTimes[i]) = instances[i]
    /\ Callback(i) \in pending <=> instances[i] > 0
    /\ \A m, n \in DOMAIN dueTimes[i] : m < n => dueTimes[i][m] <= dueTimes[i][n]
    /\ instances[i] > 0 => wait[i] = dueTimes[i][1]

\* No callback of the poll, check or close phase runs while a timer is due: the
\* loop cannot pass the timers phase before it has run them, and nothing those
\* later phases register is due at once (docs/async-pattern-models.md, phases).
DueTimersRunFirst ==
  (IF phase = 0 THEN resume ELSE phase) > 1 => \A i \in Of("timer") : ~Due(i)

\* What job i still owes its registrations.
Outstanding(i) ==
  IF MultiInstance(i) THEN instances[i]
  ELSE registered[i] + (IF Callback(i) \in pending /\ ~(Registers(i) /\ J(i).repeats) THEN 1 ELSE 0)

\* Running a callback adds one run to what every job it registers owes, and no
\* registration is swallowed by an earlier one that has not run yet.
RegistrationsAreKept ==
  [][\A i \in Jobs : \A a \in Alternatives(i) :
       RunsAlternative(i, a) => \A j \in Children(i, a) :
         Outstanding(j) < MaxInstances => Outstanding(j)' = Outstanding(j) + 1]_vars

\* A job is waiting while it is pending; one that stays pending after it has run
\* is waiting while it is due.
Waiting(k) ==
  /\ k \in pending
  /\ k[1] = 0 /\ (J(k[2]).repeats \/ MultiInstance(k[2])) => Due(k[2])

\* Behaviours no job is promised anything in: an executor that never returns, or
\* a source that completes again and again, which can keep the poll phase busy.
NoPromise == blocked \/ \E i \in Jobs : External(i) /\ J(i).repeats

\* Every job that becomes pending runs, or is cleared: no checkpoint gets stuck
\* because the jobs it has to drain wait for each other, and no phase is starved.
EveryJobRuns == \A k \in Key : Waiting(k) ~> (NoPromise \/ ~Waiting(k))

-----------------------------------------------------------------------------
\* The machine beside the queues of the host it stands for.  Node keeps a FIFO
\* queue of ticks and a FIFO queue of V8 jobs, and empties them in turns at every
\* checkpoint, ticks first: what a job adds to its own queue belongs to the same
\* turn, and a tick that a V8 job registers waits until the V8 queue is empty.  An
\* ES module is evaluated within a turn of the V8 queue.  The generated machine has
\* no queues, only flags and guards; arrival records what the queues would hold.

VARIABLES
  arrival,     \* pending checkpoint jobs, in the order in which they were queued
  inV8,        \* the V8 queue is being emptied
  faithful     \* so far, every job drained was the one Node drains

allVars == <<vars, arrival, inV8, faithful>>

IsTick(k) == k[1] = 0 /\ J(k[2]).queue = "next-tick"
TicksIn(s) == SelectSeq(s, IsTick)
V8In(s) == SelectSeq(s, LAMBDA k : ~IsTick(k))

NodeDrainsNext ==
  IF TicksIn(arrival) = <<>> \/ inV8 THEN V8In(arrival)[1] ELSE TicksIn(arrival)[1]

InSourceOrder(keys) ==
  [n \in 1 .. Cardinality(keys) |->
    CHOOSE k \in keys : Cardinality({j \in keys : Position(j) < Position(k)}) = n - 1]

OrderInit ==
  /\ Init
  /\ arrival = InSourceOrder(CheckpointPending)
  /\ inV8 = (program.esm /\ V8In(arrival) # <<>>)
  /\ faithful = TRUE

Queues(i, a) == Callbacks(Children(i, a) \cap (Of("next-tick") \cup Of("microtask")))

\* k leaves its queue, the one whose turn it is then, and keys are queued.
Observe(k, keys) ==
  /\ arrival' = SelectSeq(arrival, LAMBDA j : j # k) \o InSourceOrder(keys)
  /\ inV8' = (~IsTick(k) /\ V8In(arrival') # <<>>)
  /\ faithful' = (faithful /\ k = NodeDrainsNext)

Unobserved == UNCHANGED <<arrival, inV8, faithful>>

ObservedDrain ==
  \/ \E i \in Jobs : \E a \in Alternatives(i) :
       /\ DrainsJob(i, a)
       /\ Observe(Callback(i), Queues(i, a))
  \/ \E k \in Reactions :
       /\ DrainReaction(k)
       /\ Observe(k, NextStage(k))

ObservedRun ==
  \E i \in Jobs : \E a \in Alternatives(i) :
    /\ RunsInPhase(i, a)
    /\ arrival' = arrival \o InSourceOrder(Queues(i, a))
    /\ inV8' = FALSE
    /\ UNCHANGED faithful

ObservedReturn ==
  \E e \in Divergent :
    /\ ReturnSettled(e)
    /\ arrival' = arrival \o InSourceOrder(FirstReaction(e))
    /\ inV8' = (inV8 \/ program.esm)
    /\ UNCHANGED faithful

ObservedAdvance == (FinishCheckpoint \/ AdvancesPhase) /\ Unobserved

Outside ==
  \/ \E i \in Jobs : (Complete(i) \/ CancelTimer(i)) /\ Unobserved
  \/ \E e \in Divergent : (DivergeExecutor(e) \/ ReturnPending(e)) /\ Unobserved

ObservedHostStep == ObservedDrain \/ ObservedRun \/ ObservedAdvance

OrderNext == ObservedHostStep \/ ObservedReturn \/ Outside

\* The host keeps going; completions, cleared handles and executors are up to
\* the program and the outside.
OrderSpec == OrderInit /\ [][OrderNext]_allVars /\ WF_allVars(ObservedHostStep)

-----------------------------------------------------------------------------
\* Properties.

CanDrain(k) ==
  CASE k[1] # 0 -> CanDrainReaction(k)
    [] IsTick(k) -> CanDrainNextTick(k[2])
    [] OTHER -> CanDrainMicrotask(k[2])

\* The machine covers the host: as long as it has done what Node does, its
\* guards let it drain the job Node drains next.  Otherwise a property checked
\* on the machine says nothing about what the program really does.
NodeOrderIsAllowed ==
  faithful /\ phase = 0 /\ ~blocked /\ arrival # <<>> => CanDrain(NodeDrainsNext)
=============================================================================
