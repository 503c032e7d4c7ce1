----------------------------- MODULE MCBrowser -----------------------------
(***************************************************************************)
(* The two kinds of machines that are generated for browser code, one at a *)
(* time: the event loop, and the updates of React components.              *)
(*                                                                         *)
(* Event loop: programs of up to four callbacks, one family per question:  *)
(* jobs and promise chains behind every kind of parent, timers and frames  *)
(* beside them, scheduler tasks with priorities that change, abort         *)
(* signals, and listeners.  A task registered by an earlier one beside a   *)
(* later task of its priority has a run of its own.  Left out, because the *)
(* machine does not keep the documented order or guard there: a            *)
(* continuation of a task that an outside signal may abort, work that      *)
(* listens to a signal composed of timeouts or of other signals, listeners *)
(* that follow a timeout or a composed signal, and executors that may      *)
(* diverge before other jobs (see the README).                             *)
(*                                                                         *)
(* React: queues of up to four Actions, Suspense boundaries whose          *)
(* components have up to two effects, every shape of a tree of three       *)
(* boundaries with leaves beside the boundaries or alone, and components   *)
(* of up to three effects in the six scenarios.                            *)
(***************************************************************************)
EXTENDS WebEventLoop, ReactUpdates

CONSTANT Machine  \* the React machines the run is about; "none": the event loop

\* A callback of a queue at a place of the source, with everything optional left out.
On(queue, at) ==
  [queue |-> queue, at |-> at, delay |-> 0, repeats |-> queue = "external", parent |-> 0,
   alternative |-> 0, alternatives |-> 1, priority |-> 1, changes |-> <<>>, composition |-> 0,
   abortTimer |-> 0, externalSignal |-> FALSE, preAborted |-> FALSE, cleared |-> FALSE,
   listener |-> queue = "external"]

Of(callbacks) ==
  [callbacks |-> callbacks, chains |-> <<>>, executors |-> <<>>, compositions |-> <<>>,
   cancelled |-> {}, escaped |-> {}]

After(delay, queue, at) == [On(queue, at) EXCEPT !.delay = delay]
Every(delay, at) == [After(delay, "timer", at) EXCEPT !.repeats = TRUE]
In(parent, queue, at) == [On(queue, at) EXCEPT !.parent = parent]
Ranked(rank, at) == [On("scheduler-task", at) EXCEPT !.priority = rank]

Executor(settles, pending, diverges) ==
  [settles |-> settles, mayRemainPending |-> pending, mayDiverge |-> diverges]
Chain(links, at, executor) == [links |-> links, at |-> at, executor |-> executor]

\* A parent of any kind with two jobs, a second job of its own, and a chain of two
\* reactions anywhere in between.
Jobbing ==
  {[Of(<<p, In(1, "microtask", 2), In(c, "microtask", 3), On("microtask", 5)>>)
      EXCEPT !.chains = <<Chain(2, at, 1)>>, !.executors = <<Executor(TRUE, mp, FALSE)>>] :
     p \in {On("microtask", 1), On("animation-frame", 1), After(1, "timer", 1), Every(1, 1),
            Ranked(2, 1), On("external", 1)},
     c \in {1, 2}, at \in {0, 4, 6}, mp \in BOOLEAN}

\* A callback chosen at run time: each alternative registers its own job.
Choosing ==
  {Of(<<[p EXCEPT !.alternatives = 2], [In(1, "microtask", 2) EXCEPT !.alternative = 1],
        [In(1, q, 3) EXCEPT !.alternative = 2], On("microtask", 4)>>) :
     p \in {On("microtask", 1), On("animation-frame", 1), After(1, "timer", 1), Ranked(1, 1)},
     q \in {"microtask", "scheduler-task"}}

\* Two executors that may diverge, the last with the only job of the script.
Diverging ==
  {[Of(<<After(1, "timer", 3)>>) EXCEPT
      !.chains = IF n = 0 THEN <<>> ELSE <<Chain(n, 2, 2)>>,
      !.executors = <<Executor(TRUE, FALSE, TRUE), Executor(s, ~s \/ m, TRUE)>>] :
     n \in 0 .. 2, s \in BOOLEAN, m \in BOOLEAN}

Timing ==
  {[Of(<<After(d, "timer", 1), q, r, On("animation-frame", 4)>>)
      EXCEPT !.escaped = e] :
     d \in 0 .. 2, q \in {Every(1, 2), On("animation-frame", 2), After(1, "timer", 2)},
     r \in {After(2, "timer", 3), After(1, "scheduler-task", 3), In(2, "microtask", 3)}, e \in {{}, {1}}}

Scheduling ==
  {Of(<<[Ranked(x, 1) EXCEPT !.changes = c], [Ranked(y, 2) EXCEPT !.delay = d],
        Ranked(z, 3), Ranked(1, 4)>>) :
     x \in {0, 2}, y \in 1 .. 2, z \in {0, 2}, d \in 0 .. 1, c \in {<<>>, <<1>>, <<2, 0>>}}
  \cup {Of(<<Ranked(x, 1), Ranked(y, 2), In(2, "scheduler-task", 3)>>) : x \in 0 .. 2, y \in 0 .. 2}

\* A task registers another of its priority, which a later one in the source has too.
NestedTask == {Of(<<Ranked(1, 1), In(1, "scheduler-task", 2), Ranked(1, 3)>>)}

\* A signal of up to two sources, one of which may be chosen by a condition.
Any(sources, paths, initial) == [sources |-> sources, paths |-> paths, initial |-> initial]
From(kind, of) == [kind |-> kind, of |-> of]

Signals ==
  {<<Any(<<From("external", 0), From("external", 0)>>, <<>>, <<i>>)>> : i \in 0 .. 1}
  \cup {<<Any(<<From("external", 0), From("external", 0)>>, <<{1}, {2}>>, <<i, 0>>)>> : i \in 0 .. 1}

\* Work that listens to a signal of its own, to a timeout, or to a composed one.
Listening(t, composed) ==
  {[t EXCEPT !.externalSignal = TRUE], [t EXCEPT !.preAborted = TRUE]}
  \cup (IF t.queue = "external" THEN {}
        ELSE {[t EXCEPT !.abortTimer = 1], [t EXCEPT !.composition = Len(composed)]})

Aborting ==
  UNION {
    {[Of(<<After(1, "timer", 1), w, In(2, "microtask", 3)>>) EXCEPT !.compositions = c] :
       w \in Listening(On("scheduler-task", 2), c) \cup Listening(On("external", 2), c)
             \cup Listening([On("external", 2) EXCEPT !.repeats = FALSE], c)} : c \in Signals}

\* Signals that depend on a timeout and on each other; nothing listens.
Depending ==
  {[Of(<<After(1, "timer", 1), On("external", 2)>>) EXCEPT !.compositions =
      <<Any(<<From("external", 0), From("timer", 1)>>, ps, is), Any(<<From("composition", 1)>>, <<>>, <<0>>)>>] :
     ps \in {<<>>, <<{1}, {1, 2}>>}, is \in {<<0, 0>>}}

Removing ==
  {[Of(<<[On("external", 1) EXCEPT !.repeats = r, !.cleared = k], In(1, "microtask", 2), On("external", 3)>>)
      EXCEPT !.cancelled = c] : r \in BOOLEAN, k \in BOOLEAN, c \in SUBSET {1, 3}}
  \cup {[Of(<<After(1, "timer", 1), Every(1, 2)>>) EXCEPT !.cancelled = c] : c \in SUBSET {1, 2}}

MCProgram ==
  Jobbing \cup Choosing \cup Diverging \cup Timing \cup Scheduling \cup Aborting \cup Depending \cup Removing

-----------------------------------------------------------------------------
\* React.

Phase == {"insertion-effect", "layout-effect", "passive-effect"}

EffectLists == {<<>>} \cup {<<x>> : x \in Phase} \cup {<<x, y>> : x \in Phase, y \in Phase}

BoundaryComponents ==
  [primary : EffectLists \ {<<>>}, fallback : EffectLists]

\* Boundary 1 is the root; the leaves 11 to 13 belong to the boundaries 1 to 3, and 21
\* comes after them in the root.
TreeOf(nodes, thenable, known) ==
  [root |-> 1, nodes |-> nodes, thenable |-> thenable, requireKnownSuspension |-> known,
   parent |-> [b \in DOMAIN nodes |->
     IF b = 1 THEN 0 ELSE CHOOSE p \in DOMAIN nodes : \E i \in DOMAIN nodes[p] : nodes[p][i] = b]]

Trees ==
  {TreeOf(<<x, y, <<13>>>>, t, k) :
     x \in {<<2>>, <<2, 11>>, <<11, 2>>}, y \in {<<3>>, <<12, 3>>, <<3, 12>>},
     t \in SUBSET {11, 13}, k \in BOOLEAN}
  \cup {TreeOf(<<x, <<12>>, <<13>>>>, {12}, k) :
          x \in {<<2, 3>>, <<3, 11, 2>>, <<11, 2, 3, 21>>}, k \in BOOLEAN}
  \cup {TreeOf(<<x, <<12>>>>, {}, FALSE) : x \in {<<2>>, <<2, 11>>}}
  \cup {TreeOf(<<<<11, 21>>>>, {21}, k) : k \in BOOLEAN}

LifecycleComponents ==
  [effects : EffectLists \cup {<<"passive-effect", "layout-effect", "ref-callback">>},
   scenario : {"production", "strictModeDevelopment", "concurrentInterruption",
               "dependencyChange", "suspenseRetry", "repeatedSuspenseRetry"}]

\* A layout and a passive Effect.
LayoutAndPassive == {[effects |-> <<"layout-effect", "passive-effect">>, scenario |-> "production"]}

NoMachine == machine = "none" /\ component = <<>> /\ state = <<>>

\* A page that runs no script of its own, and never will.
NoScript ==
  /\ program = Of(<<>>) /\ phase = 1 /\ blocked = TRUE /\ decided = {} /\ callback = <<>>
  /\ ticket = <<>> /\ nextTicket = 0 /\ reason = <<>> /\ path = <<>> /\ arrival = <<>>

MCInit == machine \in Machine /\ ((NoMachine /\ Init) \/ (NoScript /\ ReactInit))

MCNext == (Next /\ UNCHANGED react) \/ (ReactNext /\ UNCHANGED vars)

MCSpec == MCInit /\ [][MCNext]_<<vars, react>> /\ Fairness /\ ReactFairness

PhasesInOrder == machine = "lifecycle" => Lifecycle!PhasesInOrder
=============================================================================
