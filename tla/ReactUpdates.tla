---------------------------- MODULE ReactUpdates ----------------------------
(***************************************************************************)
(* The machines the React generators write (src/analysis/                  *)
(* react-semantics.ts), side by side: `machine` says which one is written, *)
(* `component` what it is written for, and `state` holds its variables.    *)
(***************************************************************************)
EXTENDS Naturals, Sequences

CONSTANTS
  MaxQueuedActions, MaxActions, MaxInterruptions, MaxRenderAttempts,
  BoundaryComponent,   \* of ReactSuspenseBoundary
  Tree,                \* of ReactSuspenseTree and ReactNestedSuspense
  LifecycleComponent   \* of ReactLifecycle

\* The bounds the generators accept; a transition may go uninterrupted.
ASSUME BoundsAssumption ==
  /\ {MaxQueuedActions, MaxActions, MaxRenderAttempts} \subseteq Nat \ {0}
  /\ MaxInterruptions \in Nat

VARIABLES machine, component, state

react == <<machine, component, state>>

Queue == INSTANCE ReactActionQueue
ErrorBoundary == INSTANCE ReactActionErrorBoundary
Transition == INSTANCE ReactTransition
TransitionSuspense == INSTANCE ReactTransitionSuspense
Fallback == INSTANCE ReactSuspenseFallback
Boundary == INSTANCE ReactSuspenseBoundary WITH Component <- BoundaryComponent
SuspenseTree == INSTANCE ReactSuspenseTree
\* requireKnownSuspension is an option of the other generator.
Nested == INSTANCE ReactNestedSuspense WITH Tree <- {t \in Tree : ~t.requireKnownSuspension}
Lifecycle == INSTANCE ReactLifecycle WITH Component <- LifecycleComponent

\* The walk through a tree gives every leaf an owner; a component has a known scenario.
ASSUME ComponentAssumption == SuspenseTree!LeavesHaveOwners /\ Lifecycle!ScenariosKnown

NoComponent == component = <<>>

ReactInit ==
  \/ machine = "queue" /\ Queue!Init /\ NoComponent
  \/ machine = "error" /\ ErrorBoundary!Init /\ NoComponent
  \/ machine = "transition" /\ Transition!Init /\ NoComponent
  \/ machine = "retry" /\ TransitionSuspense!Init /\ NoComponent
  \/ machine = "fallback" /\ Fallback!Init
  \/ machine = "boundary" /\ Boundary!Init
  \/ machine = "tree" /\ SuspenseTree!Init
  \/ machine = "nested" /\ Nested!Init
  \/ machine = "lifecycle" /\ Lifecycle!Init

\* What React and the data it waits for do; the rest are the user's updates, and
\* renders that are interrupted or suspend.
HostStep ==
  \/ machine = "queue" /\ Queue!HostStep /\ UNCHANGED component
  \/ machine = "error" /\ ErrorBoundary!HostStep /\ UNCHANGED component
  \/ machine = "transition" /\ Transition!HostStep /\ UNCHANGED component
  \/ machine = "retry" /\ TransitionSuspense!HostStep /\ UNCHANGED component
  \/ machine = "fallback" /\ Fallback!HostStep /\ UNCHANGED component
  \/ machine = "boundary" /\ Boundary!Next
  \/ machine = "tree" /\ SuspenseTree!Next
  \/ machine = "nested" /\ Nested!Next
  \/ machine = "lifecycle" /\ Lifecycle!Next

Other ==
  \/ machine = "queue" /\ Queue!EnqueueAction /\ UNCHANGED component
  \/ machine = "error" /\ ErrorBoundary!EnqueueAction /\ UNCHANGED component
  \/ machine = "transition" /\ Transition!Request /\ UNCHANGED component
  \/ machine = "retry" /\ TransitionSuspense!Request /\ UNCHANGED component
  \/ machine = "fallback" /\ Fallback!Request /\ UNCHANGED component

ReactNext == (HostStep \/ Other) /\ UNCHANGED machine

\* React goes on rendering and committing, every Action settles, and the data every
\* render waits for arrives.
ReactFairness == WF_react(HostStep /\ UNCHANGED machine)

ReactSpec == ReactInit /\ [][ReactNext]_react /\ ReactFairness

-----------------------------------------------------------------------------
\* Properties.

\* Eight machines keep the predicate they are generated with.  The lifecycle machine
\* keeps it when all effects are of one phase, and otherwise all of it but the order of
\* the phases (`PhasesInOrder`), which that machine does not keep.
GeneratedPredicatesHold ==
  /\ machine = "queue" => Queue!reactActionQueueSafe
  /\ machine = "error" => ErrorBoundary!reactActionErrorBoundarySafe
  /\ machine = "transition" => Transition!reactTransitionSafe
  /\ machine = "retry" => TransitionSuspense!reactTransitionSuspenseSafe
  /\ machine = "fallback" => Fallback!reactSuspenseFallbackSafe
  /\ machine = "boundary" => Boundary!suspenseBoundarySafe
  /\ machine = "tree" => SuspenseTree!suspenseTreeSafe
  /\ machine = "nested" => Nested!nestedSuspenseSafe
  /\ machine = "lifecycle" =>
       Lifecycle!CountsAgree /\ (Lifecycle!OnePhase => Lifecycle!reactLifecycleSafe)

Status ==
  IF machine = "queue" THEN Queue!Status
  ELSE IF machine = "error" THEN ErrorBoundary!Status ELSE <<>>

Dispatcher == INSTANCE ActionDispatcher WITH
  status <- Status, isPending <- machine \in {"queue", "error"} /\ state.pending = 1

\* The counts of both Action machines stand for a dispatcher: it runs Actions one by
\* one in the order of dispatch, drops the rest after a failure, and is pending while
\* one is left (docs/react-semantics.md on useActionState).
ImplementsDispatcher == Dispatcher!Spec

Screen ==
  CASE machine = "retry" -> TransitionSuspense!Screen
    [] machine = "fallback" -> Fallback!Screen
    [] machine = "boundary" -> Boundary!Screen
    [] machine = "tree" -> SuspenseTree!Screen
    [] OTHER -> "nothing"

IsSuspended ==
  CASE machine \in {"retry", "fallback"} -> state.suspended = 1
    [] machine = "boundary" -> state.primary_suspended = 1
    [] machine = "tree" -> state.suspension_leaf > 0
    [] OTHER -> FALSE

IsResolved ==
  CASE machine \in {"retry", "fallback"} -> state.resolved = 1
    [] machine = "boundary" -> state.primary_suspension_resolved = 1
    [] machine = "tree" -> state.suspension_resolved = 1
    [] OTHER -> FALSE

Suspending == INSTANCE SuspendedUpdate WITH
  screen <- Screen, suspended <- IsSuspended, resolved <- IsResolved, keep <- machine = "retry"

\* The four machines with a fallback agree on what one suspended update shows: never
\* the new content before its data is there, and never a fallback in place of content
\* a Transition keeps (docs/react-semantics.md on Suspense).
ImplementsSuspendedUpdate == Suspending!Spec

FallbackIsNearest == machine = "tree" => SuspenseTree!FallbackIsNearest

Tracking == INSTANCE ReactSuspenseTree WITH
  component <- IF machine = "nested" THEN component 
               ELSE CHOOSE t \in Tree : ~t.requireKnownSuspension /\ Nested!Accepted(t),
  state <- IF machine = "nested" THEN Nested!AsTree
           ELSE [suspension_leaf |-> 0, suspension_owner |-> 0, fallback_owner |-> 0,
                 suspension_resolved |-> 0, leaf_committed |-> 0]

\* The two generators agree on a chain of boundaries: the machine for nested
\* boundaries does what the machine for trees does.
NestedImplementsTree == Tracking!Spec

Busy ==
  CASE machine \in {"queue", "transition", "fallback"} -> state.pending = 1
    [] machine = "error" -> state.pending = 1 \/ state.failure_stage \in 1 .. 3
    [] machine = "retry" -> state.pending = 1 /\ ~TransitionSuspense!OutOfAttempts
    [] machine = "boundary" -> ~Boundary!Settled
    [] machine \in {"tree", "nested"} -> state.leaf_committed = 0
    [] machine = "lifecycle" -> ~Lifecycle!Done
    [] OTHER -> FALSE

\* What was started is shown in the end, or the fallback of its Error Boundary is;
\* every effect runs through its life.  Only a Transition that has no attempt left
\* stays pending.
EveryUpdateCompletes == Busy ~> ~Busy
=============================================================================
