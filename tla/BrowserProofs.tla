---------------------------- MODULE BrowserProofs ----------------------------
(***************************************************************************)
(* Proofs about the machines generated for browser code: the updates of    *)
(* React components, and the event loop.                                   *)
(***************************************************************************)
EXTENDS WebEventLoop, ReactUpdates, FiniteProofs, SequenceTheorems, TLAPS

-----------------------------------------------------------------------------
\* The dispatcher of useActionState: a failure has settled an Action.
QueueState ==
  [enqueued : Nat, started : Nat, settled : Nat, active : Nat, pending : Nat,
   failed : Nat, cancelled : Nat]

QueueInv ==
  /\ state \in QueueState
  /\ Queue!reactActionQueueSafe
  /\ state.cancelled = 1 => state.settled > 0

LEMMA QueueStays ==
  ASSUME QueueInv, Queue!HostStep \/ Queue!EnqueueAction
  PROVE  QueueInv'
<1>1. /\ state.enqueued \in Nat /\ state.started \in Nat /\ state.settled \in Nat
      /\ state.active \in Nat /\ state.pending \in Nat /\ state.failed \in Nat
      /\ state.cancelled \in Nat /\ MaxQueuedActions \in Nat \ {0}
  BY BoundsAssumption DEF QueueInv, QueueState
<1>2. CASE Queue!EnqueueAction
  <2>1. /\ state.cancelled = 0 /\ state.enqueued < MaxQueuedActions
        /\ state'.enqueued = state.enqueued + 1 /\ state'.started = state.started
        /\ state'.settled = state.settled /\ state'.active = state.active
        /\ state'.pending = 1 /\ state'.failed = state.failed
        /\ state'.cancelled = state.cancelled
    BY <1>2 DEF QueueInv, QueueState, Queue!EnqueueAction
  <2>2. /\ state.enqueued + 1 \in Nat /\ 1 \in Nat
    BY <1>1, <2>1 DEF QueueInv, Queue!reactActionQueueSafe
  <2>3. state' \in QueueState
    BY <1>2, <2>2, Zenon DEF QueueInv, QueueState, Queue!EnqueueAction
  <2>4. /\ state'.settled <= state'.started /\ state'.started <= state'.enqueued
        /\ state'.enqueued <= MaxQueuedActions
        /\ state'.active = state'.started - state'.settled /\ state'.active \in 0 .. 1
        /\ state'.cancelled = 1 => state'.settled > 0
    BY <1>1, <2>1 DEF QueueInv, Queue!reactActionQueueSafe
  <2>5. /\ state'.pending \in 0 .. 1 /\ state'.cancelled \in 0 .. 1
        /\ state'.pending = 1 <=> state'.enqueued > state'.settled /\ state'.cancelled = 0
    BY <1>1, <2>1 DEF QueueInv, Queue!reactActionQueueSafe
  <2>6. /\ state'.cancelled = state'.failed
        /\ state'.cancelled = 1 => state'.active = 0 /\ state'.pending = 0
    BY <1>1, <2>1 DEF QueueInv, Queue!reactActionQueueSafe
  <2>7. QED
    BY <2>3, <2>4, <2>5, <2>6 DEF QueueInv, Queue!reactActionQueueSafe
<1>3. CASE Queue!StartNextAction
  <2>1. /\ state.cancelled = 0 /\ state.active = 0 /\ state.started < state.enqueued
        /\ state'.enqueued = state.enqueued /\ state'.started = state.started + 1
        /\ state'.settled = state.settled /\ state'.active = 1
        /\ state'.pending = state.pending /\ state'.failed = state.failed
        /\ state'.cancelled = state.cancelled
    BY <1>3 DEF QueueInv, QueueState, Queue!StartNextAction
  <2>2. /\ state.started + 1 \in Nat /\ 1 \in Nat
    BY <1>1, <2>1 DEF QueueInv, Queue!reactActionQueueSafe
  <2>3. state' \in QueueState
    BY <1>3, <2>2, Zenon DEF QueueInv, QueueState, Queue!StartNextAction
  <2>4. /\ state'.settled <= state'.started /\ state'.started <= state'.enqueued
        /\ state'.enqueued <= MaxQueuedActions
        /\ state'.active = state'.started - state'.settled /\ state'.active \in 0 .. 1
        /\ state'.cancelled = 1 => state'.settled > 0
    BY <1>1, <2>1 DEF QueueInv, Queue!reactActionQueueSafe
  <2>5. /\ state'.pending \in 0 .. 1 /\ state'.cancelled \in 0 .. 1
        /\ state'.pending = 1 <=> state'.enqueued > state'.settled /\ state'.cancelled = 0
    BY <1>1, <2>1 DEF QueueInv, Queue!reactActionQueueSafe
  <2>6. /\ state'.cancelled = state'.failed
        /\ state'.cancelled = 1 => state'.active = 0 /\ state'.pending = 0
    BY <1>1, <2>1 DEF QueueInv, Queue!reactActionQueueSafe
  <2>7. QED
    BY <2>3, <2>4, <2>5, <2>6 DEF QueueInv, Queue!reactActionQueueSafe
<1>4. CASE Queue!ResolveActiveAction
  <2>1. /\ state.cancelled = 0 /\ state.active = 1 /\ state'.enqueued = state.enqueued
        /\ state'.started = state.started /\ state'.settled = state.settled + 1
        /\ state'.active = 0
        /\ state'.pending = (IF state.settled + 1 < state.enqueued THEN 1 ELSE 0)
        /\ state'.failed = state.failed /\ state'.cancelled = state.cancelled
    BY <1>4 DEF QueueInv, QueueState, Queue!ResolveActiveAction
  <2>2. /\ state.settled + 1 \in Nat /\ 0 \in Nat
        /\ (IF state.settled + 1 < state.enqueued THEN 1 ELSE 0) \in Nat
    BY <1>1, <2>1 DEF QueueInv, Queue!reactActionQueueSafe
  <2>3. state' \in QueueState
    BY <1>4, <2>2, Zenon DEF QueueInv, QueueState, Queue!ResolveActiveAction
  <2>4. /\ state'.settled <= state'.started /\ state'.started <= state'.enqueued
        /\ state'.enqueued <= MaxQueuedActions
        /\ state'.active = state'.started - state'.settled /\ state'.active \in 0 .. 1
        /\ state'.cancelled = 1 => state'.settled > 0
    BY <1>1, <2>1 DEF QueueInv, Queue!reactActionQueueSafe
  <2>5. /\ state'.pending \in 0 .. 1 /\ state'.cancelled \in 0 .. 1
        /\ state'.pending = 1 <=> state'.enqueued > state'.settled /\ state'.cancelled = 0
    BY <1>1, <2>1 DEF QueueInv, Queue!reactActionQueueSafe
  <2>6. /\ state'.cancelled = state'.failed
        /\ state'.cancelled = 1 => state'.active = 0 /\ state'.pending = 0
    BY <1>1, <2>1 DEF QueueInv, Queue!reactActionQueueSafe
  <2>7. QED
    BY <2>3, <2>4, <2>5, <2>6 DEF QueueInv, Queue!reactActionQueueSafe
<1>5. CASE Queue!FailActiveAction
  <2>1. /\ state.cancelled = 0 /\ state.active = 1 /\ state'.enqueued = state.enqueued
        /\ state'.started = state.started /\ state'.settled = state.settled + 1
        /\ state'.active = 0 /\ state'.pending = 0 /\ state'.failed = 1
        /\ state'.cancelled = 1
    BY <1>5 DEF QueueInv, QueueState, Queue!FailActiveAction
  <2>2. /\ state.settled + 1 \in Nat /\ 0 \in Nat /\ 1 \in Nat
    BY <1>1, <2>1 DEF QueueInv, Queue!reactActionQueueSafe
  <2>3. state' \in QueueState
    BY <1>5, <2>2, Zenon DEF QueueInv, QueueState, Queue!FailActiveAction
  <2>4. /\ state'.settled <= state'.started /\ state'.started <= state'.enqueued
        /\ state'.enqueued <= MaxQueuedActions
        /\ state'.active = state'.started - state'.settled /\ state'.active \in 0 .. 1
        /\ state'.cancelled = 1 => state'.settled > 0
    BY <1>1, <2>1 DEF QueueInv, Queue!reactActionQueueSafe
  <2>5. /\ state'.pending \in 0 .. 1 /\ state'.cancelled \in 0 .. 1
        /\ state'.pending = 1 <=> state'.enqueued > state'.settled /\ state'.cancelled = 0
    BY <1>1, <2>1 DEF QueueInv, Queue!reactActionQueueSafe
  <2>6. /\ state'.cancelled = state'.failed
        /\ state'.cancelled = 1 => state'.active = 0 /\ state'.pending = 0
    BY <1>1, <2>1 DEF QueueInv, Queue!reactActionQueueSafe
  <2>7. QED
    BY <2>3, <2>4, <2>5, <2>6 DEF QueueInv, Queue!reactActionQueueSafe
<1>6. QED
  BY <1>2, <1>3, <1>4, <1>5 DEF Queue!HostStep

\* The dispatcher under an Error Boundary: after the failure exactly one Action has
\* started and not settled.
ErrorState ==
  [queued : Nat, started : Nat, settled : Nat, active : Nat, pending : Nat,
   cancelled : Nat, failure_stage : Nat, fallback_rendered : Nat,
   fallback_committed : Nat, primary_visible : Nat]

ErrorInv ==
  /\ state \in ErrorState
  /\ ErrorBoundary!reactActionErrorBoundarySafe
  /\ state.failure_stage >= 1 => state.started = state.settled + 1

LEMMA ErrorStays ==
  ASSUME ErrorInv, ErrorBoundary!HostStep \/ ErrorBoundary!EnqueueAction
  PROVE  ErrorInv'
<1>1. /\ state.queued \in Nat /\ state.started \in Nat /\ state.settled \in Nat
      /\ state.active \in Nat /\ state.pending \in Nat /\ state.cancelled \in Nat
      /\ state.failure_stage \in Nat /\ state.fallback_rendered \in Nat
      /\ state.fallback_committed \in Nat /\ state.primary_visible \in Nat
      /\ MaxQueuedActions \in Nat \ {0}
  BY BoundsAssumption DEF ErrorInv, ErrorState
<1>2. CASE ErrorBoundary!EnqueueAction
  <2>1. /\ state.failure_stage = 0 /\ state.queued < MaxQueuedActions
        /\ state'.queued = state.queued + 1 /\ state'.started = state.started
        /\ state'.settled = state.settled /\ state'.active = state.active
        /\ state'.pending = 1 /\ state'.cancelled = state.cancelled
        /\ state'.failure_stage = state.failure_stage
        /\ state'.fallback_rendered = state.fallback_rendered
        /\ state'.fallback_committed = state.fallback_committed
        /\ state'.primary_visible = state.primary_visible
    BY <1>2 DEF ErrorInv, ErrorState, ErrorBoundary!EnqueueAction
  <2>2. /\ state.queued + 1 \in Nat /\ 1 \in Nat
    BY <1>1, <2>1 DEF ErrorInv, ErrorBoundary!reactActionErrorBoundarySafe
  <2>3. state' \in ErrorState
    BY <1>2, <2>2, Zenon DEF ErrorInv, ErrorState, ErrorBoundary!EnqueueAction
  <2>4. QED
    BY <1>1, <2>1, <2>3 DEF ErrorInv, ErrorBoundary!reactActionErrorBoundarySafe
<1>3. CASE ErrorBoundary!StartNextAction
  <2>1. /\ state.failure_stage = 0 /\ state.active = 0 /\ state.started < state.queued
        /\ state'.queued = state.queued /\ state'.started = state.started + 1
        /\ state'.settled = state.settled /\ state'.active = 1
        /\ state'.pending = state.pending /\ state'.cancelled = state.cancelled
        /\ state'.failure_stage = state.failure_stage
        /\ state'.fallback_rendered = state.fallback_rendered
        /\ state'.fallback_committed = state.fallback_committed
        /\ state'.primary_visible = state.primary_visible
    BY <1>3 DEF ErrorInv, ErrorState, ErrorBoundary!StartNextAction
  <2>2. /\ state.started + 1 \in Nat /\ 1 \in Nat
    BY <1>1, <2>1 DEF ErrorInv, ErrorBoundary!reactActionErrorBoundarySafe
  <2>3. state' \in ErrorState
    BY <1>3, <2>2, Zenon DEF ErrorInv, ErrorState, ErrorBoundary!StartNextAction
  <2>4. QED
    BY <1>1, <2>1, <2>3 DEF ErrorInv, ErrorBoundary!reactActionErrorBoundarySafe
<1>4. CASE ErrorBoundary!ResolveAction
  <2>1. /\ state.failure_stage = 0 /\ state.active = 1 /\ state'.queued = state.queued
        /\ state'.started = state.started /\ state'.settled = state.settled + 1
        /\ state'.active = 0
        /\ state'.pending = (IF state.settled + 1 < state.queued THEN 1 ELSE 0)
        /\ state'.cancelled = state.cancelled /\ state'.failure_stage = state.failure_stage
        /\ state'.fallback_rendered = state.fallback_rendered
        /\ state'.fallback_committed = state.fallback_committed
        /\ state'.primary_visible = state.primary_visible
    BY <1>4 DEF ErrorInv, ErrorState, ErrorBoundary!ResolveAction
  <2>2. /\ state.settled + 1 \in Nat /\ 0 \in Nat
        /\ (IF state.settled + 1 < state.queued THEN 1 ELSE 0) \in Nat
    BY <1>1, <2>1 DEF ErrorInv, ErrorBoundary!reactActionErrorBoundarySafe
  <2>3. state' \in ErrorState
    BY <1>4, <2>2, Zenon DEF ErrorInv, ErrorState, ErrorBoundary!ResolveAction
  <2>4. QED
    BY <1>1, <2>1, <2>3 DEF ErrorInv, ErrorBoundary!reactActionErrorBoundarySafe
<1>5. CASE ErrorBoundary!FailActionAndCancelTail
  <2>1. /\ state.failure_stage = 0 /\ state.active = 1 /\ state'.queued = state.queued
        /\ state'.started = state.started /\ state'.settled = state.settled
        /\ state'.active = 0 /\ state'.pending = 0
        /\ state'.cancelled = state.queued - state.settled - 1 /\ state'.failure_stage = 1
        /\ state'.fallback_rendered = state.fallback_rendered
        /\ state'.fallback_committed = state.fallback_committed
        /\ state'.primary_visible = state.primary_visible
    BY <1>5 DEF ErrorInv, ErrorState, ErrorBoundary!FailActionAndCancelTail
  <2>2. /\ 0 \in Nat /\ state.queued - state.settled - 1 \in Nat /\ 1 \in Nat
    BY <1>1, <2>1 DEF ErrorInv, ErrorBoundary!reactActionErrorBoundarySafe
  <2>3. state' \in ErrorState
    BY <1>5, <2>2, Zenon DEF ErrorInv, ErrorState, ErrorBoundary!FailActionAndCancelTail
  <2>4. QED
    BY <1>1, <2>1, <2>3 DEF ErrorInv, ErrorBoundary!reactActionErrorBoundarySafe
<1>6. CASE ErrorBoundary!RethrowFromUseActionState
  <2>1. /\ state.failure_stage = 1 /\ state'.queued = state.queued
        /\ state'.started = state.started /\ state'.settled = state.settled
        /\ state'.active = state.active /\ state'.pending = state.pending
        /\ state'.cancelled = state.cancelled /\ state'.failure_stage = 2
        /\ state'.fallback_rendered = state.fallback_rendered
        /\ state'.fallback_committed = state.fallback_committed
        /\ state'.primary_visible = state.primary_visible
    BY <1>6 DEF ErrorInv, ErrorState, ErrorBoundary!RethrowFromUseActionState
  <2>2. /\ 2 \in Nat
    BY <1>1, <2>1 DEF ErrorInv, ErrorBoundary!reactActionErrorBoundarySafe
  <2>3. state' \in ErrorState
    BY <1>6, <2>2, Zenon DEF ErrorInv, ErrorState, ErrorBoundary!RethrowFromUseActionState
  <2>4. QED
    BY <1>1, <2>1, <2>3 DEF ErrorInv, ErrorBoundary!reactActionErrorBoundarySafe
<1>7. CASE ErrorBoundary!RenderErrorFallback
  <2>1. /\ state.failure_stage = 2 /\ state'.queued = state.queued
        /\ state'.started = state.started /\ state'.settled = state.settled
        /\ state'.active = state.active /\ state'.pending = state.pending
        /\ state'.cancelled = state.cancelled /\ state'.failure_stage = 3
        /\ state'.fallback_rendered = 1
        /\ state'.fallback_committed = state.fallback_committed
        /\ state'.primary_visible = state.primary_visible
    BY <1>7 DEF ErrorInv, ErrorState, ErrorBoundary!RenderErrorFallback
  <2>2. /\ 3 \in Nat /\ 1 \in Nat
    BY <1>1, <2>1 DEF ErrorInv, ErrorBoundary!reactActionErrorBoundarySafe
  <2>3. state' \in ErrorState
    BY <1>7, <2>2, Zenon DEF ErrorInv, ErrorState, ErrorBoundary!RenderErrorFallback
  <2>4. QED
    BY <1>1, <2>1, <2>3 DEF ErrorInv, ErrorBoundary!reactActionErrorBoundarySafe
<1>8. CASE ErrorBoundary!CommitErrorFallback
  <2>1. /\ state.failure_stage = 3 /\ state'.queued = state.queued
        /\ state'.started = state.started /\ state'.settled = state.settled
        /\ state'.active = state.active /\ state'.pending = state.pending
        /\ state'.cancelled = state.cancelled /\ state'.failure_stage = 4
        /\ state'.fallback_rendered = state.fallback_rendered
        /\ state'.fallback_committed = 1 /\ state'.primary_visible = 0
    BY <1>8 DEF ErrorInv, ErrorState, ErrorBoundary!CommitErrorFallback
  <2>2. /\ 4 \in Nat /\ 1 \in Nat /\ 0 \in Nat
    BY <1>1, <2>1 DEF ErrorInv, ErrorBoundary!reactActionErrorBoundarySafe
  <2>3. state' \in ErrorState
    BY <1>8, <2>2, Zenon DEF ErrorInv, ErrorState, ErrorBoundary!CommitErrorFallback
  <2>4. QED
    BY <1>1, <2>1, <2>3 DEF ErrorInv, ErrorBoundary!reactActionErrorBoundarySafe
<1>9. QED
  BY <1>2, <1>3, <1>4, <1>5, <1>6, <1>7, <1>8 DEF ErrorBoundary!HostStep

\* Transitions: a render has something to show.
TransitionState ==
  [started : Nat, settled : Nat, shown : Nat, renderAttempts : Nat, interrupted : Nat,
   commits : Nat, activeRender : Nat, pending : Nat]

TransitionInv ==
  /\ state \in TransitionState
  /\ Transition!reactTransitionSafe
  /\ state.activeRender = 1 => state.shown < state.settled

LEMMA TransitionStays ==
  ASSUME TransitionInv, Transition!HostStep \/ Transition!Request
  PROVE  TransitionInv'
<1>1. /\ state.started \in Nat /\ state.settled \in Nat /\ state.shown \in Nat
      /\ state.renderAttempts \in Nat /\ state.interrupted \in Nat /\ state.commits \in Nat
      /\ state.activeRender \in Nat /\ state.pending \in Nat /\ MaxActions \in Nat \ {0}
  BY BoundsAssumption DEF TransitionInv, TransitionState
<1>2. CASE Transition!StartAction
  <2>1. /\ state.started < MaxActions /\ state'.started = state.started + 1
        /\ state'.settled = state.settled /\ state'.shown = state.shown
        /\ state'.renderAttempts = state.renderAttempts
        /\ state'.interrupted = state.interrupted /\ state'.commits = state.commits
        /\ state'.activeRender = state.activeRender /\ state'.pending = 1
    BY <1>2 DEF TransitionInv, TransitionState, Transition!StartAction
  <2>2. /\ state.started + 1 \in Nat /\ 1 \in Nat
    BY <1>1, <2>1 DEF TransitionInv, Transition!reactTransitionSafe
  <2>3. state' \in TransitionState
    BY <1>2, <2>2, Zenon DEF TransitionInv, TransitionState, Transition!StartAction
  <2>4. QED
    BY <1>1, <2>1, <2>3 DEF TransitionInv, Transition!reactTransitionSafe
<1>3. CASE Transition!SettleAction
  <2>1. /\ state.settled < state.started /\ state'.started = state.started
        /\ state'.settled = state.settled + 1 /\ state'.shown = state.shown
        /\ state'.renderAttempts = state.renderAttempts
        /\ state'.interrupted = state.interrupted /\ state'.commits = state.commits
        /\ state'.activeRender = state.activeRender /\ state'.pending = state.pending
    BY <1>3 DEF TransitionInv, TransitionState, Transition!SettleAction
  <2>2. /\ state.settled + 1 \in Nat
    BY <1>1, <2>1 DEF TransitionInv, Transition!reactTransitionSafe
  <2>3. state' \in TransitionState
    BY <1>3, <2>2, Zenon DEF TransitionInv, TransitionState, Transition!SettleAction
  <2>4. QED
    BY <1>1, <2>1, <2>3 DEF TransitionInv, Transition!reactTransitionSafe
<1>4. CASE Transition!BeginRender
  <2>1. /\ state.activeRender = 0 /\ state.shown < state.settled
        /\ state'.started = state.started /\ state'.settled = state.settled
        /\ state'.shown = state.shown /\ state'.renderAttempts = state.renderAttempts + 1
        /\ state'.interrupted = state.interrupted /\ state'.commits = state.commits
        /\ state'.activeRender = 1 /\ state'.pending = state.pending
    BY <1>4 DEF TransitionInv, TransitionState, Transition!BeginRender
  <2>2. /\ state.renderAttempts + 1 \in Nat /\ 1 \in Nat
    BY <1>1, <2>1 DEF TransitionInv, Transition!reactTransitionSafe
  <2>3. state' \in TransitionState
    BY <1>4, <2>2, Zenon DEF TransitionInv, TransitionState, Transition!BeginRender
  <2>4. QED
    BY <1>1, <2>1, <2>3 DEF TransitionInv, Transition!reactTransitionSafe
<1>5. CASE Transition!InterruptRender
  <2>1. /\ state.activeRender = 1 /\ state.interrupted < MaxInterruptions
        /\ state'.started = state.started /\ state'.settled = state.settled
        /\ state'.shown = state.shown /\ state'.renderAttempts = state.renderAttempts
        /\ state'.interrupted = state.interrupted + 1 /\ state'.commits = state.commits
        /\ state'.activeRender = 0 /\ state'.pending = state.pending
    BY <1>5 DEF TransitionInv, TransitionState, Transition!InterruptRender
  <2>2. /\ state.interrupted + 1 \in Nat /\ 0 \in Nat
    BY <1>1, <2>1 DEF TransitionInv, Transition!reactTransitionSafe
  <2>3. state' \in TransitionState
    BY <1>5, <2>2, Zenon DEF TransitionInv, TransitionState, Transition!InterruptRender
  <2>4. QED
    BY <1>1, <2>1, <2>3 DEF TransitionInv, Transition!reactTransitionSafe
<1>6. CASE Transition!CommitRender
  <2>1. /\ state.activeRender = 1 /\ state.settled = state.started
        /\ state'.started = state.started /\ state'.settled = state.settled
        /\ state'.shown = state.settled /\ state'.renderAttempts = state.renderAttempts
        /\ state'.interrupted = state.interrupted /\ state'.commits = state.commits + 1
        /\ state'.activeRender = 0 /\ state'.pending = 0
    BY <1>6 DEF TransitionInv, TransitionState, Transition!CommitRender
  <2>2. /\ state.settled \in Nat /\ state.commits + 1 \in Nat /\ 0 \in Nat
    BY <1>1, <2>1 DEF TransitionInv, Transition!reactTransitionSafe
  <2>3. state' \in TransitionState
    BY <1>6, <2>2, Zenon DEF TransitionInv, TransitionState, Transition!CommitRender
  <2>4. QED
    BY <1>1, <2>1, <2>3 DEF TransitionInv, Transition!reactTransitionSafe
<1>7. QED
  BY <1>2, <1>3, <1>4, <1>5, <1>6 DEF Transition!HostStep, Transition!Request

\* Transitions of a revealed boundary: its content stays on the screen, and nothing is
\* rendered before the Transition starts.
RetryState ==
  [transition_started : Nat, pending : Nat, render_attempts : Nat, active_render : Nat,
   suspended_attempts : Nat, interrupted_attempts : Nat, suspended : Nat, resolved : Nat,
   committed : Nat, content_visible : Nat, fallback_visible : Nat]

RetryInv ==
  /\ state \in RetryState
  /\ TransitionSuspense!reactTransitionSuspenseSafe
  /\ state.transition_started \in 0 .. 1
  /\ state.active_render = 1 => state.committed = 0
  /\ state.render_attempts > 0 => state.transition_started = 1
  /\ state.content_visible = 1 /\ state.fallback_visible = 0

LEMMA RetryStays ==
  ASSUME RetryInv, TransitionSuspense!HostStep \/ TransitionSuspense!Request
  PROVE  RetryInv'
<1>1. /\ state.transition_started \in Nat /\ state.pending \in Nat
      /\ state.render_attempts \in Nat /\ state.active_render \in Nat
      /\ state.suspended_attempts \in Nat /\ state.interrupted_attempts \in Nat
      /\ state.suspended \in Nat /\ state.resolved \in Nat /\ state.committed \in Nat
      /\ state.content_visible \in Nat /\ state.fallback_visible \in Nat
      /\ MaxRenderAttempts \in Nat \ {0}
  BY BoundsAssumption DEF RetryInv, RetryState
<1>2. CASE TransitionSuspense!StartTransition
  <2>1. /\ state.transition_started = 0 /\ state'.transition_started = 1
        /\ state'.pending = 1 /\ state'.render_attempts = state.render_attempts
        /\ state'.active_render = state.active_render
        /\ state'.suspended_attempts = state.suspended_attempts
        /\ state'.interrupted_attempts = state.interrupted_attempts
        /\ state'.suspended = state.suspended /\ state'.resolved = state.resolved
        /\ state'.committed = state.committed
        /\ state'.content_visible = state.content_visible
        /\ state'.fallback_visible = state.fallback_visible
    BY <1>2 DEF RetryInv, RetryState, TransitionSuspense!StartTransition
  <2>2. /\ 1 \in Nat
    BY <1>1, <2>1 DEF RetryInv, TransitionSuspense!reactTransitionSuspenseSafe
  <2>3. state' \in RetryState
    BY <1>2, <2>2, Zenon DEF RetryInv, RetryState, TransitionSuspense!StartTransition
  <2>4. QED
    BY <1>1, <2>1, <2>3 DEF RetryInv, TransitionSuspense!reactTransitionSuspenseSafe
<1>3. CASE TransitionSuspense!BeginTransitionRender
  <2>1. /\ state.transition_started = 1 /\ state.committed = 0 /\ state.render_attempts = 0
        /\ state.active_render = 0 /\ state'.transition_started = state.transition_started
        /\ state'.pending = state.pending
        /\ state'.render_attempts = state.render_attempts + 1 /\ state'.active_render = 1
        /\ state'.suspended_attempts = state.suspended_attempts
        /\ state'.interrupted_attempts = state.interrupted_attempts
        /\ state'.suspended = state.suspended /\ state'.resolved = state.resolved
        /\ state'.committed = state.committed
        /\ state'.content_visible = state.content_visible
        /\ state'.fallback_visible = state.fallback_visible
    BY <1>3 DEF RetryInv, RetryState, TransitionSuspense!BeginTransitionRender
  <2>2. /\ state.render_attempts + 1 \in Nat /\ 1 \in Nat
    BY <1>1, <2>1 DEF RetryInv, TransitionSuspense!reactTransitionSuspenseSafe
  <2>3. state' \in RetryState
    BY <1>3, <2>2, Zenon DEF RetryInv, RetryState, TransitionSuspense!BeginTransitionRender
  <2>4. QED
    BY <1>1, <2>1, <2>3 DEF RetryInv, TransitionSuspense!reactTransitionSuspenseSafe
<1>4. CASE TransitionSuspense!SuspendTransitionRender
  <2>1. /\ state.active_render = 1 /\ state.suspended = 0
        /\ state'.transition_started = state.transition_started
        /\ state'.pending = state.pending /\ state'.render_attempts = state.render_attempts
        /\ state'.active_render = 0
        /\ state'.suspended_attempts = state.suspended_attempts + 1
        /\ state'.interrupted_attempts = state.interrupted_attempts /\ state'.suspended = 1
        /\ state'.resolved = state.resolved /\ state'.committed = state.committed
        /\ state'.content_visible = state.content_visible
        /\ state'.fallback_visible = state.fallback_visible
    BY <1>4 DEF RetryInv, RetryState, TransitionSuspense!SuspendTransitionRender
  <2>2. /\ 0 \in Nat /\ state.suspended_attempts + 1 \in Nat /\ 1 \in Nat
    BY <1>1, <2>1 DEF RetryInv, TransitionSuspense!reactTransitionSuspenseSafe
  <2>3. state' \in RetryState
    BY <1>4, <2>2, Zenon DEF RetryInv, RetryState, TransitionSuspense!SuspendTransitionRender
  <2>4. QED
    BY <1>1, <2>1, <2>3 DEF RetryInv, TransitionSuspense!reactTransitionSuspenseSafe
<1>5. CASE TransitionSuspense!ResolveSuspension
  <2>1. /\ state.suspended = 1 /\ state.resolved = 0
        /\ state'.transition_started = state.transition_started
        /\ state'.pending = state.pending /\ state'.render_attempts = state.render_attempts
        /\ state'.active_render = state.active_render
        /\ state'.suspended_attempts = state.suspended_attempts
        /\ state'.interrupted_attempts = state.interrupted_attempts
        /\ state'.suspended = state.suspended /\ state'.resolved = 1
        /\ state'.committed = state.committed
        /\ state'.content_visible = state.content_visible
        /\ state'.fallback_visible = state.fallback_visible
    BY <1>5 DEF RetryInv, RetryState, TransitionSuspense!ResolveSuspension
  <2>2. /\ 1 \in Nat
    BY <1>1, <2>1 DEF RetryInv, TransitionSuspense!reactTransitionSuspenseSafe
  <2>3. state' \in RetryState
    BY <1>5, <2>2, Zenon DEF RetryInv, RetryState, TransitionSuspense!ResolveSuspension
  <2>4. QED
    BY <1>1, <2>1, <2>3 DEF RetryInv, TransitionSuspense!reactTransitionSuspenseSafe
<1>6. CASE TransitionSuspense!RetryTransitionRender
  <2>1. /\ state.suspended = 1 /\ state.resolved = 1 /\ state.committed = 0
        /\ state.active_render = 0 /\ state.render_attempts < MaxRenderAttempts
        /\ state'.transition_started = state.transition_started
        /\ state'.pending = state.pending
        /\ state'.render_attempts = state.render_attempts + 1 /\ state'.active_render = 1
        /\ state'.suspended_attempts = state.suspended_attempts
        /\ state'.interrupted_attempts = state.interrupted_attempts
        /\ state'.suspended = state.suspended /\ state'.resolved = state.resolved
        /\ state'.committed = state.committed
        /\ state'.content_visible = state.content_visible
        /\ state'.fallback_visible = state.fallback_visible
    BY <1>6 DEF RetryInv, RetryState, TransitionSuspense!RetryTransitionRender
  <2>2. /\ state.render_attempts + 1 \in Nat /\ 1 \in Nat
    BY <1>1, <2>1 DEF RetryInv, TransitionSuspense!reactTransitionSuspenseSafe
  <2>3. state' \in RetryState
    BY <1>6, <2>2, Zenon DEF RetryInv, RetryState, TransitionSuspense!RetryTransitionRender
  <2>4. QED
    BY <1>1, <2>1, <2>3 DEF RetryInv, TransitionSuspense!reactTransitionSuspenseSafe
<1>7. CASE TransitionSuspense!InterruptTransitionRender
  <2>1. /\ state.active_render = 1 /\ state.render_attempts < MaxRenderAttempts
        /\ state'.transition_started = state.transition_started
        /\ state'.pending = state.pending /\ state'.render_attempts = state.render_attempts
        /\ state'.active_render = 0 /\ state'.suspended_attempts = state.suspended_attempts
        /\ state'.interrupted_attempts = state.interrupted_attempts + 1
        /\ state'.suspended = state.suspended /\ state'.resolved = state.resolved
        /\ state'.committed = state.committed
        /\ state'.content_visible = state.content_visible
        /\ state'.fallback_visible = state.fallback_visible
    BY <1>7 DEF RetryInv, RetryState, TransitionSuspense!InterruptTransitionRender
  <2>2. /\ 0 \in Nat /\ state.interrupted_attempts + 1 \in Nat
    BY <1>1, <2>1 DEF RetryInv, TransitionSuspense!reactTransitionSuspenseSafe
  <2>3. state' \in RetryState
    BY <1>7, <2>2, Zenon DEF RetryInv, RetryState, TransitionSuspense!InterruptTransitionRender
  <2>4. QED
    BY <1>1, <2>1, <2>3 DEF RetryInv, TransitionSuspense!reactTransitionSuspenseSafe
<1>8. CASE TransitionSuspense!RetryInterruptedRender
  <2>1. /\ state.transition_started = 1 /\ state.committed = 0 /\ state.active_render = 0
        /\ state.render_attempts = state.suspended_attempts + state.interrupted_attempts + state.committed
        /\ (state.suspended = 0 \/ state.resolved = 1)
        /\ state.render_attempts < MaxRenderAttempts
        /\ state'.transition_started = state.transition_started
        /\ state'.pending = state.pending
        /\ state'.render_attempts = state.render_attempts + 1 /\ state'.active_render = 1
        /\ state'.suspended_attempts = state.suspended_attempts
        /\ state'.interrupted_attempts = state.interrupted_attempts
        /\ state'.suspended = state.suspended /\ state'.resolved = state.resolved
        /\ state'.committed = state.committed
        /\ state'.content_visible = state.content_visible
        /\ state'.fallback_visible = state.fallback_visible
    BY <1>8 DEF RetryInv, RetryState, TransitionSuspense!RetryInterruptedRender
  <2>2. /\ state.render_attempts + 1 \in Nat /\ 1 \in Nat
    BY <1>1, <2>1 DEF RetryInv, TransitionSuspense!reactTransitionSuspenseSafe
  <2>3. state' \in RetryState
    BY <1>8, <2>2, Zenon DEF RetryInv, RetryState, TransitionSuspense!RetryInterruptedRender
  <2>4. QED
    BY <1>1, <2>1, <2>3 DEF RetryInv, TransitionSuspense!reactTransitionSuspenseSafe
<1>9. CASE TransitionSuspense!CommitTransitionContent
  <2>1. /\ state.active_render = 1 /\ state.committed = 0
        /\ (state.suspended = 0 \/ state.resolved = 1)
        /\ state'.transition_started = state.transition_started /\ state'.pending = 0
        /\ state'.render_attempts = state.render_attempts /\ state'.active_render = 0
        /\ state'.suspended_attempts = state.suspended_attempts
        /\ state'.interrupted_attempts = state.interrupted_attempts
        /\ state'.suspended = state.suspended /\ state'.resolved = state.resolved
        /\ state'.committed = 1 /\ state'.content_visible = state.content_visible
        /\ state'.fallback_visible = state.fallback_visible
    BY <1>9 DEF RetryInv, RetryState, TransitionSuspense!CommitTransitionContent
  <2>2. /\ 0 \in Nat /\ 1 \in Nat
    BY <1>1, <2>1 DEF RetryInv, TransitionSuspense!reactTransitionSuspenseSafe
  <2>3. state' \in RetryState
    BY <1>9, <2>2, Zenon DEF RetryInv, RetryState, TransitionSuspense!CommitTransitionContent
  <2>4. QED
    BY <1>1, <2>1, <2>3 DEF RetryInv, TransitionSuspense!reactTransitionSuspenseSafe
<1>10. QED
  BY <1>2, <1>3, <1>4, <1>5, <1>6, <1>7, <1>8, <1>9 DEF TransitionSuspense!HostStep, TransitionSuspense!Request

\* Updates that may show the fallback.
FallbackState ==
  [update_started : Nat, pending : Nat, render_attempts : Nat, active_render : Nat,
   suspended : Nat, resolved : Nat, fallback_committed : Nat, committed : Nat,
   content_visible : Nat, fallback_visible : Nat]

FallbackInv ==
  /\ state \in FallbackState
  /\ Fallback!reactSuspenseFallbackSafe
  /\ state.active_render = 1 => state.committed = 0
  /\ state.suspended \in 0 .. 1 /\ state.committed \in 0 .. 1
  /\ state.update_started \in 0 .. 1
  /\ state.render_attempts > 0 => state.update_started = 1
  /\ state.resolved \in 0 .. 1

LEMMA FallbackStays ==
  ASSUME FallbackInv, Fallback!HostStep \/ Fallback!Request
  PROVE  FallbackInv'
<1>1. /\ state.update_started \in Nat /\ state.pending \in Nat
      /\ state.render_attempts \in Nat /\ state.active_render \in Nat
      /\ state.suspended \in Nat /\ state.resolved \in Nat
      /\ state.fallback_committed \in Nat /\ state.committed \in Nat
      /\ state.content_visible \in Nat /\ state.fallback_visible \in Nat
  BY DEF FallbackInv, FallbackState
<1>2. CASE Fallback!StartUpdate
  <2>1. /\ state.update_started = 0 /\ state'.update_started = 1 /\ state'.pending = 1
        /\ state'.render_attempts = state.render_attempts
        /\ state'.active_render = state.active_render /\ state'.suspended = state.suspended
        /\ state'.resolved = state.resolved
        /\ state'.fallback_committed = state.fallback_committed
        /\ state'.committed = state.committed
        /\ state'.content_visible = state.content_visible
        /\ state'.fallback_visible = state.fallback_visible
    BY <1>2 DEF FallbackInv, FallbackState, Fallback!StartUpdate
  <2>2. /\ 1 \in Nat
    BY <1>1, <2>1 DEF FallbackInv, Fallback!reactSuspenseFallbackSafe
  <2>3. state' \in FallbackState
    BY <1>2, <2>2, Zenon DEF FallbackInv, FallbackState, Fallback!StartUpdate
  <2>4. QED
    BY <1>1, <2>1, <2>3 DEF FallbackInv, Fallback!reactSuspenseFallbackSafe
<1>3. CASE Fallback!BeginRender
  <2>1. /\ state.update_started = 1 /\ state.render_attempts = 0 /\ state.active_render = 0
        /\ state'.update_started = state.update_started /\ state'.pending = state.pending
        /\ state'.render_attempts = 1 /\ state'.active_render = 1
        /\ state'.suspended = state.suspended /\ state'.resolved = state.resolved
        /\ state'.fallback_committed = state.fallback_committed
        /\ state'.committed = state.committed
        /\ state'.content_visible = state.content_visible
        /\ state'.fallback_visible = state.fallback_visible
    BY <1>3 DEF FallbackInv, FallbackState, Fallback!BeginRender
  <2>2. /\ 1 \in Nat
    BY <1>1, <2>1 DEF FallbackInv, Fallback!reactSuspenseFallbackSafe
  <2>3. state' \in FallbackState
    BY <1>3, <2>2, Zenon DEF FallbackInv, FallbackState, Fallback!BeginRender
  <2>4. QED
    BY <1>1, <2>1, <2>3 DEF FallbackInv, Fallback!reactSuspenseFallbackSafe
<1>4. CASE Fallback!SuspendRender
  <2>1. /\ state.active_render = 1 /\ state.suspended = 0
        /\ state'.update_started = state.update_started /\ state'.pending = state.pending
        /\ state'.render_attempts = state.render_attempts /\ state'.active_render = 0
        /\ state'.suspended = 1 /\ state'.resolved = state.resolved
        /\ state'.fallback_committed = state.fallback_committed
        /\ state'.committed = state.committed
        /\ state'.content_visible = state.content_visible
        /\ state'.fallback_visible = state.fallback_visible
    BY <1>4 DEF FallbackInv, FallbackState, Fallback!SuspendRender
  <2>2. /\ 0 \in Nat /\ 1 \in Nat
    BY <1>1, <2>1 DEF FallbackInv, Fallback!reactSuspenseFallbackSafe
  <2>3. state' \in FallbackState
    BY <1>4, <2>2, Zenon DEF FallbackInv, FallbackState, Fallback!SuspendRender
  <2>4. QED
    BY <1>1, <2>1, <2>3 DEF FallbackInv, Fallback!reactSuspenseFallbackSafe
<1>5. CASE Fallback!CommitFallbackAfterSuspension
  <2>1. /\ state.suspended = 1 /\ state.resolved = 0 /\ state.fallback_committed = 0
        /\ state.committed = 0 /\ state'.update_started = state.update_started
        /\ state'.pending = state.pending /\ state'.render_attempts = state.render_attempts
        /\ state'.active_render = state.active_render /\ state'.suspended = state.suspended
        /\ state'.resolved = state.resolved /\ state'.fallback_committed = 1
        /\ state'.committed = state.committed /\ state'.content_visible = 0
        /\ state'.fallback_visible = 1
    BY <1>5 DEF FallbackInv, FallbackState, Fallback!CommitFallbackAfterSuspension
  <2>2. /\ 1 \in Nat /\ 0 \in Nat
    BY <1>1, <2>1 DEF FallbackInv, Fallback!reactSuspenseFallbackSafe
  <2>3. state' \in FallbackState
    BY <1>5, <2>2, Zenon DEF FallbackInv, FallbackState, Fallback!CommitFallbackAfterSuspension
  <2>4. QED
    BY <1>1, <2>1, <2>3 DEF FallbackInv, Fallback!reactSuspenseFallbackSafe
<1>6. CASE Fallback!ResolveSuspension
  <2>1. /\ state.suspended = 1 /\ state.resolved = 0
        /\ state'.update_started = state.update_started /\ state'.pending = state.pending
        /\ state'.render_attempts = state.render_attempts
        /\ state'.active_render = state.active_render /\ state'.suspended = state.suspended
        /\ state'.resolved = 1 /\ state'.fallback_committed = state.fallback_committed
        /\ state'.committed = state.committed
        /\ state'.content_visible = state.content_visible
        /\ state'.fallback_visible = state.fallback_visible
    BY <1>6 DEF FallbackInv, FallbackState, Fallback!ResolveSuspension
  <2>2. /\ 1 \in Nat
    BY <1>1, <2>1 DEF FallbackInv, Fallback!reactSuspenseFallbackSafe
  <2>3. state' \in FallbackState
    BY <1>6, <2>2, Zenon DEF FallbackInv, FallbackState, Fallback!ResolveSuspension
  <2>4. QED
    BY <1>1, <2>1, <2>3 DEF FallbackInv, Fallback!reactSuspenseFallbackSafe
<1>7. CASE Fallback!RetryRender
  <2>1. /\ state.suspended = 1 /\ state.resolved = 1 /\ state.render_attempts = 1
        /\ state.active_render = 0 /\ state'.update_started = state.update_started
        /\ state'.pending = state.pending /\ state'.render_attempts = 2
        /\ state'.active_render = 1 /\ state'.suspended = state.suspended
        /\ state'.resolved = state.resolved
        /\ state'.fallback_committed = state.fallback_committed
        /\ state'.committed = state.committed
        /\ state'.content_visible = state.content_visible
        /\ state'.fallback_visible = state.fallback_visible
    BY <1>7 DEF FallbackInv, FallbackState, Fallback!RetryRender
  <2>2. /\ 2 \in Nat /\ 1 \in Nat
    BY <1>1, <2>1 DEF FallbackInv, Fallback!reactSuspenseFallbackSafe
  <2>3. state' \in FallbackState
    BY <1>7, <2>2, Zenon DEF FallbackInv, FallbackState, Fallback!RetryRender
  <2>4. QED
    BY <1>1, <2>1, <2>3 DEF FallbackInv, Fallback!reactSuspenseFallbackSafe
<1>8. CASE Fallback!CommitContent
  <2>1. /\ state.active_render = 1 /\ state.committed = 0
        /\ (state.suspended = 0 \/ state.resolved = 1)
        /\ state'.update_started = state.update_started /\ state'.pending = 0
        /\ state'.render_attempts = state.render_attempts /\ state'.active_render = 0
        /\ state'.suspended = state.suspended /\ state'.resolved = state.resolved
        /\ state'.fallback_committed = state.fallback_committed /\ state'.committed = 1
        /\ state'.content_visible = 1 /\ state'.fallback_visible = 0
    BY <1>8 DEF FallbackInv, FallbackState, Fallback!CommitContent
  <2>2. /\ 0 \in Nat /\ 1 \in Nat
    BY <1>1, <2>1 DEF FallbackInv, Fallback!reactSuspenseFallbackSafe
  <2>3. state' \in FallbackState
    BY <1>8, <2>2, Zenon DEF FallbackInv, FallbackState, Fallback!CommitContent
  <2>4. QED
    BY <1>1, <2>1, <2>3 DEF FallbackInv, Fallback!reactSuspenseFallbackSafe
<1>9. QED
  BY <1>2, <1>3, <1>4, <1>5, <1>6, <1>7, <1>8 DEF Fallback!HostStep, Fallback!Request

-----------------------------------------------------------------------------
\* The boundary with effects. 

BoundaryState ==
  [primary_suspended : 0 .. 1, primary_suspension_resolved : 0 .. 1, fallback_committed : 0 .. 1,
   primary_committed : 0 .. 1, fallback_setup : SUBSET Boundary!Fallback,
   fallback_cleanup : SUBSET Boundary!Fallback,
   primary_setup : SUBSET Boundary!Primary]

BoundaryInv ==
  /\ state \in BoundaryState
  /\ Boundary!suspenseBoundarySafe

LEMMA BoundaryStarts ==
  ASSUME Boundary!Init
  PROVE  BoundaryInv
BY DEF BoundaryInv, BoundaryState, Boundary!Init, Boundary!suspenseBoundarySafe

LEMMA BoundaryStays ==
  ASSUME BoundaryInv, Boundary!Next
  PROVE  BoundaryInv'
<1>1. /\ component' = component
      /\ Boundary!Fallback' = Boundary!Fallback
      /\ Boundary!Primary' = Boundary!Primary
      /\ \A i : Boundary!Matching(i)' = Boundary!Matching(i)
  BY DEF Boundary!Next, Boundary!Fallback, Boundary!Primary,
         Boundary!Matching
<1> USE DEF BoundaryInv, BoundaryState, Boundary!suspenseBoundarySafe
<1>2. CASE Boundary!SuspendPrimary
  BY <1>1, <1>2 DEF Boundary!SuspendPrimary
<1>3. CASE Boundary!CommitFallback
  BY <1>1, <1>3 DEF Boundary!CommitFallback
<1>4. CASE Boundary!ResolvePrimarySuspension
  BY <1>1, <1>4 DEF Boundary!ResolvePrimarySuspension
<1>5. CASE Boundary!RevealPrimary
  BY <1>1, <1>5 DEF Boundary!RevealPrimary
<1>6. ASSUME NEW i \in Boundary!Fallback, Boundary!SetupFallback(i)
      PROVE  BoundaryInv'
  BY <1>1, <1>6 DEF Boundary!SetupFallback
<1>7. ASSUME NEW i \in Boundary!Fallback, Boundary!CleanupFallback(i)
      PROVE  BoundaryInv'
  BY <1>1, <1>7 DEF Boundary!CleanupFallback
<1>8. ASSUME NEW i \in Boundary!Primary, Boundary!SetupPrimary(i)
      PROVE  BoundaryInv'
  BY <1>1, <1>8 DEF Boundary!SetupPrimary
<1>9. QED
  BY <1>2, <1>3, <1>4, <1>5, <1>6, <1>7, <1>8 DEF Boundary!Next, Boundary!Step

-----------------------------------------------------------------------------
\* Trees of boundaries.

TreeState ==
  [suspension_leaf : Nat, suspension_owner : Nat, fallback_owner : Nat,
   suspension_resolved : 0 .. 1, leaf_committed : 0 .. 1]

TreeInv ==
  /\ component \in Tree /\ SuspenseTree!Accepted(component)
  /\ state \in TreeState
  /\ SuspenseTree!suspenseTreeSafe
  /\ state.suspension_leaf = 0 <=> state.suspension_owner = 0
  /\ state.suspension_leaf = 0 => state.suspension_resolved = 0

LEMMA TreeStarts ==
  ASSUME SuspenseTree!LeavesHaveOwners, SuspenseTree!Init
  PROVE  TreeInv
<1>1. /\ component \in Tree /\ SuspenseTree!Accepted(component)
      /\ Len(SuspenseTree!Leaves) \in Nat /\ Len(SuspenseTree!Boundaries) \in Nat
  BY DEF SuspenseTree!LeavesHaveOwners, SuspenseTree!Init, SuspenseTree!Leaves,
         SuspenseTree!Boundaries
<1>2. QED
  BY <1>1 DEF TreeInv, TreeState, SuspenseTree!Init, SuspenseTree!suspenseTreeSafe

LEMMA TreeStays ==
  ASSUME SuspenseTree!LeavesHaveOwners, TreeInv, SuspenseTree!Next
  PROVE  TreeInv'
<1> DEFINE leaves == Len(SuspenseTree!Leaves)
           boundaries == Len(SuspenseTree!Boundaries)
<1>1. /\ component' = component
      /\ SuspenseTree!Accepted(component)' = SuspenseTree!Accepted(component)
      /\ leaves' = leaves /\ boundaries' = boundaries
  BY DEF SuspenseTree!Next, SuspenseTree!Leaves, SuspenseTree!Boundaries
<1>2. /\ leaves \in Nat /\ DOMAIN SuspenseTree!Leaves = 1 .. leaves
      /\ boundaries \in Nat /\ DOMAIN SuspenseTree!Boundaries = 1 .. boundaries
      /\ \A i \in 1 .. leaves : SuspenseTree!Leaves[i].owner \in 1 .. boundaries
  <2> DEFINE nodes == UNION {SuspenseTree!Range(component.nodes[b]) : b \in DOMAIN component.nodes}
             leaf == [node : nodes, owner : 1 .. boundaries]
  <2>1. /\ SuspenseTree!Boundaries \in Seq(DOMAIN component.nodes)
        /\ SuspenseTree!Leaves \in Seq(leaf)
    BY DEF SuspenseTree!LeavesHaveOwners, TreeInv, SuspenseTree!Leaves,
           SuspenseTree!Boundaries
  <2>2. \A x \in leaf : x.owner \in 1 .. boundaries
    OBVIOUS
  <2> HIDE DEF leaf
  <2>3. QED
    BY <2>1, <2>2
<1>3. /\ state.suspension_leaf \in Nat /\ state.suspension_owner \in Nat
      /\ state.fallback_owner \in Nat /\ state.suspension_resolved \in 0 .. 1
      /\ state.leaf_committed \in 0 .. 1
  BY DEF TreeInv, TreeState
<1>4. /\ state.suspension_leaf <= leaves /\ state.suspension_owner <= boundaries
      /\ state.fallback_owner <= boundaries
  BY DEF TreeInv, SuspenseTree!suspenseTreeSafe
<1> HIDE DEF leaves, boundaries
<1>5. ASSUME NEW i \in 1 .. leaves, SuspenseTree!SuspendLeaf(i)
      PROVE  TreeInv'
  <2> DEFINE owner == SuspenseTree!Leaves[i].owner
  <2>1. owner \in 1 .. boundaries
    BY <1>2
  <2>2. /\ state.suspension_leaf = 0
        /\ state' = [state EXCEPT !.suspension_leaf = i, !.suspension_owner = owner]
    BY <1>5 DEF SuspenseTree!SuspendLeaf
  <2> HIDE DEF owner
  <2>3. /\ state'.suspension_leaf = i /\ state'.suspension_owner = owner
        /\ state'.fallback_owner = state.fallback_owner
        /\ state'.suspension_resolved = state.suspension_resolved
        /\ state'.leaf_committed = state.leaf_committed
    BY <2>2 DEF TreeInv, TreeState
  <2>4. owner \in Nat /\ i \in Nat
    BY <1>2, <2>1
  <2>5. state' \in TreeState
    BY <2>2, <2>4, Zenon DEF TreeInv, TreeState
  <2>6. SuspenseTree!suspenseTreeSafe'
    BY <1>1, <1>2, <1>3, <1>4, <2>1, <2>2, <2>3
       DEF TreeInv, SuspenseTree!suspenseTreeSafe, leaves, boundaries
  <2>7. QED
    BY <1>1, <1>2, <2>1, <2>3, <2>5, <2>6 DEF TreeInv
<1>6. ASSUME NEW b \in 1 .. boundaries, SuspenseTree!CommitFallback(b)
      PROVE  TreeInv'
  <2>1. /\ state.suspension_owner = b /\ state.fallback_owner = 0
        /\ state'.suspension_leaf = state.suspension_leaf
        /\ state'.suspension_owner = state.suspension_owner
        /\ state'.fallback_owner = b
        /\ state'.suspension_resolved = state.suspension_resolved
        /\ state'.leaf_committed = state.leaf_committed
    BY <1>6 DEF TreeInv, TreeState, SuspenseTree!CommitFallback
  <2>2. b \in Nat
    BY <1>2
  <2>3. state' \in TreeState
    BY <1>6, <2>2, Zenon DEF TreeInv, TreeState, SuspenseTree!CommitFallback
  <2>4. SuspenseTree!suspenseTreeSafe'
    BY <1>1, <1>3, <1>4, <2>1
       DEF TreeInv, SuspenseTree!suspenseTreeSafe, leaves, boundaries
  <2>5. QED
    BY <1>1, <2>1, <2>3, <2>4 DEF TreeInv
<1>7. CASE SuspenseTree!ResolveSuspension
  <2>1. /\ state.suspension_leaf > 0
        /\ state' = [state EXCEPT !.suspension_resolved = 1]
        /\ state'.suspension_leaf = state.suspension_leaf
        /\ state'.suspension_owner = state.suspension_owner
        /\ state'.fallback_owner = state.fallback_owner
        /\ state'.suspension_resolved = 1
        /\ state'.leaf_committed = state.leaf_committed
    BY <1>7 DEF TreeInv, TreeState, SuspenseTree!ResolveSuspension
  <2>2. state' \in TreeState
    BY <2>1 DEF TreeInv, TreeState
  <2>3. SuspenseTree!suspenseTreeSafe'
    BY <1>1, <1>3, <1>4, <2>1
       DEF TreeInv, SuspenseTree!suspenseTreeSafe, leaves, boundaries
  <2>4. QED
    BY <1>1, <1>3, <2>1, <2>2, <2>3 DEF TreeInv
<1>8. CASE SuspenseTree!RevealLeaf
  <2>1. /\ state.suspension_resolved = 1 /\ state.fallback_owner = state.suspension_owner
        /\ state' = [state EXCEPT !.leaf_committed = 1]
        /\ state'.suspension_leaf = state.suspension_leaf
        /\ state'.suspension_owner = state.suspension_owner
        /\ state'.fallback_owner = state.fallback_owner
        /\ state'.suspension_resolved = state.suspension_resolved
        /\ state'.leaf_committed = 1
    BY <1>8 DEF TreeInv, TreeState, SuspenseTree!RevealLeaf
  <2>2. state' \in TreeState
    BY <2>1 DEF TreeInv, TreeState
  <2>3. SuspenseTree!suspenseTreeSafe'
    BY <1>1, <1>3, <1>4, <2>1
       DEF TreeInv, SuspenseTree!suspenseTreeSafe, leaves, boundaries
  <2>4. QED
    BY <1>1, <2>1, <2>2, <2>3 DEF TreeInv
<1>9. QED
  BY <1>2, <1>5, <1>6, <1>7, <1>8
     DEF SuspenseTree!Next, SuspenseTree!Step, leaves, boundaries

\* A chain of boundaries: only the nearest ever shows its fallback.
NestedState ==
  [leaf_suspended : 0 .. 1, leaf_suspension_resolved : 0 .. 1, leaf_committed : 0 .. 1,
   fallback_committed : SUBSET {Len(Nested!Chain)},
   fallback_cleaned : SUBSET {Len(Nested!Chain)}]

NestedInv ==
  /\ state \in NestedState
  /\ Nested!nestedSuspenseSafe

LEMMA NestedStarts ==
  ASSUME Nested!Init
  PROVE  NestedInv
BY DEF NestedInv, NestedState, Nested!Init, Nested!nestedSuspenseSafe

LEMMA NestedStays ==
  ASSUME NestedInv, Nested!Next
  PROVE  NestedInv'
<1>1. Len(Nested!Chain)' = Len(Nested!Chain)
  BY DEF Nested!Next, Nested!Chain
<1> USE DEF NestedInv, NestedState, Nested!nestedSuspenseSafe, Nested!Nearest
<1>2. CASE Nested!SuspendLeafPrimary
  BY <1>1, <1>2 DEF Nested!SuspendLeafPrimary
<1>3. CASE Nested!CommitFallback
  BY <1>1, <1>3 DEF Nested!CommitFallback
<1>4. CASE Nested!ResolveLeafSuspension
  BY <1>1, <1>4 DEF Nested!ResolveLeafSuspension
<1>5. CASE Nested!RevealLeafPrimary
  <2>1. /\ state.leaf_suspension_resolved = 1
        /\ Len(Nested!Chain) \in state.fallback_committed
        /\ state' = [state EXCEPT !.leaf_committed = 1,
                                  !.fallback_cleaned = @ \cup {Len(Nested!Chain)}]
    BY <1>5 DEF Nested!RevealLeafPrimary
  <2>2. state' \in NestedState
    BY <1>1, <2>1
  <2>3. Nested!nestedSuspenseSafe'
    BY <1>1, <2>1
  <2>4. QED
    BY <2>2, <2>3
<1>6. QED
  BY <1>2, <1>3, <1>4, <1>5 DEF Nested!Next, Nested!Step

-----------------------------------------------------------------------------
\* The life of effects.

LifeFacts ==
  LET life == Lifecycle!Replay.life
      attempts == Lifecycle!Replay.attempts
  IN  /\ Len(attempts) \in Nat /\ DOMAIN attempts = 1 .. Len(attempts)
      /\ \A i \in DOMAIN attempts :
           attempts[i].commit \in Nat /\ attempts[i].suspension \in Nat
      /\ Len(life) \in {1, 3} /\ DOMAIN life = 1 .. Len(life)
      /\ life[1].transition = "setup"
      /\ Len(life) = 3 => life[2].transition = "cleanup" /\ life[3].transition = "setup"

Attempts ==
  [outcome : {"discarded", "committed", "suspended"}, commit : Nat, suspension : Nat, retryOf : Nat]

LEMMA LivesKnown ==
  ASSUME component.scenario \in DOMAIN Lifecycle!replayModel
  PROVE  LifeFacts
<1>1. Lifecycle!Discarded \in Attempts
  BY DEF Lifecycle!Discarded, Attempts
<1>2. \A n \in Nat : Lifecycle!Committed(n) \in Attempts
  BY DEF Lifecycle!Committed, Lifecycle!Discarded, Attempts
<1>3. \A n \in Nat : Lifecycle!Suspended(n) \in Attempts
  BY DEF Lifecycle!Suspended, Lifecycle!Discarded, Attempts
<1>4. \A n \in Nat, attempt \in Attempts : Lifecycle!RetryOf(n, attempt) \in Attempts
  BY DEF Lifecycle!RetryOf, Attempts
<1>5. \A attempt \in Attempts : attempt.commit \in Nat /\ attempt.suspension \in Nat
  BY DEF Attempts
<1> DEFINE first == Lifecycle!Committed(1)
           second == Lifecycle!Committed(2)
           waiting == Lifecycle!Suspended(1)
           again == Lifecycle!RetryOf(1, Lifecycle!Committed(1))
           waitingAgain == Lifecycle!RetryOf(1, Lifecycle!Suspended(2))
           last == Lifecycle!RetryOf(2, Lifecycle!Committed(1))
<1>6. {first, second, waiting, again, waitingAgain, last} \subseteq Attempts
  BY <1>2, <1>3, <1>4
<1>7. \A c : /\ Lifecycle!Setup(c).transition = "setup"
             /\ Lifecycle!Cleanup(c).transition = "cleanup"
  BY DEF Lifecycle!Setup, Lifecycle!Cleanup
<1> DEFINE attempts == Lifecycle!Replay.attempts
           life == Lifecycle!Replay.life
<1>8. CASE component.scenario = "production"
  <2>1. /\ attempts = <<first>>
        /\ life = <<Lifecycle!Setup(1)>>
    BY <1>8 DEF Lifecycle!Replay, Lifecycle!replayModel
  <2> HIDE DEF attempts, life, first, second, waiting, again, waitingAgain, last
  <2>2. /\ Len(attempts) = 1 /\ DOMAIN attempts = 1 .. 1
        /\ \A i \in DOMAIN attempts : attempts[i] \in Attempts
    BY <1>1, <1>6, <2>1
  <2>3. /\ Len(life) = 1 /\ DOMAIN life = 1 .. 1
        /\ life[1].transition = "setup"
    BY <1>7, <2>1
  <2>4. QED
    BY <1>5, <2>2, <2>3 DEF LifeFacts, attempts, life
<1>9. CASE component.scenario = "strictModeDevelopment"
  <2>1. /\ attempts = <<Lifecycle!Discarded, first>>
        /\ life = <<Lifecycle!Setup(1), Lifecycle!Cleanup(1), Lifecycle!Setup(1)>>
    BY <1>9 DEF Lifecycle!Replay, Lifecycle!replayModel
  <2> HIDE DEF attempts, life, first, second, waiting, again, waitingAgain, last
  <2>2. /\ Len(attempts) = 2 /\ DOMAIN attempts = 1 .. 2
        /\ \A i \in DOMAIN attempts : attempts[i] \in Attempts
    BY <1>1, <1>6, <2>1
  <2>3. /\ Len(life) = 3 /\ DOMAIN life = 1 .. 3
        /\ life[1].transition = "setup"
        /\ life[2].transition = "cleanup" /\ life[3].transition = "setup"
    BY <1>7, <2>1
  <2>4. QED
    BY <1>5, <2>2, <2>3 DEF LifeFacts, attempts, life
<1>10. CASE component.scenario = "concurrentInterruption"
  <2>1. /\ attempts = <<Lifecycle!Discarded, first>>
        /\ life = <<Lifecycle!Setup(1)>>
    BY <1>10 DEF Lifecycle!Replay, Lifecycle!replayModel
  <2> HIDE DEF attempts, life, first, second, waiting, again, waitingAgain, last
  <2>2. /\ Len(attempts) = 2 /\ DOMAIN attempts = 1 .. 2
        /\ \A i \in DOMAIN attempts : attempts[i] \in Attempts
    BY <1>1, <1>6, <2>1
  <2>3. /\ Len(life) = 1 /\ DOMAIN life = 1 .. 1
        /\ life[1].transition = "setup"
    BY <1>7, <2>1
  <2>4. QED
    BY <1>5, <2>2, <2>3 DEF LifeFacts, attempts, life
<1>11. CASE component.scenario = "dependencyChange"
  <2>1. /\ attempts = <<first, second>>
        /\ life = <<Lifecycle!Setup(1), Lifecycle!Cleanup(1), Lifecycle!Setup(2)>>
    BY <1>11 DEF Lifecycle!Replay, Lifecycle!replayModel
  <2> HIDE DEF attempts, life, first, second, waiting, again, waitingAgain, last
  <2>2. /\ Len(attempts) = 2 /\ DOMAIN attempts = 1 .. 2
        /\ \A i \in DOMAIN attempts : attempts[i] \in Attempts
    BY <1>1, <1>6, <2>1
  <2>3. /\ Len(life) = 3 /\ DOMAIN life = 1 .. 3
        /\ life[1].transition = "setup"
        /\ life[2].transition = "cleanup" /\ life[3].transition = "setup"
    BY <1>7, <2>1
  <2>4. QED
    BY <1>5, <2>2, <2>3 DEF LifeFacts, attempts, life
<1>12. CASE component.scenario = "suspenseRetry"
  <2>1. /\ attempts = <<waiting, again>>
        /\ life = <<Lifecycle!Setup(1)>>
    BY <1>12 DEF Lifecycle!Replay, Lifecycle!replayModel
  <2> HIDE DEF attempts, life, first, second, waiting, again, waitingAgain, last
  <2>2. /\ Len(attempts) = 2 /\ DOMAIN attempts = 1 .. 2
        /\ \A i \in DOMAIN attempts : attempts[i] \in Attempts
    BY <1>1, <1>6, <2>1
  <2>3. /\ Len(life) = 1 /\ DOMAIN life = 1 .. 1
        /\ life[1].transition = "setup"
    BY <1>7, <2>1
  <2>4. QED
    BY <1>5, <2>2, <2>3 DEF LifeFacts, attempts, life
<1>13. CASE component.scenario = "repeatedSuspenseRetry"
  <2>1. /\ attempts = <<waiting, waitingAgain, last>>
        /\ life = <<Lifecycle!Setup(1)>>
    BY <1>13 DEF Lifecycle!Replay, Lifecycle!replayModel
  <2> HIDE DEF attempts, life, first, second, waiting, again, waitingAgain, last
  <2>2. /\ Len(attempts) = 3 /\ DOMAIN attempts = 1 .. 3
        /\ \A i \in DOMAIN attempts : attempts[i] \in Attempts
    BY <1>1, <1>6, <2>1
  <2>3. /\ Len(life) = 1 /\ DOMAIN life = 1 .. 1
        /\ life[1].transition = "setup"
    BY <1>7, <2>1
  <2>4. QED
    BY <1>5, <2>2, <2>3 DEF LifeFacts, attempts, life
<1>14. QED
  BY <1>8, <1>9, <1>10, <1>11, <1>12, <1>13 DEF Lifecycle!replayModel

CountFacts ==
  /\ Lifecycle!Setups(0) = 0 /\ Lifecycle!Setups(1) = 1
  /\ Len(Lifecycle!Replay.life) = 3 =>
       Lifecycle!Setups(2) = 1 /\ Lifecycle!Setups(3) = 2

LEMMA CountsKnown ==
  ASSUME LifeFacts
  PROVE  CountFacts
<1> DEFINE life == Lifecycle!Replay.life
           Upto(k) == {i \in 1 .. k : life[i].transition = "setup"}
<1>1. Upto(0) = {} /\ Upto(1) = {1}
  BY DEF LifeFacts
<1>2. Cardinality({}) = 0 /\ Cardinality({1}) = 1
  BY FS_EmptySet, FS_Singleton
<1>3. ASSUME Len(life) = 3
      PROVE  Cardinality(Upto(2)) = 1 /\ Cardinality(Upto(3)) = 2
  <2>1. Upto(2) = {1} /\ Upto(3) = {1} \cup {3}
    BY <1>3 DEF LifeFacts
  <2>2. IsFiniteSet({1}) /\ 3 \notin {1}
    BY FS_Singleton
  <2>3. Cardinality({1} \cup {3}) = 2
    BY <1>2, <2>2, FS_AddElement
  <2>4. QED
    BY <1>2, <2>1, <2>3
<1>4. \A k : Lifecycle!Setups(k) = Cardinality(Upto(k))
  <2>1. ASSUME NEW k
        PROVE  Lifecycle!Setups(k) = Cardinality(Upto(k))
    BY Zenon DEF Lifecycle!Setups, Lifecycle!Cardinality, Cardinality
  <2>2. QED
    BY <2>1
<1> HIDE DEF life, Upto
<1>5. QED
  BY <1>1, <1>2, <1>3, <1>4 DEF CountFacts, life

LifecycleState ==
  [rendered : Nat, commits : SUBSET Nat, suspensions : SUBSET Nat, resolved : SUBSET Nat,
   setup : [DOMAIN component.effects -> Nat], cleanup : [DOMAIN component.effects -> Nat]]

\* An effect has come to step k of its life.
LivedTo(e, k) ==
  /\ state.setup[e] = Lifecycle!Setups(k)
  /\ state.cleanup[e] = Lifecycle!Cleanups(k)
  /\ \A j \in 1 .. k : Lifecycle!Replay.life[j].commit \in state.commits

LifecycleInv ==
  /\ component.scenario \in DOMAIN Lifecycle!replayModel
  /\ state \in LifecycleState
  /\ state.rendered <= Len(Lifecycle!Replay.attempts)
  /\ state.resolved \subseteq state.suspensions
  /\ \A i \in 1 .. state.rendered :
       Lifecycle!Replay.attempts[i].retryOf \in {0} \cup state.resolved
  /\ \A e \in DOMAIN component.effects :
       \E k \in 0 .. Len(Lifecycle!Replay.life) : LivedTo(e, k)

LEMMA LifecycleStarts ==
  ASSUME Lifecycle!ScenariosKnown, Lifecycle!Init
  PROVE  LifecycleInv
<1>1. component.scenario \in DOMAIN Lifecycle!replayModel
  BY DEF Lifecycle!ScenariosKnown, Lifecycle!Init
<1>2. LifeFacts /\ CountFacts
  BY <1>1, LivesKnown, CountsKnown
<1>3. state \in LifecycleState
  BY DEF LifecycleState, Lifecycle!Init
<1>4. ASSUME NEW e \in DOMAIN component.effects
      PROVE  LivedTo(e, 0)
  BY <1>2, <1>4 DEF CountFacts, LivedTo, Lifecycle!Init, Lifecycle!Cleanups
<1>5. 0 \in 0 .. Len(Lifecycle!Replay.life)
  BY <1>2 DEF LifeFacts
<1>6. /\ state.rendered = 0 /\ state.resolved = {}
      /\ 0 <= Len(Lifecycle!Replay.attempts)
  BY <1>2 DEF LifeFacts, Lifecycle!Init
<1>7. QED
  BY <1>1, <1>3, <1>4, <1>5, <1>6 DEF LifecycleInv

LEMMA LifecycleStays ==
  ASSUME LifecycleInv, Lifecycle!Next
  PROVE  LifecycleInv'
<1> DEFINE life == Lifecycle!Replay.life
           attempts == Lifecycle!Replay.attempts
<1>1. LifeFacts /\ CountFacts
  BY LivesKnown, CountsKnown DEF LifecycleInv
<1>2. /\ component' = component /\ life' = life /\ attempts' = attempts
      /\ LifecycleState' = LifecycleState
  BY DEF Lifecycle!Next, Lifecycle!Replay, LifecycleState
<1>3. \A k : Lifecycle!Setups(k)' = Lifecycle!Setups(k)
             /\ Lifecycle!Cleanups(k)' = Lifecycle!Cleanups(k)
  BY <1>2 DEF Lifecycle!Setups, Lifecycle!Cleanups
<1>4. DOMAIN Lifecycle!Effects = DOMAIN component.effects
  BY DEF Lifecycle!Effects, Lifecycle!Ordered
<1>5. /\ Len(attempts) \in Nat /\ Len(life) \in Nat
      /\ DOMAIN attempts = 1 .. Len(attempts) /\ DOMAIN life = 1 .. Len(life)
  BY <1>1 DEF LifeFacts
<1>6. state.rendered \in Nat
  BY DEF LifecycleInv, LifecycleState
<1> HIDE DEF life, attempts
<1>7. SUFFICES ASSUME Lifecycle!Step
               PROVE  /\ state' \in LifecycleState
                      /\ state'.rendered <= Len(attempts)
                      /\ state'.resolved \subseteq state'.suspensions
                      /\ \A i \in 1 .. state'.rendered :
                           attempts[i].retryOf \in {0} \cup state'.resolved
                      /\ \A e \in DOMAIN component.effects :
                           \E k \in 0 .. Len(life) : LivedTo(e, k)'
  BY <1>2 DEF LifecycleInv, Lifecycle!Next, life, attempts
<1>8. ASSUME NEW s \in state.suspensions, Lifecycle!ResolveSuspension(s)
      PROVE  /\ state' \in LifecycleState
             /\ state'.rendered = state.rendered /\ state'.suspensions = state.suspensions
             /\ state'.resolved = state.resolved \cup {s} /\ state'.commits = state.commits
             /\ state'.setup = state.setup /\ state'.cleanup = state.cleanup
  BY <1>8 DEF LifecycleInv, LifecycleState, Lifecycle!ResolveSuspension
<1>9. ASSUME NEW i \in DOMAIN attempts, Lifecycle!RenderAttempt(i)
      PROVE  /\ i = state.rendered + 1
             /\ attempts[i].retryOf # 0 => attempts[i].retryOf \in state.resolved
             /\ state' \in LifecycleState
             /\ state'.rendered = i /\ state.suspensions \subseteq state'.suspensions
             /\ state'.resolved = state.resolved /\ state.commits \subseteq state'.commits
             /\ state'.setup = state.setup /\ state'.cleanup = state.cleanup
  <2> DEFINE commits == state.commits \cup ({attempts[i].commit} \ {0})
             suspensions == state.suspensions \cup ({attempts[i].suspension} \ {0})
  <2>1. /\ state.rendered = i - 1
        /\ attempts[i].retryOf # 0 => attempts[i].retryOf \in state.resolved
        /\ state' = [state EXCEPT !.rendered = i, !.commits = commits, !.suspensions = suspensions]
    BY <1>9 DEF Lifecycle!RenderAttempt, attempts
  <2>2. /\ i \in Nat /\ attempts[i].commit \in Nat /\ attempts[i].suspension \in Nat
    BY <1>1, <1>5 DEF LifeFacts, attempts
  <2>3. commits \in SUBSET Nat /\ suspensions \in SUBSET Nat
    BY <2>2 DEF LifecycleInv, LifecycleState
  <2>4. state.commits \subseteq commits /\ state.suspensions \subseteq suspensions
    OBVIOUS
  <2> HIDE DEF commits, suspensions
  <2>5. i = state.rendered + 1
    BY <1>6, <2>1, <2>2
  <2>6. state' \in LifecycleState
    BY <2>1, <2>2, <2>3 DEF LifecycleInv, LifecycleState
  <2>7. QED
    BY <2>1, <2>4, <2>5, <2>6 DEF LifecycleInv, LifecycleState
<1>10. ASSUME NEW e \in DOMAIN component.effects, NEW k \in DOMAIN life,
              Lifecycle!LifecycleStep(e, k)
       PROVE  /\ life[k].commit \in state.commits
              /\ state.setup[e] = Lifecycle!Setups(k - 1)
              /\ state.cleanup[e] = Lifecycle!Cleanups(k - 1)
              /\ state' \in LifecycleState
              /\ state'.rendered = state.rendered /\ state'.suspensions = state.suspensions
              /\ state'.resolved = state.resolved /\ state'.commits = state.commits
              /\ state'.setup = [state.setup EXCEPT ![e] = Lifecycle!Setups(k)]
              /\ state'.cleanup = [state.cleanup EXCEPT ![e] = Lifecycle!Cleanups(k)]
  <2> DEFINE setups == Lifecycle!Setups(k)
             cleanups == Lifecycle!Cleanups(k)
  <2>1. setups \in Nat /\ cleanups \in Nat
    <3>1. k = 1 \/ (Len(life) = 3 /\ k \in {2, 3})
      <4>1. k \in 1 .. Len(life) /\ (Len(life) = 1 \/ Len(life) = 3)
        BY <1>1, <1>5 DEF LifeFacts, life
      <4> HIDE DEF life
      <4>2. QED
        BY <4>1, <1>5
    <3>2. k \in Nat /\ setups \in Nat /\ setups <= k
      BY <1>1, <3>1 DEF CountFacts, life
    <3>3. cleanups = k - setups
      BY DEF Lifecycle!Cleanups
    <3>4. QED
      BY <3>2, <3>3
  <2>2. /\ life[k].commit \in state.commits
        /\ state.setup[e] = Lifecycle!Setups(k - 1)
        /\ state.cleanup[e] = Lifecycle!Cleanups(k - 1)
        /\ state' = [state EXCEPT !.setup[e] = setups, !.cleanup[e] = cleanups]
    BY <1>10 DEF Lifecycle!LifecycleStep, life
  <2> HIDE DEF setups, cleanups
  <2>3. /\ state'.rendered = state.rendered /\ state'.suspensions = state.suspensions
        /\ state'.resolved = state.resolved /\ state'.commits = state.commits
        /\ state'.setup = [state.setup EXCEPT ![e] = setups]
        /\ state'.cleanup = [state.cleanup EXCEPT ![e] = cleanups]
    BY <2>2 DEF LifecycleInv, LifecycleState
  <2>4. /\ [state.setup EXCEPT ![e] = setups] \in [DOMAIN component.effects -> Nat]
        /\ [state.cleanup EXCEPT ![e] = cleanups] \in [DOMAIN component.effects -> Nat]
    BY <2>1 DEF LifecycleInv, LifecycleState
  <2>5. state' \in LifecycleState
    BY <2>2, <2>4 DEF LifecycleInv, LifecycleState
  <2>6. QED
    BY <2>2, <2>3, <2>5 DEF setups, cleanups
<1>11. ASSUME NEW e \in DOMAIN component.effects, state.commits \subseteq state'.commits,
              state'.setup[e] = state.setup[e], state'.cleanup[e] = state.cleanup[e]
       PROVE  \E k \in 0 .. Len(life) : LivedTo(e, k)'
  <2>1. PICK k \in 0 .. Len(life) : LivedTo(e, k)
    BY DEF LifecycleInv, life
  <2>2. LivedTo(e, k)'
    BY <1>2, <1>3, <1>11, <2>1 DEF LivedTo, life
  <2>3. QED
    BY <2>2
<1>12. CASE \E s \in state.suspensions : Lifecycle!ResolveSuspension(s)
  <2>1. PICK s \in state.suspensions : Lifecycle!ResolveSuspension(s)
    BY <1>12
  <2>2. state'.rendered <= Len(attempts) /\ state'.resolved \subseteq state'.suspensions
    BY <1>8, <2>1 DEF LifecycleInv, attempts
  <2>3. \A i \in 1 .. state'.rendered : attempts[i].retryOf \in {0} \cup state'.resolved
    BY <1>8, <2>1 DEF LifecycleInv, attempts
  <2>4. QED
    BY <1>8, <1>11, <2>1, <2>2, <2>3
<1>13. CASE \E i \in DOMAIN attempts : Lifecycle!RenderAttempt(i)
  <2>1. PICK i \in DOMAIN attempts : Lifecycle!RenderAttempt(i)
    BY <1>13
  <2>2. state'.rendered <= Len(attempts) /\ state'.resolved \subseteq state'.suspensions
    BY <1>5, <1>9, <2>1 DEF LifecycleInv, attempts
  <2>3. ASSUME NEW n \in 1 .. state'.rendered
        PROVE  attempts[n].retryOf \in {0} \cup state'.resolved
    <3>1. n \in 1 .. state.rendered \/ n = i
      BY <1>6, <1>9, <2>1
    <3>2. n \in 1 .. state.rendered => attempts[n].retryOf \in {0} \cup state.resolved
      BY DEF LifecycleInv, attempts
    <3>3. QED
      BY <1>9, <2>1, <3>1, <3>2
  <2>4. QED
    BY <1>9, <1>11, <2>1, <2>2, <2>3
<1>14. CASE \E e \in DOMAIN component.effects : \E k \in DOMAIN life :
              Lifecycle!LifecycleStep(e, k)
  <2>1. PICK e \in DOMAIN component.effects : \E k \in DOMAIN life :
               Lifecycle!LifecycleStep(e, k)
    BY <1>14
  <2>2. PICK k \in DOMAIN life : Lifecycle!LifecycleStep(e, k)
    BY <2>1
  <2>3. PICK m \in 0 .. Len(life) : LivedTo(e, m)
    BY DEF LifecycleInv, life
  <2>4. m = k - 1 /\ k \in 1 .. Len(life)
    <3>1. k \in 1 .. Len(life) /\ k - 1 \in 0 .. Len(life)
      BY <1>5
    <3>2. ASSUME NEW n \in 0 .. Len(life)
          PROVE  /\ n \in Nat /\ Lifecycle!Setups(n) \in Nat
                 /\ Lifecycle!Cleanups(n) = n - Lifecycle!Setups(n)
      <4>1. Len(life) = 1 \/ Len(life) = 3
        BY <1>1 DEF LifeFacts, life
      <4>2. n = 0 \/ n = 1 \/ (Len(life) = 3 /\ (n = 2 \/ n = 3))
        <5>1. Len(life) = 1 => n \in 0 .. 1
          OBVIOUS
        <5>2. Len(life) = 3 => n \in 0 .. 3
          OBVIOUS
        <5>3. QED
          BY <4>1, <5>1, <5>2
      <4>3. Lifecycle!Setups(n) \in Nat
        BY <1>1, <4>2 DEF CountFacts, life
      <4>4. QED
        BY <1>5, <4>3 DEF Lifecycle!Cleanups
    <3>3. /\ Lifecycle!Setups(m) = Lifecycle!Setups(k - 1)
          /\ Lifecycle!Cleanups(m) = Lifecycle!Cleanups(k - 1)
      BY <1>10, <2>2, <2>3 DEF LivedTo
    <3>4. m \in Nat /\ k - 1 \in Nat
      BY <3>1, <3>2, <2>3
    <3>5. m - Lifecycle!Setups(m) = (k - 1) - Lifecycle!Setups(m)
      BY <3>1, <3>2, <3>3, <2>3
    <3>6. Lifecycle!Setups(m) \in Nat
      BY <3>2, <2>3
    <3>7. QED
      BY <3>1, <3>4, <3>5, <3>6
  <2>5. ASSUME NEW j \in 1 .. k
        PROVE  life[j].commit \in state'.commits
    <3>1. j \in 1 .. m \/ j = k
      BY <1>5, <2>4
    <3>2. QED
      BY <1>10, <2>2, <2>3, <3>1 DEF LivedTo, life
  <2>6. state'.setup[e] = Lifecycle!Setups(k) /\ state'.cleanup[e] = Lifecycle!Cleanups(k)
    <3>1. /\ state'.setup = [state.setup EXCEPT ![e] = Lifecycle!Setups(k)]
          /\ state'.cleanup = [state.cleanup EXCEPT ![e] = Lifecycle!Cleanups(k)]
      BY <1>10, <2>2
    <3>2. e \in DOMAIN state.setup /\ e \in DOMAIN state.cleanup
      BY DEF LifecycleInv, LifecycleState
    <3>3. QED
      BY <3>1, <3>2
  <2>7. LivedTo(e, k)' /\ k \in 0 .. Len(life)
    BY <1>2, <1>3, <1>5, <2>4, <2>5, <2>6 DEF LivedTo, life
  <2>8. ASSUME NEW other \in DOMAIN component.effects, other # e
        PROVE  \E n \in 0 .. Len(life) : LivedTo(other, n)'
    <3>1. /\ state'.setup[other] = state.setup[other]
          /\ state'.cleanup[other] = state.cleanup[other]
      BY <1>10, <2>2, <2>8 DEF LifecycleInv, LifecycleState
    <3>2. QED
      BY <1>10, <1>11, <2>2, <3>1
  <2>9. \A n \in DOMAIN component.effects : \E i \in 0 .. Len(life) : LivedTo(n, i)'
    BY <2>7, <2>8
  <2>10. QED
    BY <1>10, <2>2, <2>9 DEF LifecycleInv, attempts
<1>15. QED
  BY <1>4, <1>7, <1>12, <1>13, <1>14 DEF Lifecycle!Step, life, attempts

LEMMA LifecycleCounts ==
  ASSUME LifecycleInv
  PROVE  Lifecycle!CountsAgree
<1> DEFINE life == Lifecycle!Replay.life
<1>1. LifeFacts /\ CountFacts
  BY LivesKnown, CountsKnown DEF LifecycleInv
<1>2. DOMAIN Lifecycle!Effects = DOMAIN component.effects
  BY DEF Lifecycle!Effects, Lifecycle!Ordered
<1>3. ASSUME NEW e \in DOMAIN component.effects
      PROVE  /\ state.cleanup[e] <= state.setup[e] /\ state.setup[e] <= state.cleanup[e] + 1
             /\ state.setup[e] <= Lifecycle!Setups(Len(life))
             /\ state.cleanup[e] <= Lifecycle!Cleanups(Len(life))
             /\ \A j \in DOMAIN life :
                  Lifecycle!Reached(e, j) => life[j].commit \in state.commits
  <2>1. PICK k \in 0 .. Len(life) : LivedTo(e, k)
    BY DEF LifecycleInv
  <2> HIDE DEF life
  <2>2. /\ state.setup[e] = Lifecycle!Setups(k)
        /\ state.cleanup[e] = k - Lifecycle!Setups(k)
        /\ \A j \in 1 .. k : life[j].commit \in state.commits
    BY <2>1 DEF LivedTo, Lifecycle!Cleanups, life
  <2>3. DOMAIN life = 1 .. Len(life)
    BY <1>1 DEF LifeFacts, life
  <2>4. Lifecycle!Cleanups(Len(life)) = Len(life) - Lifecycle!Setups(Len(life))
    BY DEF Lifecycle!Cleanups
  <2>5. CASE Len(life) = 1
    <3>1. k = 0 \/ k = 1
      BY <2>1, <2>5
    <3>2. ASSUME NEW j \in DOMAIN life, Lifecycle!Reached(e, j)
          PROVE  j \in 1 .. k
      <4>1. j = 1 /\ life[j].transition = "setup"
        BY <1>1, <2>3, <2>5 DEF LifeFacts, life
      <4>2. state.setup[e] >= Lifecycle!Setups(1)
        BY <3>2, <4>1 DEF Lifecycle!Reached, life
      <4>3. QED
        BY <1>1, <2>2, <3>1, <4>1, <4>2 DEF CountFacts
    <3>3. QED
      BY <1>1, <2>2, <2>4, <2>5, <3>1, <3>2 DEF CountFacts
  <2>6. CASE Len(life) = 3
    <3>1. k = 0 \/ k = 1 \/ k = 2 \/ k = 3
      BY <2>1, <2>6
    <3>2. /\ Lifecycle!Setups(0) = 0 /\ Lifecycle!Setups(1) = 1
          /\ Lifecycle!Setups(2) = 1 /\ Lifecycle!Setups(3) = 2
      BY <1>1, <2>6 DEF CountFacts, life
    <3>3. ASSUME NEW j \in DOMAIN life, Lifecycle!Reached(e, j)
          PROVE  j \in 1 .. k
      <4>1. j = 1 \/ j = 2 \/ j = 3
        BY <2>3, <2>6
      <4>2. /\ j \in {1, 3} => state.setup[e] >= Lifecycle!Setups(j)
            /\ j = 2 => state.cleanup[e] >= 2 - Lifecycle!Setups(2)
        BY <1>1, <2>6, <3>3, <4>1
           DEF LifeFacts, Lifecycle!Reached, Lifecycle!Cleanups, life
      <4>3. QED
        BY <2>2, <3>1, <3>2, <4>1, <4>2
    <3>4. QED
      BY <2>2, <2>4, <2>6, <3>1, <3>2, <3>3
  <2>7. QED
    BY <1>1, <2>5, <2>6 DEF LifeFacts, life
<1>4. QED
  BY <1>2, <1>3 DEF LifecycleInv, Lifecycle!CountsAgree

-----------------------------------------------------------------------------
\* All machines.

ReactInv ==
  /\ machine = "queue" => QueueInv
  /\ machine = "error" => ErrorInv
  /\ machine = "transition" => TransitionInv
  /\ machine = "retry" => RetryInv
  /\ machine = "fallback" => FallbackInv
  /\ machine = "boundary" => BoundaryInv
  /\ machine = "tree" => TreeInv
  /\ machine = "nested" => NestedInv
  /\ machine = "lifecycle" => LifecycleInv

LEMMA NumbersStart ==
  /\ Queue!Init => QueueInv
  /\ ErrorBoundary!Init => ErrorInv
  /\ Transition!Init => TransitionInv
  /\ TransitionSuspense!Init => RetryInv
  /\ Fallback!Init => FallbackInv
<1>1. {MaxQueuedActions, MaxActions, MaxRenderAttempts} \subseteq Nat \ {0}
  BY BoundsAssumption
<1>2. Queue!Init => QueueInv
  BY <1>1 DEF Queue!Init, QueueInv, QueueState, Queue!reactActionQueueSafe
<1>3. ErrorBoundary!Init => ErrorInv
  BY <1>1 DEF ErrorBoundary!Init, ErrorInv, ErrorState,
              ErrorBoundary!reactActionErrorBoundarySafe
<1>4. Transition!Init => TransitionInv
  BY <1>1 DEF Transition!Init, TransitionInv, TransitionState,
              Transition!reactTransitionSafe
<1>5. TransitionSuspense!Init => RetryInv
  BY <1>1 DEF TransitionSuspense!Init, RetryInv, RetryState,
              TransitionSuspense!reactTransitionSuspenseSafe
<1>6. Fallback!Init => FallbackInv
  BY DEF Fallback!Init, FallbackInv, FallbackState, Fallback!reactSuspenseFallbackSafe
<1>7. QED
  BY <1>2, <1>3, <1>4, <1>5, <1>6

LEMMA ReactStarts == ReactInit => ReactInv
BY ComponentAssumption, NumbersStart, BoundaryStarts, TreeStarts, NestedStarts, LifecycleStarts
   DEF ReactInit, ReactInv

LEMMA ReactStays ==
  ASSUME ReactInv, [ReactNext]_react
  PROVE  ReactInv'
<1>1. CASE UNCHANGED react
  <2>1. machine' = machine /\ component' = component /\ state' = state
    BY <1>1 DEF react
  <2>2. QED
    <3>1. QueueInv => QueueInv'
      BY <2>1 DEF QueueInv, QueueState, Queue!reactActionQueueSafe
    <3>2. ErrorInv => ErrorInv'
      BY <2>1 DEF ErrorInv, ErrorState, ErrorBoundary!reactActionErrorBoundarySafe
    <3>3. TransitionInv => TransitionInv'
      BY <2>1 DEF TransitionInv, TransitionState, Transition!reactTransitionSafe
    <3>4. RetryInv => RetryInv'
      BY <2>1 DEF RetryInv, RetryState, TransitionSuspense!reactTransitionSuspenseSafe
    <3>5. FallbackInv => FallbackInv'
      BY <2>1 DEF FallbackInv, FallbackState, Fallback!reactSuspenseFallbackSafe
    <3>6. BoundaryInv => BoundaryInv'
      BY <2>1 DEF BoundaryInv, BoundaryState, Boundary!suspenseBoundarySafe,
         Boundary!Fallback, Boundary!Primary, Boundary!Matching
    <3>7. TreeInv => TreeInv'
      BY <2>1 DEF TreeInv, TreeState, SuspenseTree!suspenseTreeSafe,
         SuspenseTree!Leaves, SuspenseTree!Boundaries
    <3>8. NestedInv => NestedInv'
      BY <2>1 DEF NestedInv, NestedState, Nested!nestedSuspenseSafe, Nested!Chain
    <3>9. LifecycleInv => LifecycleInv'
      <4>1. /\ Lifecycle!Replay' = Lifecycle!Replay
            /\ \A k : Lifecycle!Setups(k)' = Lifecycle!Setups(k)
        BY <2>1 DEF Lifecycle!Replay, Lifecycle!Setups
      <4>2. \A k : Lifecycle!Cleanups(k)' = Lifecycle!Cleanups(k)
        BY <4>1 DEF Lifecycle!Cleanups
      <4>3. \A e, k : LivedTo(e, k) => LivedTo(e, k)'
        BY <2>1, <4>1, <4>2 DEF LivedTo
      <4>4. QED
        BY <2>1, <4>1, <4>3 DEF LifecycleInv, LifecycleState
    <3>10. QED
      BY <2>1, <3>1, <3>2, <3>3, <3>4, <3>5, <3>6, <3>7, <3>8, <3>9 DEF ReactInv
<1>2. CASE ReactNext
  <2>1. machine' = machine
    BY <1>2 DEF ReactNext
  <2>2. QED
    BY <1>2, <2>1, ComponentAssumption, QueueStays, ErrorStays, TransitionStays, RetryStays, FallbackStays,
       BoundaryStays, TreeStays, NestedStays, LifecycleStays
       DEF ReactInv, ReactNext, HostStep, Other
<1>3. QED
  BY <1>1, <1>2

\* The counts are the whole predicate when no two effects are of different phases.
LEMMA OnePhaseSafe ==
  ASSUME LifecycleInv, Lifecycle!OnePhase
  PROVE  Lifecycle!reactLifecycleSafe
<1>1. PICK rank \in 0 .. 3 : \A e \in 1 .. Len(Lifecycle!Effects) :
        Lifecycle!reactCommitPhaseOrder[Lifecycle!Effects[e]] = rank
  BY DEF Lifecycle!OnePhase
<1>2. Lifecycle!PhasesInOrder
  BY <1>1 DEF Lifecycle!PhasesInOrder
<1>3. QED
  BY <1>2, LifecycleCounts DEF Lifecycle!reactLifecycleSafe

LEMMA ReactIsSafe ==
  ASSUME ReactInv
  PROVE  GeneratedPredicatesHold
BY LifecycleCounts, OnePhaseSafe
   DEF ReactInv, GeneratedPredicatesHold, QueueInv, ErrorInv, TransitionInv, RetryInv,
       FallbackInv, BoundaryInv, TreeInv, NestedInv

\* Whatever the bounds of the generators and the components, eight of the generated React
\* machines keep the predicate they are generated with.  The lifecycle machine keeps it for
\* effects of one phase; for others, which may be set up out of the order of their phases,
\* the rest of it: setups, cleanups, commits and retries agree.
THEOREM PredicatesHold == ReactSpec => []GeneratedPredicatesHold
<1>1. ReactInit => ReactInv
  BY ReactStarts
<1>2. ReactInv /\ [ReactNext]_react => ReactInv'
  BY ReactStays
<1>3. ReactInv => GeneratedPredicatesHold
  BY ReactIsSafe
<1>4. QED
  BY <1>1, <1>2, <1>3, PTL DEF ReactSpec

-----------------------------------------------------------------------------
\* The dispatcher the counts stand for: n Actions were dispatched, s have started and d are
\* done; `over` says that the last one that started has failed.

Actions(n, s, d, over) ==
  [i \in 1 .. n |->
    IF i <= d THEN "done"
    ELSE IF i <= s THEN IF over THEN "failed" ELSE "running"
    ELSE IF over THEN "dropped" ELSE "queued"]

Counted(n, s, d, over) ==
  /\ n \in Nat /\ s \in Nat /\ d \in Nat /\ over \in BOOLEAN
  /\ d <= s /\ s <= d + 1 /\ s <= n
  /\ over => s = d + 1

\* What the dispatcher shows.
Shows(n, s, d, over) ==
  /\ Status = Actions(n, s, d, over)
  /\ machine \in {"queue", "error"}
  /\ state.pending = 1 <=> ~over /\ n > d

LEMMA ActionsAppend ==
  ASSUME NEW n, NEW s, NEW d, Counted(n, s, d, FALSE)
  PROVE  Append(Actions(n, s, d, FALSE), "queued") = Actions(n + 1, s, d, FALSE)
<1> DEFINE old == Actions(n, s, d, FALSE)
           new == Actions(n + 1, s, d, FALSE)
<1>1. n \in Nat /\ s \in Nat /\ d \in Nat /\ d <= n /\ s <= n
  BY DEF Counted
<1> DEFINE Shown == {"done", "failed", "running", "dropped", "queued"}
<1>2. old \in [1 .. n -> Shown] /\ new \in [1 .. n + 1 -> Shown]
  BY DEF Actions
<1>4. \A i \in 1 .. n : new[i] = old[i]
  BY <1>1 DEF Actions
<1>5. new[n + 1] = "queued"
  BY <1>1 DEF Actions
<1>6. "queued" \in Shown
  OBVIOUS
<1> HIDE DEF old, new, Shown
<1>7. old \in Seq(Shown) /\ Len(old) = n
  BY <1>1, <1>2
<1>8. /\ DOMAIN Append(old, "queued") = 1 .. n + 1
      /\ Append(old, "queued") \in Seq(Shown)
      /\ \A i \in 1 .. n : Append(old, "queued")[i] = old[i]
      /\ Append(old, "queued")[n + 1] = "queued"
  BY <1>1, <1>6, <1>7, AppendProperties
<1>9. new \in Seq(Shown) /\ Len(new) = n + 1 /\ Len(Append(old, "queued")) = n + 1
  BY <1>1, <1>2, <1>6, <1>7, AppendProperties
<1>10. \A i \in 1 .. n + 1 : i \in 1 .. n \/ i = n + 1
  BY <1>1
<1>11. \A i \in 1 .. n + 1 : Append(old, "queued")[i] = new[i]
  BY <1>4, <1>5, <1>8, <1>10
<1>12. Append(old, "queued") = new
  BY <1>8, <1>9, <1>11, SeqEqual
<1>13. QED
  BY <1>12 DEF old, new

LEMMA ActionsAt ==
  ASSUME NEW n, NEW s, NEW d, NEW over, Counted(n, s, d, over)
  PROVE  /\ DOMAIN Actions(n, s, d, over) = 1 .. n
         /\ \A i \in 1 .. d : Actions(n, s, d, over)[i] = "done"
         /\ s > d => Actions(n, s, d, over)[s] = (IF over THEN "failed" ELSE "running")
         /\ \A i \in s + 1 .. n :
              Actions(n, s, d, over)[i] = (IF over THEN "dropped" ELSE "queued")
BY DEF Actions, Counted

LEMMA DispatcherSteps ==
  ASSUME NEW n, NEW s, NEW d, NEW over, Counted(n, s, d, over), Shows(n, s, d, over),
         NEW n1, NEW s1, NEW d1, NEW over1, Status' = Actions(n1, s1, d1, over1),
         machine' \in {"queue", "error"}, state'.pending = 1 <=> ~over1 /\ n1 > d1,
         \/ n1 = n /\ s1 = s /\ d1 = d /\ over1 = over
         \/ ~over /\ n1 = n + 1 /\ s1 = s /\ d1 = d /\ ~over1
         \/ ~over /\ s = d /\ n > s /\ n1 = n /\ s1 = s + 1 /\ d1 = d /\ ~over1
         \/ ~over /\ s = d + 1 /\ n1 = n /\ s1 = s /\ d1 = d + 1 /\ ~over1
         \/ ~over /\ s = d + 1 /\ n1 = n /\ s1 = s /\ d1 = d /\ over1,
         over1 \in BOOLEAN
  PROVE  \/ Dispatcher!Next
         \/ Status' = Status
            /\ (machine \in {"queue", "error"} /\ state.pending = 1)'
                 = (machine \in {"queue", "error"} /\ state.pending = 1)
<1> DEFINE old == Actions(n, s, d, over)
           new == Actions(n1, s1, d1, over1)
<1>1. /\ n \in Nat /\ s \in Nat /\ d \in Nat /\ over \in BOOLEAN
      /\ d <= s /\ s <= d + 1 /\ s <= n /\ (over => s = d + 1)
  BY DEF Counted
<1>2. Counted(n1, s1, d1, over1)
  BY <1>1 DEF Counted
<1>3. /\ Status = old /\ Status' = new
      /\ machine \in {"queue", "error"} /\ machine' \in {"queue", "error"}
      /\ (state.pending = 1 <=> ~over /\ n > d) /\ (state'.pending = 1 <=> ~over1 /\ n1 > d1)
  BY DEF Shows
<1>4. /\ DOMAIN old = 1 .. n /\ DOMAIN new = 1 .. n1
      /\ \A i \in 1 .. d : old[i] = "done"
      /\ \A i \in 1 .. d1 : new[i] = "done"
      /\ s > d => old[s] = (IF over THEN "failed" ELSE "running")
      /\ s1 > d1 => new[s1] = (IF over1 THEN "failed" ELSE "running")
      /\ \A i \in s + 1 .. n : old[i] = (IF over THEN "dropped" ELSE "queued")
      /\ \A i \in s1 + 1 .. n1 : new[i] = (IF over1 THEN "dropped" ELSE "queued")
  BY <1>2, ActionsAt
<1>5. CASE n1 = n /\ s1 = s /\ d1 = d /\ over1 = over
  BY <1>3, <1>5
<1>6. CASE ~over /\ n1 = n + 1 /\ s1 = s /\ d1 = d /\ ~over1
  <2>1. new = Append(old, "queued")
    BY <1>1, <1>6, ActionsAppend DEF Counted
  <2> HIDE DEF old, new
  <2>2. \A i \in 1 .. n : old[i] \in {"done", "running", "queued"}
    <3>1. ASSUME NEW i \in 1 .. n
          PROVE  i \in 1 .. d \/ (i = s /\ s > d) \/ i \in s + 1 .. n
      BY <1>1
    <3>2. QED
      BY <1>4, <1>6, <3>1
  <2>3. ~(\E i \in DOMAIN old : old[i] = "failed")
    BY <1>4, <2>2
  <2>4. state'.pending = 1
    BY <1>1, <1>3, <1>6
  <2>5. Dispatcher!Dispatch
    BY <1>3, <2>1, <2>3, <2>4 DEF Dispatcher!Dispatch, Dispatcher!Failed
  <2>6. QED
    BY <2>5 DEF Dispatcher!Next
<1>7. CASE ~over /\ s = d /\ n > s /\ n1 = n /\ s1 = s + 1 /\ d1 = d /\ ~over1
  <2>1. s1 \in DOMAIN old /\ old[s1] = "queued" /\ new[s1] = "running"
    BY <1>1, <1>4, <1>7
  <2>2. \A k \in 1 .. s1 - 1 : old[k] = "done"
    BY <1>1, <1>4, <1>7
  <2>3. new = [old EXCEPT ![s1] = "running"]
    <3>1. \A i \in 1 .. n : new[i] = (IF i = s1 THEN "running" ELSE old[i])
      BY <1>1, <1>7 DEF Actions
    <3>2. new = [i \in 1 .. n |-> new[i]] /\ old = [i \in 1 .. n |-> old[i]]
      BY <1>7 DEF Actions
    <3> HIDE DEF old, new
    <3>3. QED
      BY <3>1, <3>2
  <2>4. state'.pending = 1 /\ state.pending = 1
    BY <1>1, <1>3, <1>7
  <2> HIDE DEF old, new
  <2>5. Dispatcher!Start(s1)
    BY <1>3, <2>1, <2>2, <2>3, <2>4 DEF Dispatcher!Start
  <2>6. QED
    BY <1>3, <2>1, <2>5 DEF Dispatcher!Next
<1>8. CASE ~over /\ s = d + 1 /\ n1 = n /\ s1 = s /\ d1 = d + 1 /\ ~over1
  <2>1. s \in DOMAIN old /\ old[s] = "running"
    BY <1>1, <1>4, <1>8
  <2>2. new = [old EXCEPT ![s] = "done"]
    <3>1. \A i \in 1 .. n : new[i] = (IF i = s THEN "done" ELSE old[i])
      BY <1>1, <1>8 DEF Actions
    <3>2. new = [i \in 1 .. n |-> new[i]] /\ old = [i \in 1 .. n |-> old[i]]
      BY <1>8 DEF Actions
    <3> HIDE DEF old, new
    <3>3. QED
      BY <3>1, <3>2
  <2>3. (\E i \in DOMAIN new : new[i] \in {"queued", "running"}) <=> n > s
    <3>1. ASSUME NEW i \in 1 .. n
          PROVE  i \in 1 .. s \/ i \in s + 1 .. n
      BY <1>1
    <3>2. n > s => n \in s + 1 .. n
      BY <1>1
    <3>3. s + 1 .. n = {} \/ n > s
      BY <1>1
    <3>4. (\A i \in 1 .. s : new[i] = "done") /\ (\A i \in s + 1 .. n : new[i] = "queued")
      BY <1>1, <1>4, <1>8
    <3> HIDE DEF old, new
    <3>5. QED
      BY <1>1, <1>4, <1>8, <3>1, <3>2, <3>3, <3>4
  <2>4. state'.pending = 1 <=> n > s
    BY <1>1, <1>3, <1>8
  <2> HIDE DEF old, new
  <2>5. Dispatcher!Finish(s)
    BY <1>3, <2>1, <2>2, <2>3, <2>4 DEF Dispatcher!Finish, Dispatcher!Unfinished
  <2>6. QED
    BY <1>3, <2>1, <2>5 DEF Dispatcher!Next
<1>9. CASE ~over /\ s = d + 1 /\ n1 = n /\ s1 = s /\ d1 = d /\ over1
  <2>1. s \in DOMAIN old /\ old[s] = "running"
    BY <1>1, <1>4, <1>9
  <2>2. new = [k \in DOMAIN old |->
                IF k < s THEN old[k] ELSE IF k = s THEN "failed" ELSE "dropped"]
    BY <1>1, <1>9 DEF Actions
  <2>3. state'.pending # 1
    BY <1>3, <1>9
  <2> HIDE DEF old, new
  <2>4. Dispatcher!Fail(s)
    BY <1>3, <2>1, <2>2, <2>3 DEF Dispatcher!Fail
  <2>5. QED
    BY <1>3, <2>1, <2>4 DEF Dispatcher!Next
<1>10. QED
  BY <1>5, <1>6, <1>7, <1>8, <1>9

QueueView ==
  /\ Counted(state.enqueued, state.started, state.settled - state.failed, state.cancelled = 1)
  /\ Shows(state.enqueued, state.started, state.settled - state.failed, state.cancelled = 1)

ErrorView ==
  /\ Counted(state.queued, state.started, state.settled, state.failure_stage # 0)
  /\ Shows(state.queued, state.started, state.settled, state.failure_stage # 0)

LEMMA QueueShows ==
  ASSUME QueueInv, machine = "queue"
  PROVE  QueueView
<1> DEFINE n == state.enqueued
           s == state.started
           t == state.settled
           f == state.failed
           over == state.cancelled = 1
           shown(i) == CASE i < t \/ (i = t /\ f = 0) -> "done"
                         [] i = t /\ f = 1 -> "failed"
                         [] i > t /\ i <= s -> "running"
                         [] i > s -> IF over THEN "dropped" ELSE "queued"
<1>1. /\ n \in Nat /\ s \in Nat /\ t \in Nat /\ f \in 0 .. 1 /\ over \in BOOLEAN
      /\ t <= s /\ s <= n /\ s <= t + 1 /\ (over <=> f = 1)
      /\ f = 1 => t > 0 /\ s = t
      /\ (state.pending = 1 <=> n > t /\ ~over)
  <2>1. /\ n \in Nat /\ s \in Nat /\ t \in Nat /\ f \in Nat /\ over \in BOOLEAN
        /\ state.active \in Nat /\ state.pending \in Nat /\ state.cancelled \in Nat
    BY DEF QueueInv, QueueState
  <2>2. /\ t <= s /\ s <= n /\ state.active = s - t /\ state.active \in 0 .. 1
        /\ state.cancelled = 1 => state.active = 0 /\ t > 0
        /\ state.cancelled = f /\ state.cancelled \in 0 .. 1
        /\ state.pending = 1 <=> n > t /\ state.cancelled = 0
    BY DEF QueueInv, Queue!reactActionQueueSafe
  <2>3. QED
    BY <2>1, <2>2
<1>2. Status = [i \in 1 .. n |-> shown(i)]
  BY DEF Status, Queue!Status
<1> HIDE DEF n, s, t, f, over, shown
<1>3. ASSUME NEW i \in 1 .. n
      PROVE  Status[i] = Actions(n, s, t - f, over)[i]
  <2>1. i \in Nat /\ i > 0
    BY <1>1
  <2>2. CASE f = 0
    BY <1>1, <1>2, <2>1, <2>2 DEF Actions, shown
  <2>3. CASE f = 1
    BY <1>1, <1>2, <2>1, <2>3 DEF Actions, shown
  <2>4. QED
    BY <1>1, <2>2, <2>3
<1>4. Status = Actions(n, s, t - f, over)
  <2>1. Status = [i \in 1 .. n |-> Status[i]]
    BY <1>2
  <2>2. Actions(n, s, t - f, over) = [i \in 1 .. n |-> Actions(n, s, t - f, over)[i]]
    BY DEF Actions
  <2>3. QED
    BY <1>3, <2>1, <2>2
<1>5. Counted(n, s, t - f, over)
  BY <1>1 DEF Counted
<1>6. state.pending = 1 <=> ~over /\ n > t - f
  BY <1>1
<1>7. QED
  BY <1>4, <1>5, <1>6 DEF QueueView, Shows, n, s, t, f, over

LEMMA ErrorShows ==
  ASSUME ErrorInv, machine = "error"
  PROVE  ErrorView
<1> DEFINE n == state.queued
           s == state.started
           t == state.settled
           over == state.failure_stage # 0
           shown(i) == CASE i <= t -> "done"
                         [] i = t + 1 /\ i <= s -> IF state.failure_stage = 0 THEN "running" ELSE "failed"
                         [] i > s -> IF state.failure_stage = 0 THEN "queued" ELSE "dropped"
<1>1. /\ n \in Nat /\ s \in Nat /\ t \in Nat /\ over \in BOOLEAN
      /\ t <= s /\ s <= n /\ s <= t + 1 /\ (over => s = t + 1)
      /\ (state.pending = 1 <=> n > t /\ ~over)
  <2>1. /\ n \in Nat /\ s \in Nat /\ t \in Nat /\ over \in BOOLEAN
        /\ state.failure_stage \in Nat
    BY DEF ErrorInv, ErrorState
  <2>2. /\ t <= s /\ s <= n
        /\ state.failure_stage >= 1 => s = t + 1
        /\ state.failure_stage = 0 => s <= t + 1
        /\ state.pending = 1 <=> n > t /\ state.failure_stage = 0
    BY DEF ErrorInv, ErrorBoundary!reactActionErrorBoundarySafe
  <2>3. QED
    BY <2>1, <2>2
<1>2. Status = [i \in 1 .. n |-> shown(i)]
  BY DEF Status, ErrorBoundary!Status
<1>3. over <=> ~(state.failure_stage = 0)
  OBVIOUS
<1> HIDE DEF n, s, t, over, shown
<1>4. ASSUME NEW i \in 1 .. n
      PROVE  Status[i] = Actions(n, s, t, over)[i]
  <2>1. i \in Nat /\ i > 0
    BY <1>1
  <2>2. CASE over
    BY <1>1, <1>2, <1>3, <2>1, <2>2 DEF Actions, shown
  <2>3. CASE ~over
    BY <1>1, <1>2, <1>3, <2>1, <2>3 DEF Actions, shown
  <2>4. QED
    BY <2>2, <2>3
<1>5. Status = Actions(n, s, t, over)
  <2>1. Status = [i \in 1 .. n |-> Status[i]]
    BY <1>2
  <2>2. Actions(n, s, t, over) = [i \in 1 .. n |-> Actions(n, s, t, over)[i]]
    BY DEF Actions
  <2>3. QED
    BY <1>4, <2>1, <2>2
<1>6. Counted(n, s, t, over)
  BY <1>1 DEF Counted
<1>7. QED
  BY <1>1, <1>5, <1>6 DEF ErrorView, Shows, n, s, t, over

LEMMA QueueDispatches ==
  ASSUME QueueInv, QueueView, QueueView', Queue!HostStep \/ Queue!EnqueueAction
  PROVE  \/ Dispatcher!Next
         \/ Status' = Status
            /\ (machine \in {"queue", "error"} /\ state.pending = 1)'
                 = (machine \in {"queue", "error"} /\ state.pending = 1)
<1> DEFINE n == state.enqueued
           s == state.started
           d == state.settled - state.failed
           over == state.cancelled = 1
           n1 == state'.enqueued
           s1 == state'.started
           d1 == state'.settled - state'.failed
           over1 == state'.cancelled = 1
<1>1. /\ state.enqueued \in Nat /\ state.started \in Nat /\ state.settled \in Nat
      /\ state.active = state.started - state.settled /\ state.cancelled = state.failed
  BY DEF QueueInv, QueueState, Queue!reactActionQueueSafe
<1>2. \/ ~over /\ n1 = n + 1 /\ s1 = s /\ d1 = d /\ ~over1
      \/ ~over /\ s = d /\ n > s /\ n1 = n /\ s1 = s + 1 /\ d1 = d /\ ~over1
      \/ ~over /\ s = d + 1 /\ n1 = n /\ s1 = s /\ d1 = d + 1 /\ ~over1
      \/ ~over /\ s = d + 1 /\ n1 = n /\ s1 = s /\ d1 = d /\ over1
  <2>1. CASE Queue!EnqueueAction
    <3>1. /\ state.cancelled = 0 /\ n1 = n + 1 /\ s1 = s /\ state'.settled = state.settled
          /\ state'.failed = state.failed /\ state'.cancelled = state.cancelled
      BY <2>1 DEF Queue!EnqueueAction, QueueInv, QueueState
    <3>2. QED
      BY <3>1
  <2>2. CASE Queue!StartNextAction
    <3>1. /\ state.cancelled = 0 /\ state.active = 0 /\ s < n /\ n1 = n /\ s1 = s + 1
          /\ state'.settled = state.settled /\ state'.failed = state.failed
          /\ state'.cancelled = state.cancelled
      BY <2>2 DEF Queue!StartNextAction, QueueInv, QueueState
    <3>2. state.failed = 0 /\ s = state.settled
      BY <1>1, <3>1
    <3>3. QED
      BY <1>1, <3>1, <3>2
  <2>3. CASE Queue!ResolveActiveAction
    <3>1. /\ state.cancelled = 0 /\ state.active = 1 /\ n1 = n /\ s1 = s
          /\ state'.settled = state.settled + 1 /\ state'.failed = state.failed
          /\ state'.cancelled = state.cancelled
      BY <2>3 DEF Queue!ResolveActiveAction, QueueInv, QueueState
    <3>2. state.failed = 0 /\ s = state.settled + 1
      BY <1>1, <3>1
    <3>3. QED
      BY <1>1, <3>1, <3>2
  <2>4. CASE Queue!FailActiveAction
    <3>1. /\ state.cancelled = 0 /\ state.active = 1 /\ n1 = n /\ s1 = s
          /\ state'.settled = state.settled + 1 /\ state'.failed = 1 /\ state'.cancelled = 1
      BY <2>4 DEF Queue!FailActiveAction, QueueInv, QueueState
    <3>2. state.failed = 0 /\ s = state.settled + 1
      BY <1>1, <3>1
    <3>3. d = state.settled /\ d1 = state.settled
      BY <1>1, <3>1, <3>2
    <3>4. QED
      BY <3>1, <3>2, <3>3
  <2>5. QED
    BY <2>1, <2>2, <2>3, <2>4 DEF Queue!HostStep
<1>3. Counted(n, s, d, over) /\ Shows(n, s, d, over)
  BY DEF QueueView
<1>4. /\ Status' = Actions(n1, s1, d1, over1)
      /\ machine' \in {"queue", "error"}
      /\ state'.pending = 1 <=> ~over1 /\ n1 > d1
  BY DEF QueueView, Shows
<1>5. over1 \in BOOLEAN
  OBVIOUS
<1> HIDE DEF n, s, d, over, n1, s1, d1, over1
<1>6. QED
  BY <1>2, <1>3, <1>4, <1>5, DispatcherSteps

LEMMA ErrorDispatches ==
  ASSUME ErrorInv, ErrorView, ErrorView',
         ErrorBoundary!HostStep \/ ErrorBoundary!EnqueueAction
  PROVE  \/ Dispatcher!Next
         \/ Status' = Status
            /\ (machine \in {"queue", "error"} /\ state.pending = 1)'
                 = (machine \in {"queue", "error"} /\ state.pending = 1)
<1> DEFINE n == state.queued
           s == state.started
           d == state.settled
           over == state.failure_stage # 0
           n1 == state'.queued
           s1 == state'.started
           d1 == state'.settled
           over1 == state'.failure_stage # 0
<1>1. /\ n \in Nat /\ s \in Nat /\ d \in Nat
      /\ state.failure_stage = 0 => state.active = s - d
  BY DEF ErrorInv, ErrorState, ErrorBoundary!reactActionErrorBoundarySafe
<1>2. \/ n1 = n /\ s1 = s /\ d1 = d /\ over1 = over
      \/ ~over /\ n1 = n + 1 /\ s1 = s /\ d1 = d /\ ~over1
      \/ ~over /\ s = d /\ n > s /\ n1 = n /\ s1 = s + 1 /\ d1 = d /\ ~over1
      \/ ~over /\ s = d + 1 /\ n1 = n /\ s1 = s /\ d1 = d + 1 /\ ~over1
      \/ ~over /\ s = d + 1 /\ n1 = n /\ s1 = s /\ d1 = d /\ over1
  <2>1. CASE ErrorBoundary!EnqueueAction
    BY <2>1 DEF ErrorBoundary!EnqueueAction, ErrorInv, ErrorState
  <2>2. CASE ErrorBoundary!StartNextAction
    <3>1. /\ state.failure_stage = 0 /\ state.active = 0 /\ s < n /\ n1 = n /\ s1 = s + 1
          /\ d1 = d /\ state'.failure_stage = 0
      BY <2>2 DEF ErrorBoundary!StartNextAction, ErrorInv, ErrorState
    <3>2. QED
      BY <1>1, <3>1
  <2>3. CASE ErrorBoundary!ResolveAction
    <3>1. /\ state.failure_stage = 0 /\ state.active = 1 /\ n1 = n /\ s1 = s
          /\ d1 = d + 1 /\ state'.failure_stage = 0
      BY <2>3 DEF ErrorBoundary!ResolveAction, ErrorInv, ErrorState
    <3>2. QED
      BY <1>1, <3>1
  <2>4. CASE ErrorBoundary!FailActionAndCancelTail
    <3>1. /\ state.failure_stage = 0 /\ state.active = 1 /\ n1 = n /\ s1 = s
          /\ d1 = d /\ state'.failure_stage = 1
      BY <2>4 DEF ErrorBoundary!FailActionAndCancelTail, ErrorInv, ErrorState
    <3>2. QED
      BY <1>1, <3>1
  <2>5. CASE ErrorBoundary!RethrowFromUseActionState
    <3>1. /\ n1 = n /\ s1 = s /\ d1 = d
          /\ state.failure_stage = 1 /\ state'.failure_stage = 2
      BY <2>5 DEF ErrorBoundary!RethrowFromUseActionState, ErrorInv, ErrorState
    <3>2. QED
      BY <3>1
  <2>6. CASE ErrorBoundary!RenderErrorFallback
    <3>1. /\ n1 = n /\ s1 = s /\ d1 = d
          /\ state.failure_stage = 2 /\ state'.failure_stage = 3
      BY <2>6 DEF ErrorBoundary!RenderErrorFallback, ErrorInv, ErrorState
    <3>2. QED
      BY <3>1
  <2>7. CASE ErrorBoundary!CommitErrorFallback
    <3>1. /\ n1 = n /\ s1 = s /\ d1 = d
          /\ state.failure_stage = 3 /\ state'.failure_stage = 4
      BY <2>7 DEF ErrorBoundary!CommitErrorFallback, ErrorInv, ErrorState
    <3>2. QED
      BY <3>1
  <2>8. QED
    BY <2>1, <2>2, <2>3, <2>4, <2>5, <2>6, <2>7 DEF ErrorBoundary!HostStep
<1>3. Counted(n, s, d, over) /\ Shows(n, s, d, over)
  BY DEF ErrorView
<1>4. /\ Status' = Actions(n1, s1, d1, over1)
      /\ machine' \in {"queue", "error"}
      /\ state'.pending = 1 <=> ~over1 /\ n1 > d1
  BY DEF ErrorView, Shows
<1>5. over1 \in BOOLEAN
  OBVIOUS
<1> HIDE DEF n, s, d, over, n1, s1, d1, over1
<1>6. QED
  BY <1>2, <1>3, <1>4, <1>5, DispatcherSteps

\* The invariant of the two machines with a dispatcher, and what they show.
DispatchInv ==
  /\ machine = "queue" => QueueInv
  /\ machine = "error" => ErrorInv

DispatchView ==
  /\ machine = "queue" => QueueView
  /\ machine = "error" => ErrorView

LEMMA DispatchShows ==
  ASSUME DispatchInv
  PROVE  DispatchView
BY QueueShows, ErrorShows DEF DispatchInv, DispatchView

LEMMA DispatchStays ==
  ASSUME DispatchInv, [ReactNext]_react
  PROVE  DispatchInv'
<1>1. CASE UNCHANGED react
  <2>1. machine' = machine /\ state' = state
    BY <1>1 DEF react
  <2>2. QueueInv => QueueInv'
    BY <2>1 DEF QueueInv, QueueState, Queue!reactActionQueueSafe
  <2>3. ErrorInv => ErrorInv'
    BY <2>1 DEF ErrorInv, ErrorState, ErrorBoundary!reactActionErrorBoundarySafe
  <2>4. QED
    BY <2>1, <2>2, <2>3 DEF DispatchInv
<1>2. CASE ReactNext
  BY <1>2, QueueStays, ErrorStays DEF DispatchInv, ReactNext, HostStep, Other
<1>3. QED
  BY <1>1, <1>2

LEMMA DispatcherStarts ==
  ASSUME ReactInit
  PROVE  Dispatcher!Init
<1>1. machine \in {"queue", "error"} => state.pending = 0
  BY DEF ReactInit, Queue!Init, ErrorBoundary!Init
<1>2. Status = <<>>
  <2>1. CASE machine = "queue"
    BY <2>1 DEF ReactInit, Queue!Init, Status, Queue!Status
  <2>2. CASE machine = "error"
    BY <2>2 DEF ReactInit, ErrorBoundary!Init, Status, ErrorBoundary!Status
  <2>3. QED
    BY <2>1, <2>2 DEF Status
<1>3. QED
  BY <1>1, <1>2 DEF Dispatcher!Init

LEMMA DispatcherStep ==
  ASSUME DispatchInv, DispatchView, DispatchView', [ReactNext]_react
  PROVE  [Dispatcher!Next]_<<Status,
           machine \in {"queue", "error"} /\ state.pending = 1>>
<1>1. CASE UNCHANGED react
  BY <1>1 DEF react, Status, Queue!Status, ErrorBoundary!Status
<1>2. CASE ReactNext /\ machine = "queue"
  BY <1>2, QueueDispatches DEF DispatchInv, DispatchView, ReactNext, HostStep, Other
<1>3. CASE ReactNext /\ machine = "error"
  BY <1>3, ErrorDispatches DEF DispatchInv, DispatchView, ReactNext, HostStep, Other
<1>4. CASE ReactNext /\ machine \notin {"queue", "error"}
  BY <1>4 DEF ReactNext, Status
<1>5. QED
  BY <1>1, <1>2, <1>3, <1>4

\* The machines of useActionState, with and without an Error Boundary, implement the
\* dispatcher React promises: Actions run one by one in the order of their dispatch, and a
\* failure drops the ones behind it.
THEOREM DispatcherImplemented == ReactSpec => ImplementsDispatcher
<1>1. ReactInit => DispatchInv /\ Dispatcher!Init
  BY NumbersStart, DispatcherStarts DEF ReactInit, DispatchInv
<1>2. DispatchInv /\ [ReactNext]_react => DispatchInv'
  BY DispatchStays
<1>3. DispatchInv => DispatchView
  BY DispatchShows
<1>4. DispatchInv /\ DispatchView /\ DispatchView' /\ [ReactNext]_react =>
        [Dispatcher!Next]_<<Status, machine \in {"queue", "error"} /\ state.pending = 1>>
  BY DispatcherStep
<1>5. QED
  BY <1>1, <1>2, <1>3, <1>4, PTL DEF ReactSpec, ImplementsDispatcher, Dispatcher!Spec

-----------------------------------------------------------------------------
\* What a user sees of a suspended update.

Seen == <<Screen, IsSuspended, IsResolved, machine = "retry">>

LEMMA UpdateSteps ==
  ASSUME NEW screen, NEW suspended \in BOOLEAN, NEW resolved \in BOOLEAN,
         NEW screen1, NEW suspended1 \in BOOLEAN, NEW resolved1 \in BOOLEAN,
         machine' = machine,
         Screen = screen, IsSuspended = suspended, IsResolved = resolved,
         Screen' = screen1, IsSuspended' = suspended1, IsResolved' = resolved1,
         \/ screen1 = screen /\ suspended1 = suspended /\ resolved1 = resolved
         \/ /\ ~suspended /\ screen # "new"
            /\ screen1 = screen /\ suspended1 /\ resolved1 = resolved
         \/ /\ suspended /\ machine # "retry" /\ screen \in {"nothing", "old"}
            /\ screen1 = "fallback" /\ suspended1 /\ resolved1 = resolved
         \/ suspended /\ ~resolved /\ screen1 = screen /\ suspended1 /\ resolved1
         \/ /\ screen # "new" /\ (suspended => resolved)
            /\ screen1 = "new" /\ suspended1 = suspended /\ resolved1 = resolved
  PROVE  [Suspending!Next]_Seen
<1>1. (machine = "retry")' = (machine = "retry")
  OBVIOUS
<1>2. CASE screen1 = screen /\ suspended1 = suspended /\ resolved1 = resolved
  BY <1>1, <1>2 DEF Seen
<1>3. CASE /\ ~suspended /\ screen # "new"
           /\ screen1 = screen /\ suspended1 /\ resolved1 = resolved
  <2>1. Suspending!Suspend
    BY <1>1, <1>3, Zenon DEF Suspending!Suspend
  <2>2. QED
    BY <2>1 DEF Suspending!Next
<1>4. CASE /\ suspended /\ machine # "retry" /\ screen \in {"nothing", "old"}
           /\ screen1 = "fallback" /\ suspended1 /\ resolved1 = resolved
  <2>1. Suspending!ShowFallback
    BY <1>1, <1>4, Zenon DEF Suspending!ShowFallback
  <2>2. QED
    BY <2>1 DEF Suspending!Next
<1>5. CASE suspended /\ ~resolved /\ screen1 = screen /\ suspended1 /\ resolved1
  <2>1. Suspending!Resolve
    BY <1>1, <1>5, Zenon DEF Suspending!Resolve
  <2>2. QED
    BY <2>1 DEF Suspending!Next
<1>6. CASE /\ screen # "new" /\ (suspended => resolved)
           /\ screen1 = "new" /\ suspended1 = suspended /\ resolved1 = resolved
  <2>1. Suspending!Show
    BY <1>1, <1>6, Zenon DEF Suspending!Show
  <2>2. QED
    BY <2>1 DEF Suspending!Next
<1>7. QED
  BY <1>2, <1>3, <1>4, <1>5, <1>6


LEMMA RetryUpdates ==
  ASSUME machine = "retry", machine' = "retry", RetryInv, RetryInv',
         TransitionSuspense!HostStep \/ TransitionSuspense!Request
  PROVE  [Suspending!Next]_Seen
<1> DEFINE screen == IF state.committed = 1 THEN "new" ELSE "old"
           suspended == state.suspended = 1
           resolved == state.resolved = 1
           screen1 == IF state'.committed = 1 THEN "new" ELSE "old"
           suspended1 == state'.suspended = 1
           resolved1 == state'.resolved = 1
<1>1. /\ Screen = screen /\ IsSuspended = suspended /\ IsResolved = resolved
  BY DEF RetryInv, Screen, IsSuspended, IsResolved, TransitionSuspense!Screen
<1>2. /\ Screen' = screen1 /\ IsSuspended' = suspended1
      /\ IsResolved' = resolved1
  BY DEF RetryInv, Screen, IsSuspended, IsResolved, TransitionSuspense!Screen

<1>3. \/ screen1 = screen /\ suspended1 = suspended /\ resolved1 = resolved
      \/ /\ ~suspended /\ screen # "new"
         /\ screen1 = screen /\ suspended1 /\ resolved1 = resolved
      \/ /\ suspended /\ machine # "retry" /\ screen \in {"nothing", "old"}
         /\ screen1 = "fallback" /\ suspended1 /\ resolved1 = resolved
      \/ suspended /\ ~resolved /\ screen1 = screen /\ suspended1 /\ resolved1
      \/ /\ screen # "new" /\ (suspended => resolved)
         /\ screen1 = "new" /\ suspended1 = suspended /\ resolved1 = resolved
  <2>1. CASE \/ TransitionSuspense!StartTransition
             \/ TransitionSuspense!BeginTransitionRender
             \/ TransitionSuspense!RetryTransitionRender
             \/ TransitionSuspense!InterruptTransitionRender
             \/ TransitionSuspense!RetryInterruptedRender
    <3>1. /\ state'.committed = state.committed /\ state'.suspended = state.suspended
          /\ state'.resolved = state.resolved
      BY <2>1 DEF RetryInv, RetryState, TransitionSuspense!StartTransition, TransitionSuspense!BeginTransitionRender, TransitionSuspense!RetryTransitionRender, TransitionSuspense!InterruptTransitionRender, TransitionSuspense!RetryInterruptedRender
    <3>2. QED
      BY <3>1
  <2>2. CASE TransitionSuspense!SuspendTransitionRender
    <3>1. /\ state.suspended = 0 /\ state.committed = 0 /\ state'.committed = state.committed
          /\ state'.suspended = 1 /\ state'.resolved = state.resolved
      BY <2>2 DEF RetryInv, RetryState, TransitionSuspense!SuspendTransitionRender
    <3>2. QED
      BY <3>1
  <2>3. CASE TransitionSuspense!ResolveSuspension
    <3>1. /\ state.suspended = 1 /\ state.resolved = 0 /\ state'.committed = state.committed
          /\ state'.suspended = 1 /\ state'.resolved = 1
      BY <2>3 DEF RetryInv, RetryState, TransitionSuspense!ResolveSuspension
    <3>2. QED
      BY <3>1
  <2>4. CASE TransitionSuspense!CommitTransitionContent
    <3>1. /\ state.committed = 0 /\ (state.suspended = 0 \/ state.resolved = 1)
          /\ state'.committed = 1 /\ state'.suspended = state.suspended
          /\ state'.resolved = state.resolved
      BY <2>4 DEF RetryInv, RetryState, TransitionSuspense!CommitTransitionContent
    <3>2. QED
      BY <3>1
  <2>5. QED
    BY <2>1, <2>2, <2>3, <2>4 DEF TransitionSuspense!HostStep, TransitionSuspense!Request
<1>4. /\ suspended \in BOOLEAN /\ resolved \in BOOLEAN
      /\ suspended1 \in BOOLEAN /\ resolved1 \in BOOLEAN
  OBVIOUS
<1> HIDE DEF screen, suspended, resolved, screen1, suspended1, resolved1
<1>5. QED
  BY <1>1, <1>2, <1>3, <1>4, UpdateSteps


LEMMA FallbackUpdates ==
  ASSUME machine = "fallback", machine' = "fallback", FallbackInv, FallbackInv',
         Fallback!HostStep \/ Fallback!Request
  PROVE  [Suspending!Next]_Seen
<1> DEFINE screen == IF state.fallback_visible = 1 THEN "fallback"
                     ELSE IF state.committed = 1 THEN "new"
                     ELSE IF state.content_visible = 1 THEN "old" ELSE "nothing"
           suspended == state.suspended = 1
           resolved == state.resolved = 1
           screen1 == IF state'.fallback_visible = 1 THEN "fallback"
                     ELSE IF state'.committed = 1 THEN "new"
                     ELSE IF state'.content_visible = 1 THEN "old" ELSE "nothing"
           suspended1 == state'.suspended = 1
           resolved1 == state'.resolved = 1
<1>1. /\ Screen = screen /\ IsSuspended = suspended /\ IsResolved = resolved
  BY DEF FallbackInv, Screen, IsSuspended, IsResolved, Fallback!Screen
<1>2. /\ Screen' = screen1 /\ IsSuspended' = suspended1
      /\ IsResolved' = resolved1
  BY DEF FallbackInv, Screen, IsSuspended, IsResolved, Fallback!Screen

<1>3. \/ screen1 = screen /\ suspended1 = suspended /\ resolved1 = resolved
      \/ /\ ~suspended /\ screen # "new"
         /\ screen1 = screen /\ suspended1 /\ resolved1 = resolved
      \/ /\ suspended /\ machine # "retry" /\ screen \in {"nothing", "old"}
         /\ screen1 = "fallback" /\ suspended1 /\ resolved1 = resolved
      \/ suspended /\ ~resolved /\ screen1 = screen /\ suspended1 /\ resolved1
      \/ /\ screen # "new" /\ (suspended => resolved)
         /\ screen1 = "new" /\ suspended1 = suspended /\ resolved1 = resolved
  <2>1. CASE \/ Fallback!StartUpdate
             \/ Fallback!BeginRender
             \/ Fallback!RetryRender
    <3>1. /\ state'.committed = state.committed /\ state'.suspended = state.suspended
          /\ state'.resolved = state.resolved
          /\ state'.content_visible = state.content_visible
          /\ state'.fallback_visible = state.fallback_visible
      BY <2>1 DEF FallbackInv, FallbackState, Fallback!reactSuspenseFallbackSafe, Fallback!StartUpdate, Fallback!BeginRender, Fallback!RetryRender
    <3>2. QED
      BY <3>1
  <2>2. CASE Fallback!SuspendRender
    <3>1. /\ state.suspended = 0 /\ state.committed = 0 /\ state'.committed = 0
          /\ state'.suspended = 1 /\ state'.resolved = state.resolved
          /\ state'.content_visible = state.content_visible
          /\ state'.fallback_visible = state.fallback_visible
      BY <2>2 DEF FallbackInv, FallbackState, Fallback!reactSuspenseFallbackSafe, Fallback!SuspendRender
    <3>2. QED
      BY <3>1
  <2>3. CASE Fallback!CommitFallbackAfterSuspension
    <3>1. /\ state.suspended = 1 /\ state.committed = 0 /\ state.fallback_visible # 1
          /\ state'.suspended = 1 /\ state'.resolved = state.resolved
          /\ state'.fallback_visible = 1
      BY <2>3 DEF FallbackInv, FallbackState, Fallback!reactSuspenseFallbackSafe, Fallback!CommitFallbackAfterSuspension
    <3>2. QED
      BY <3>1
  <2>4. CASE Fallback!ResolveSuspension
    <3>1. /\ state.suspended = 1 /\ state.resolved = 0 /\ state'.committed = state.committed
          /\ state'.suspended = 1 /\ state'.resolved = 1
          /\ state'.content_visible = state.content_visible
          /\ state'.fallback_visible = state.fallback_visible
      BY <2>4 DEF FallbackInv, FallbackState, Fallback!reactSuspenseFallbackSafe, Fallback!ResolveSuspension
    <3>2. QED
      BY <3>1
  <2>5. CASE Fallback!CommitContent
    <3>1. /\ state.committed = 0 /\ (state.suspended = 0 \/ state.resolved = 1)
          /\ state'.committed = 1 /\ state'.suspended = state.suspended
          /\ state'.resolved = state.resolved /\ state'.fallback_visible = 0
      BY <2>5 DEF FallbackInv, FallbackState, Fallback!reactSuspenseFallbackSafe, Fallback!CommitContent
    <3>2. QED
      BY <3>1
  <2>6. QED
    BY <2>1, <2>2, <2>3, <2>4, <2>5 DEF Fallback!HostStep, Fallback!Request
<1>4. /\ suspended \in BOOLEAN /\ resolved \in BOOLEAN
      /\ suspended1 \in BOOLEAN /\ resolved1 \in BOOLEAN
  OBVIOUS
<1> HIDE DEF screen, suspended, resolved, screen1, suspended1, resolved1
<1>5. QED
  BY <1>1, <1>2, <1>3, <1>4, UpdateSteps


LEMMA BoundaryUpdates ==
  ASSUME machine = "boundary", machine' = "boundary", BoundaryInv, BoundaryInv',
         Boundary!Next
  PROVE  [Suspending!Next]_Seen
<1> DEFINE screen == IF state.primary_committed = 1 THEN "new"
                     ELSE IF state.fallback_committed = 1 THEN "fallback" ELSE "nothing"
           suspended == state.primary_suspended = 1
           resolved == state.primary_suspension_resolved = 1
           screen1 == IF state'.primary_committed = 1 THEN "new"
                     ELSE IF state'.fallback_committed = 1 THEN "fallback" ELSE "nothing"
           suspended1 == state'.primary_suspended = 1
           resolved1 == state'.primary_suspension_resolved = 1
<1>1. /\ Screen = screen /\ IsSuspended = suspended /\ IsResolved = resolved
  BY DEF BoundaryInv, Screen, IsSuspended, IsResolved, Boundary!Screen
<1>2. /\ Screen' = screen1 /\ IsSuspended' = suspended1
      /\ IsResolved' = resolved1
  BY DEF BoundaryInv, Screen, IsSuspended, IsResolved, Boundary!Screen

<1>3. \/ screen1 = screen /\ suspended1 = suspended /\ resolved1 = resolved
      \/ /\ ~suspended /\ screen # "new"
         /\ screen1 = screen /\ suspended1 /\ resolved1 = resolved
      \/ /\ suspended /\ machine # "retry" /\ screen \in {"nothing", "old"}
         /\ screen1 = "fallback" /\ suspended1 /\ resolved1 = resolved
      \/ suspended /\ ~resolved /\ screen1 = screen /\ suspended1 /\ resolved1
      \/ /\ screen # "new" /\ (suspended => resolved)
         /\ screen1 = "new" /\ suspended1 = suspended /\ resolved1 = resolved
  <2>1. ASSUME NEW i, \/ Boundary!SetupFallback(i) \/ Boundary!CleanupFallback(i)
                      \/ Boundary!SetupPrimary(i)
        PROVE  screen1 = screen /\ suspended1 = suspended /\ resolved1 = resolved
    <3>1. /\ state'.primary_suspended = state.primary_suspended
          /\ state'.primary_suspension_resolved = state.primary_suspension_resolved
          /\ state'.fallback_committed = state.fallback_committed
          /\ state'.primary_committed = state.primary_committed
      BY <2>1 DEF BoundaryInv, BoundaryState, Boundary!suspenseBoundarySafe, Boundary!SetupFallback, Boundary!CleanupFallback, Boundary!SetupPrimary
    <3>2. QED
      BY <3>1
  <2>2. CASE Boundary!SuspendPrimary
    <3>1. /\ state.primary_suspended = 0 /\ state.primary_committed = 0
          /\ state'.primary_suspended = 1
          /\ state'.primary_suspension_resolved = state.primary_suspension_resolved
          /\ state'.fallback_committed = state.fallback_committed
          /\ state'.primary_committed = state.primary_committed
      BY <2>2 DEF BoundaryInv, BoundaryState, Boundary!suspenseBoundarySafe, Boundary!SuspendPrimary
    <3>2. QED
      BY <3>1
  <2>3. CASE Boundary!CommitFallback
    <3>1. /\ state.primary_suspended = 1 /\ state.fallback_committed = 0
          /\ state.primary_committed = 0 /\ state'.primary_suspended = 1
          /\ state'.primary_suspension_resolved = state.primary_suspension_resolved
          /\ state'.fallback_committed = 1 /\ state'.primary_committed = 0
      BY <2>3 DEF BoundaryInv, BoundaryState, Boundary!suspenseBoundarySafe, Boundary!CommitFallback
    <3>2. QED
      BY <3>1
  <2>4. CASE Boundary!ResolvePrimarySuspension
    <3>1. /\ state.primary_suspended = 1 /\ state.primary_suspension_resolved = 0
          /\ state'.primary_suspended = 1 /\ state'.primary_suspension_resolved = 1
          /\ state'.fallback_committed = state.fallback_committed
          /\ state'.primary_committed = state.primary_committed
      BY <2>4 DEF BoundaryInv, BoundaryState, Boundary!suspenseBoundarySafe, Boundary!ResolvePrimarySuspension
    <3>2. QED
      BY <3>1
  <2>5. CASE Boundary!RevealPrimary
    <3>1. /\ state.primary_committed = 0 /\ state.primary_suspension_resolved = 1
          /\ state'.primary_suspended = state.primary_suspended
          /\ state'.primary_suspension_resolved = 1 /\ state'.primary_committed = 1
      BY <2>5 DEF BoundaryInv, BoundaryState, Boundary!suspenseBoundarySafe, Boundary!RevealPrimary
    <3>2. QED
      BY <3>1
  <2>6. QED
    BY <2>1, <2>2, <2>3, <2>4, <2>5 DEF Boundary!Next, Boundary!Step
<1>4. /\ suspended \in BOOLEAN /\ resolved \in BOOLEAN
      /\ suspended1 \in BOOLEAN /\ resolved1 \in BOOLEAN
  OBVIOUS
<1> HIDE DEF screen, suspended, resolved, screen1, suspended1, resolved1
<1>5. QED
  BY <1>1, <1>2, <1>3, <1>4, UpdateSteps


LEMMA TreeUpdates ==
  ASSUME machine = "tree", machine' = "tree", TreeInv, TreeInv',
         SuspenseTree!LeavesHaveOwners, SuspenseTree!Next
  PROVE  [Suspending!Next]_Seen
<1> DEFINE screen == IF state.leaf_committed = 1 THEN "new"
                     ELSE IF state.fallback_owner > 0 THEN "fallback" ELSE "nothing"
           suspended == state.suspension_leaf > 0
           resolved == state.suspension_resolved = 1
           screen1 == IF state'.leaf_committed = 1 THEN "new"
                     ELSE IF state'.fallback_owner > 0 THEN "fallback" ELSE "nothing"
           suspended1 == state'.suspension_leaf > 0
           resolved1 == state'.suspension_resolved = 1
<1>1. /\ Screen = screen /\ IsSuspended = suspended /\ IsResolved = resolved
  BY DEF TreeInv, Screen, IsSuspended, IsResolved, SuspenseTree!Screen
<1>2. /\ Screen' = screen1 /\ IsSuspended' = suspended1
      /\ IsResolved' = resolved1
  BY DEF TreeInv, Screen, IsSuspended, IsResolved, SuspenseTree!Screen

<1>3. \/ screen1 = screen /\ suspended1 = suspended /\ resolved1 = resolved
      \/ /\ ~suspended /\ screen # "new"
         /\ screen1 = screen /\ suspended1 /\ resolved1 = resolved
      \/ /\ suspended /\ machine # "retry" /\ screen \in {"nothing", "old"}
         /\ screen1 = "fallback" /\ suspended1 /\ resolved1 = resolved
      \/ suspended /\ ~resolved /\ screen1 = screen /\ suspended1 /\ resolved1
      \/ /\ screen # "new" /\ (suspended => resolved)
         /\ screen1 = "new" /\ suspended1 = suspended /\ resolved1 = resolved
  <2>1. ASSUME NEW i \in DOMAIN SuspenseTree!Leaves, SuspenseTree!SuspendLeaf(i)
        PROVE  /\ ~suspended /\ screen # "new"
               /\ screen1 = screen /\ suspended1 /\ resolved1 = resolved
    <3>1. /\ state.suspension_leaf = 0 /\ state.leaf_committed = 0 /\ state'.suspension_leaf = i
          /\ state'.leaf_committed = state.leaf_committed
          /\ state'.fallback_owner = state.fallback_owner
          /\ state'.suspension_resolved = state.suspension_resolved
      BY <2>1 DEF TreeInv, TreeState, SuspenseTree!suspenseTreeSafe, SuspenseTree!SuspendLeaf
    <3> DEFINE nodes == UNION {SuspenseTree!Range(component.nodes[b]) : b \in DOMAIN component.nodes}
               leaf == [node : nodes, owner : 1 .. Len(SuspenseTree!Boundaries)]
    <3>2. i \in Nat /\ i > 0
      <4>1. SuspenseTree!Leaves \in Seq(leaf)
        BY DEF SuspenseTree!LeavesHaveOwners, TreeInv, SuspenseTree!Leaves,
               SuspenseTree!Boundaries
      <4> HIDE DEF leaf
      <4>2. DOMAIN SuspenseTree!Leaves = 1 .. Len(SuspenseTree!Leaves)
        BY <4>1
      <4>3. QED
        BY <4>2
    <3>3. QED
      BY <3>1, <3>2
  <2>2. ASSUME NEW b \in DOMAIN SuspenseTree!Boundaries, SuspenseTree!CommitFallback(b)
        PROVE  /\ suspended /\ machine # "retry" /\ screen \in {"nothing", "old"}
               /\ screen1 = "fallback" /\ suspended1 /\ resolved1 = resolved
    <3>1. /\ state.suspension_owner = b /\ state.fallback_owner = 0
          /\ state'.suspension_leaf = state.suspension_leaf /\ state'.fallback_owner = b
          /\ state'.leaf_committed = state.leaf_committed
          /\ state'.suspension_resolved = state.suspension_resolved
      BY <2>2 DEF TreeInv, TreeState, SuspenseTree!suspenseTreeSafe, SuspenseTree!CommitFallback
    <3>2. b \in Nat /\ b > 0
      BY DEF SuspenseTree!LeavesHaveOwners, TreeInv, SuspenseTree!Boundaries
    <3>3. state.suspension_leaf > 0 /\ state.leaf_committed # 1
      BY <3>1, <3>2 DEF TreeInv, TreeState, SuspenseTree!suspenseTreeSafe
    <3>4. QED
      BY <3>1, <3>2, <3>3
  <2>3. CASE SuspenseTree!ResolveSuspension
    <3>1. /\ state.suspension_leaf > 0 /\ state.suspension_resolved = 0
          /\ state'.suspension_leaf = state.suspension_leaf /\ state'.suspension_resolved = 1
          /\ state'.leaf_committed = state.leaf_committed
          /\ state'.fallback_owner = state.fallback_owner
      BY <2>3 DEF TreeInv, TreeState, SuspenseTree!suspenseTreeSafe, SuspenseTree!ResolveSuspension
    <3>2. QED
      BY <3>1
  <2>4. CASE SuspenseTree!RevealLeaf
    <3>1. /\ state.leaf_committed = 0 /\ state.suspension_resolved = 1
          /\ state'.suspension_leaf = state.suspension_leaf
          /\ state'.suspension_resolved = state.suspension_resolved
          /\ state'.leaf_committed = 1
      BY <2>4 DEF TreeInv, TreeState, SuspenseTree!suspenseTreeSafe, SuspenseTree!RevealLeaf
    <3>2. QED
      BY <3>1
  <2>5. QED
    BY <2>1, <2>2, <2>3, <2>4 DEF SuspenseTree!Next, SuspenseTree!Step
<1>4. /\ suspended \in BOOLEAN /\ resolved \in BOOLEAN
      /\ suspended1 \in BOOLEAN /\ resolved1 \in BOOLEAN
  OBVIOUS
<1> HIDE DEF screen, suspended, resolved, screen1, suspended1, resolved1
<1>5. QED
  BY <1>1, <1>2, <1>3, <1>4, UpdateSteps

LEMMA SuspendingStarts ==
  ASSUME ReactInit
  PROVE  Suspending!Init
<1> USE DEF Screen, IsSuspended, IsResolved, Suspending!Init, ReactInit
<1>1. CASE machine = "retry"
  BY <1>1 DEF TransitionSuspense!Init, TransitionSuspense!Screen
<1>2. CASE machine = "fallback"
  BY <1>2 DEF Fallback!Init, Fallback!Screen
<1>3. CASE machine = "boundary"
  BY <1>3 DEF Boundary!Init, Boundary!Screen
<1>4. CASE machine = "tree"
  BY <1>4 DEF SuspenseTree!Init, SuspenseTree!Screen
<1>5. CASE machine \notin {"retry", "fallback", "boundary", "tree"}
  BY <1>5
<1>6. QED
  BY <1>1, <1>2, <1>3, <1>4, <1>5

LEMMA SuspendingStep ==
  ASSUME ReactInv, ReactInv', [ReactNext]_react
  PROVE  [Suspending!Next]_Seen
<1>1. CASE UNCHANGED react
  BY <1>1 DEF react, Seen, Screen, IsSuspended, IsResolved,
     TransitionSuspense!Screen, Fallback!Screen, Boundary!Screen,
     SuspenseTree!Screen
<1>2. CASE ReactNext
  <2>1. machine' = machine
    BY <1>2 DEF ReactNext
  <2>2. CASE machine = "retry"
    BY <1>2, <2>1, <2>2, RetryUpdates DEF ReactInv, ReactNext, HostStep, Other
  <2>3. CASE machine = "fallback"
    BY <1>2, <2>1, <2>3, FallbackUpdates DEF ReactInv, ReactNext, HostStep, Other
  <2>4. CASE machine = "boundary"
    BY <1>2, <2>1, <2>4, BoundaryUpdates DEF ReactInv, ReactNext, HostStep, Other
  <2>5. CASE machine = "tree"
    BY <1>2, <2>1, <2>5, ComponentAssumption, TreeUpdates DEF ReactInv, ReactNext, HostStep, Other
  <2>6. CASE machine \notin {"retry", "fallback", "boundary", "tree"}
    BY <2>1, <2>6 DEF Seen, Screen, IsSuspended, IsResolved
  <2>7. QED
    BY <2>2, <2>3, <2>4, <2>5, <2>6
<1>3. QED
  BY <1>1, <1>2

\* The four machines with a fallback implement what a user sees of one suspended update:
\* never the new content before its data, and no fallback over content a Transition keeps.
THEOREM SuspendedUpdateImplemented == ReactSpec => ImplementsSuspendedUpdate
<1>1. ReactInit => ReactInv /\ Suspending!Init
  BY ReactStarts, SuspendingStarts
<1>2. ReactInv /\ [ReactNext]_react => ReactInv'
  BY ReactStays
<1>3. ReactInv /\ ReactInv' /\ [ReactNext]_react =>
        [Suspending!Next]_<<Screen, IsSuspended, IsResolved, machine = "retry">>
  BY SuspendingStep DEF Seen
<1>4. QED
  BY <1>1, <1>2, <1>3, PTL DEF ReactSpec, ImplementsSuspendedUpdate, Suspending!Spec

-----------------------------------------------------------------------------
\* The callbacks of the event loop.
CallbackState ==
  [pending : BOOLEAN, due : Nat, fires : Nat, removed : BOOLEAN, aborted : BOOLEAN,
   priority : Nat, step : Nat]

CallbacksTyped ==
  /\ program \in Program
  /\ callback \in [Callbacks -> CallbackState]

\* What every program says of its callbacks.
LEMMA CallbackShape ==
  ASSUME program \in Program, NEW t \in Callbacks
  PROVE  /\ Callbacks \subseteq Nat \ {0} /\ FireBound \in Nat
         /\ C[t].queue \in {"microtask", "animation-frame", "timer", "scheduler-task", "external"}
         /\ C[t].delay \in Nat /\ C[t].repeats \in BOOLEAN /\ C[t].parent \in Nat
         /\ C[t].priority \in Nat /\ C[t].changes \in Seq(Nat) /\ C[t].externalSignal \in BOOLEAN
         /\ C[t].preAborted \in BOOLEAN /\ C[t].cleared \in BOOLEAN /\ C[t].listener \in BOOLEAN
         /\ C[t].parent < t /\ C[t].abortTimer \in {0} \cup Callbacks
         /\ C[t].composition \in Nat /\ C[t].parent \in {0} \cup Callbacks
<1>1. /\ program.callbacks \in Seq(CallbackFields)
      /\ program.callbacks[t].parent < t
      /\ program.callbacks[t].abortTimer \in {0} \cup DOMAIN program.callbacks
      /\ FireBound \in Nat /\ t \in DOMAIN program.callbacks
  BY ProgramAssumption, Zenon DEF C, Callbacks
<1>2. DOMAIN program.callbacks \subseteq Nat \ {0}
  BY <1>1
<1>3. program.callbacks[t] \in CallbackFields
  BY <1>1, ElementOfSeq
<1>4. program.callbacks[t].parent \in {0} \cup DOMAIN program.callbacks
  <2>1. program.callbacks[t].parent \in Nat
    BY <1>3 DEF CallbackFields
  <2>2. \A n \in Nat : n < t => n \in {0} \cup DOMAIN program.callbacks
    BY <1>1
  <2>3. QED
    BY <1>1, <2>1, <2>2
<1>5. QED
  BY <1>1, <1>2, <1>3, <1>4 DEF C, Callbacks, CallbackFields

\* What running a callback does to the callbacks.
LEMMA RanFacts ==
  ASSUME program \in Program, NEW t \in Callbacks, NEW a,
         NEW f \in [Callbacks -> CallbackState], Ran(t, a, f)
  PROVE  /\ callback' \in [Callbacks -> CallbackState]
         /\ \A u \in Callbacks :
              /\ callback'[u].pending <=>
                   f[u].pending \/ u \in ChildrenIn(program, "scheduler-task", t, a)
              /\ callback'[u].aborted = f[u].aborted /\ callback'[u].removed = f[u].removed
              /\ u \in ChildrenIn(program, "scheduler-task", t, a) =>
                   C[u].queue = "scheduler-task" /\ C[u].parent # 0
<1> DEFINE tasks == ChildrenIn(program, "scheduler-task", t, a)
           more == IF f[t].fires < FireBound THEN f[t].fires + 1 ELSE FireBound
           counted == [f EXCEPT ![t].fires = more]
<1>1. more \in Nat /\ FireBound \in Nat
  <2>1. FireBound \in Nat /\ f[t].fires \in Nat
    BY ProgramAssumption, Zenon DEF CallbackState
  <2>2. QED
    BY <2>1
<1>2. counted \in [Callbacks -> CallbackState]
  BY <1>1 DEF CallbackState
<1>3. \A u \in Callbacks : /\ counted[u].pending = f[u].pending
                           /\ counted[u].aborted = f[u].aborted
                           /\ counted[u].removed = f[u].removed
  BY DEF CallbackState
<1>4. \A u \in tasks : C[u].queue = "scheduler-task" /\ C[u].parent # 0
  BY CallbackShape DEF ChildrenIn, C, Callbacks
<1>5. callback' = [u \in Callbacks |->
        IF u \in tasks THEN [counted[u] EXCEPT !.pending = TRUE, !.due = C[u].delay]
        ELSE counted[u]]
  BY DEF Ran
<1> HIDE DEF counted, tasks, more
<1>6. ASSUME NEW u \in Callbacks
      PROVE  /\ callback'[u] \in CallbackState
             /\ callback'[u].pending <=> f[u].pending \/ u \in tasks
             /\ callback'[u].aborted = f[u].aborted /\ callback'[u].removed = f[u].removed
  <2>1. C[u].delay \in Nat /\ counted[u] \in CallbackState
    BY <1>2, CallbackShape
  <2>2. CASE u \in tasks
    <3>1. callback'[u] = [counted[u] EXCEPT !.pending = TRUE, !.due = C[u].delay]
      BY <1>5, <2>2
    <3>2. QED
      BY <1>3, <2>1, <2>2, <3>1 DEF CallbackState
  <2>3. CASE u \notin tasks
    BY <1>3, <1>5, <2>1, <2>3
  <2>4. QED
    BY <2>2, <2>3
<1>7. callback' \in [Callbacks -> CallbackState]
  BY <1>5, <1>6, Zenon
<1>8. QED
  BY <1>4, <1>6, <1>7 DEF tasks

\* What a step does to the callbacks: only a scheduler task that is registered by
\* another callback, or an external event, becomes pending.
CallbacksMove ==
  /\ program' = program
  /\ callback' \in [Callbacks -> CallbackState]
  /\ \A u \in Callbacks :
       /\ callback'[u].pending /\ ~callback[u].pending =>
            \/ C[u].queue = "scheduler-task" /\ C[u].parent # 0
            \/ C[u].queue = "external" /\ ~callback[u].aborted /\ ~callback[u].removed
       /\ callback'[u].aborted /\ ~callback[u].aborted =>
            C[u].externalSignal /\ ~callback'[u].pending
       /\ callback'[u].removed /\ ~callback[u].removed =>
            C[u].listener /\ ~callback'[u].pending

\* A step that runs a callback.
LEMMA RunMoves ==
  ASSUME CallbacksTyped, NEW t \in Callbacks, NEW a,
         NEW f \in [Callbacks -> CallbackState], Ran(t, a, f), program' = program,
         \A u \in Callbacks : /\ f[u].pending => callback[u].pending
                              /\ f[u].aborted = callback[u].aborted
                              /\ f[u].removed = callback[u].removed
  PROVE  CallbacksMove
<1>1. /\ callback' \in [Callbacks -> CallbackState]
      /\ \A u \in Callbacks :
           /\ callback'[u].pending <=>
                f[u].pending \/ u \in ChildrenIn(program, "scheduler-task", t, a)
           /\ callback'[u].aborted = f[u].aborted /\ callback'[u].removed = f[u].removed
           /\ u \in ChildrenIn(program, "scheduler-task", t, a) =>
                C[u].queue = "scheduler-task" /\ C[u].parent # 0
  BY RanFacts DEF CallbacksTyped
<1>2. QED
  BY <1>1 DEF CallbacksMove

LEMMA CallbacksMoveSo ==
  ASSUME CallbacksTyped, Step
  PROVE  CallbacksMove
<1>1. program \in Program /\ callback \in [Callbacks -> CallbackState]
  BY DEF CallbacksTyped
<1> DEFINE Same == program' = program /\ callback' = callback
<1>2. CASE Same
  BY <1>1, <1>2 DEF CallbacksMove
<1>3. ASSUME Checkpoint PROVE CallbacksMove
  <2>1. ASSUME NEW e \in Divergent(program), Diverge(e) \/ ReturnSettled(e) \/ ReturnPending(e)
        PROVE  Same
    BY <2>1 DEF Diverge, ReturnSettled, ReturnPending, Deciding
  <2>2. ASSUME NEW t \in Queued("microtask"), NEW a \in Alternatives(program, t),
               DrainMicrotask(t, a)
        PROVE  CallbacksMove
    BY <1>1, <2>2, RunMoves DEF DrainMicrotask, Queued, host
  <2>3. ASSUME NEW c \in DOMAIN program.chains, NEW s \in 1 .. program.chains[c].links,
               DrainReaction(c, s)
        PROVE  Same
    BY <2>3 DEF DrainReaction, host
  <2>4. CASE FinishMicrotaskCheckpoint
    BY <1>2, <2>4 DEF FinishMicrotaskCheckpoint, host
  <2>5. QED
    BY <1>2, <1>3, <2>1, <2>2, <2>3, <2>4 DEF Checkpoint
<1>4. ASSUME NEW t \in Callbacks, RunTask(t) PROVE CallbacksMove
  <2>1. ASSUME NEW a, RunAnimationFrame(t, a) \/ RunSchedulerTask(t, a)
        PROVE  CallbacksMove
    <3> DEFINE f == [callback EXCEPT ![t].pending = FALSE]
    <3>1. f \in [Callbacks -> CallbackState]
      BY <1>1 DEF CallbackState
    <3>2. \A u \in Callbacks : /\ f[u].pending => callback[u].pending
                               /\ f[u].aborted = callback[u].aborted
                               /\ f[u].removed = callback[u].removed
      BY <1>1 DEF CallbackState
    <3>3. Ran(t, a, f) /\ program' = program
      BY <2>1 DEF RunAnimationFrame, RunSchedulerTask, host
    <3> HIDE DEF f
    <3>4. QED
      BY <3>1, <3>2, <3>3, RunMoves
  <2>2. ASSUME RunExternalEvent(t) PROVE CallbacksMove
    <3> DEFINE f == [callback EXCEPT ![t].pending = FALSE]
    <3>1. f \in [Callbacks -> CallbackState]
      BY <1>1 DEF CallbackState
    <3>2. \A u \in Callbacks : /\ f[u].pending => callback[u].pending
                               /\ f[u].aborted = callback[u].aborted
                               /\ f[u].removed = callback[u].removed
      BY <1>1 DEF CallbackState
    <3>3. Ran(t, 0, f) /\ program' = program
      BY <2>2 DEF RunExternalEvent, host
    <3> HIDE DEF f
    <3>4. QED
      BY <3>1, <3>2, <3>3, RunMoves
  <2>3. ASSUME NEW a, RunTimer(t, a) PROVE CallbacksMove
    <3> DEFINE f == [callback EXCEPT ![t].pending = C[t].repeats,
                                     ![t].due = IF C[t].repeats THEN C[t].delay ELSE @]
    <3>1. C[t].repeats \in BOOLEAN /\ C[t].delay \in Nat
      BY <1>1, CallbackShape
    <3>2. f \in [Callbacks -> CallbackState]
      BY <1>1, <3>1 DEF CallbackState
    <3>3. callback[t].pending
      BY <2>3 DEF RunTimer, Eligible
    <3>4. \A u \in Callbacks : /\ f[u].pending => callback[u].pending
                               /\ f[u].aborted = callback[u].aborted
                               /\ f[u].removed = callback[u].removed
      BY <1>1, <3>3 DEF CallbackState
    <3>5. Ran(t, a, f) /\ program' = program
      BY <2>3 DEF RunTimer, host
    <3> HIDE DEF f
    <3>6. QED
      BY <3>2, <3>4, <3>5, RunMoves
  <2>4. QED
    BY <1>4, <2>1, <2>2, <2>3 DEF RunTask
<1>5. ASSUME Turn PROVE CallbacksMove
  <2>1. CASE AdvanceClock
    <3>1. program' = program
      BY <2>1 DEF AdvanceClock, host
    <3>2. ASSUME NEW t \in Callbacks
          PROVE  /\ callback'[t] = [callback[t] EXCEPT !.due = IF @ = 0 THEN 0 ELSE @ - 1]
                 /\ callback'[t] \in CallbackState
                 /\ callback'[t].pending = callback[t].pending
                 /\ callback'[t].aborted = callback[t].aborted
                 /\ callback'[t].removed = callback[t].removed
      BY <1>1, <2>1, <3>2 DEF AdvanceClock, CallbackState
    <3>3. callback' \in [Callbacks -> CallbackState]
      BY <2>1, <3>2, Zenon DEF AdvanceClock
    <3>4. QED
      BY <3>1, <3>2, <3>3 DEF CallbacksMove
  <2>2. CASE Paint \/ SkipRenderingOpportunity \/ IdleTurn
    BY <1>2, <2>2 DEF Paint, SkipRenderingOpportunity, IdleTurn, host
  <2>3. QED
    BY <1>5, <2>1, <2>2 DEF Turn
<1>6. ASSUME Settle PROVE CallbacksMove
  <2>1. ASSUME NEW t \in Callbacks, Reprioritize(t) PROVE CallbacksMove
    <3>1. /\ C[t].changes \in Seq(Nat) /\ callback[t].step \in Nat
          /\ callback[t].step < Len(C[t].changes)
      BY <1>1, <2>1, CallbackShape DEF Reprioritize, CallbackState
    <3> DEFINE next == C[t].changes[callback[t].step + 1]
    <3>2. next \in Nat
      <4>1. callback[t].step + 1 \in 1 .. Len(C[t].changes)
        <5>1. Len(C[t].changes) \in Nat
          BY <3>1
        <5>2. QED
          BY <3>1, <5>1
      <4>2. QED
        BY <3>1, <4>1, ElementOfSeq, Zenon DEF next
    <3>3. program' = program
      BY <2>1 DEF Reprioritize, host
    <3>4. callback' = [callback EXCEPT ![t].priority = next, ![t].step = @ + 1]
      BY <2>1 DEF Reprioritize
    <3> HIDE DEF next
    <3>5. callback' \in [Callbacks -> CallbackState]
      <4>1. callback[t] \in CallbackState /\ callback[t].step + 1 \in Nat
        BY <1>1, <3>1
      <4>2. [[callback[t] EXCEPT !.priority = next] EXCEPT !.step = callback[t].step + 1] \in CallbackState
        BY <3>2, <4>1 DEF CallbackState
      <4>3. callback' = [callback EXCEPT ![t] =
              [[callback[t] EXCEPT !.priority = next] EXCEPT !.step = callback[t].step + 1]]
        BY <1>1, <3>4, <4>1 DEF CallbackState
      <4>4. QED
        BY <1>1, <4>2, <4>3, Zenon
    <3>6. \A u \in Callbacks : /\ callback'[u].pending = callback[u].pending
                               /\ callback'[u].aborted = callback[u].aborted
                               /\ callback'[u].removed = callback[u].removed
      BY <1>1, <3>4 DEF CallbackState
    <3>7. QED
      BY <3>3, <3>5, <3>6 DEF CallbacksMove
  <2>2. ASSUME NEW c, NEW k, ChooseAbortPath(c, k) PROVE Same
    BY <2>2 DEF ChooseAbortPath, host
  <2>3. QED
    BY <1>2, <1>6, <2>1, <2>2 DEF Settle
<1>7. ASSUME Environment PROVE CallbacksMove
  <2>1. ASSUME NEW t \in Callbacks, CancelAborted(t) \/ CancelTimer(t)
        PROVE  CallbacksMove
    <3>1. /\ program' = program /\ callback' = [callback EXCEPT ![t].pending = FALSE]
      BY <2>1 DEF CancelAborted, CancelTimer, host
    <3>2. QED
      BY <1>1, <3>1 DEF CallbacksMove, CallbackState
  <2>2. ASSUME NEW t \in Callbacks, CancelFromExternalSignal(t) PROVE CallbacksMove
    <3>1. /\ program' = program /\ C[t].externalSignal
          /\ callback' = [callback EXCEPT ![t].pending = FALSE, ![t].aborted = TRUE]
      BY <2>2 DEF CancelFromExternalSignal, host
    <3>2. QED
      BY <1>1, <3>1 DEF CallbacksMove, CallbackState
  <2>3. ASSUME NEW t \in Queued("external"), CompleteExternal(t) PROVE CallbacksMove
    <3>1. /\ program' = program /\ t \in Callbacks /\ C[t].queue = "external"
          /\ ~callback[t].aborted /\ ~callback[t].removed
          /\ callback' = [callback EXCEPT ![t].pending = TRUE]
      BY <2>3 DEF CompleteExternal, host, Queued
    <3>2. QED
      BY <1>1, <3>1 DEF CallbacksMove, CallbackState
  <2>4. ASSUME NEW t \in Callbacks, RemoveListener(t) PROVE CallbacksMove
    <3>1. /\ program' = program /\ C[t].listener
          /\ callback' = [callback EXCEPT ![t].pending = FALSE, ![t].removed = TRUE]
      BY <2>4 DEF RemoveListener, host
    <3>2. QED
      BY <1>1, <3>1 DEF CallbacksMove, CallbackState
  <2>5. ASSUME NEW c, NEW s, AbortFrom(c, s) PROVE Same
    BY <2>5 DEF AbortFrom, host
  <2>6. QED
    BY <1>2, <1>7, <2>1, <2>2, <2>3, <2>4, <2>5 DEF Environment, Queued, Tasks
<1>8. QED
  BY <1>3, <1>4, <1>5, <1>6, <1>7 DEF Step

LEMMA CallbacksStart ==
  ASSUME Init
  PROVE  /\ CallbacksTyped
         /\ \A t \in Callbacks :
              /\ callback[t].pending => C[t].queue # "external"
              /\ callback[t].removed => C[t].listener
              /\ ~callback[t].aborted
<1>1. program \in Program
  BY DEF Init
<1>2. ASSUME NEW t \in Callbacks
      PROVE  /\ callback[t] \in CallbackState
             /\ callback[t].pending => C[t].queue # "external"
             /\ callback[t].removed => C[t].listener
             /\ ~callback[t].aborted
  BY <1>1, CallbackShape DEF Init, CallbackState
<1>3. callback \in [Callbacks -> CallbackState]
  BY <1>2, Zenon DEF Init
<1>4. QED
  BY <1>1, <1>2, <1>3 DEF CallbacksTyped

LEMMA CallbacksStay ==
  ASSUME CallbacksTyped, [Next]_vars
  PROVE  CallbacksMove /\ CallbacksTyped'
<1>1. CallbacksMove
  <2>1. CASE Next
    BY <2>1, CallbacksMoveSo DEF Next
  <2>2. CASE UNCHANGED vars
    BY <2>2 DEF CallbacksMove, CallbacksTyped, vars
  <2>3. QED
    BY <2>1, <2>2
<1>2. QED
  BY <1>1 DEF CallbacksMove, CallbacksTyped, Callbacks, C

-----------------------------------------------------------------------------
\* Cancellation.

\* What has been aborted or removed is not pending, unless an earlier task registers it.
GoneInv ==
  \A t \in Tasks \cup Queued("external") :
    (t \in Tasks => C[t].parent = 0) /\ (callback[t].aborted \/ callback[t].removed) =>
      ~callback[t].pending

LEMMA GoneStays ==
  ASSUME CallbacksTyped, GoneInv, [Next]_vars
  PROVE  GoneInv'
<1>1. CallbacksMove
  BY CallbacksStay
<1>2. /\ C' = C /\ Tasks' = Tasks /\ Queued("external")' = Queued("external")
      /\ \A t \in Tasks : t \in Callbacks /\ C[t].queue = "scheduler-task"
      /\ \A t \in Queued("external") : t \in Callbacks /\ C[t].queue = "external"
  BY <1>1 DEF CallbacksMove, Tasks, Queued, Callbacks, C
<1>3. ASSUME NEW t \in Tasks \cup Queued("external"), t \in Tasks => C[t].parent = 0,
             callback'[t].aborted \/ callback'[t].removed, callback'[t].pending
      PROVE  FALSE
  <2>1. t \in Callbacks
    BY <1>2
  <2>2. callback[t].aborted \/ callback[t].removed
    BY <1>1, <1>3, <2>1 DEF CallbacksMove
  <2>3. ~callback[t].pending
    BY <1>3, <2>2 DEF GoneInv
  <2>4. C[t].queue = "scheduler-task" /\ C[t].parent # 0
    BY <1>1, <1>3, <2>1, <2>2, <2>3 DEF CallbacksMove
  <2>5. QED
    BY <1>2, <1>3, <2>4
<1>4. QED
  BY <1>2, <1>3 DEF GoneInv

\* In every program, neither an external event nor a task the script registers runs after
\* its own signal has aborted it or it was removed, whenever the event had completed.
THEOREM CancelledStaysIdle == Spec => CancelledNeverRuns
<1>1. Init => CallbacksTyped /\ GoneInv
  <2> SUFFICES ASSUME Init PROVE CallbacksTyped /\ GoneInv
    OBVIOUS
  <2>1. CallbacksTyped /\ \A t \in Callbacks : ~callback[t].aborted
    BY CallbacksStart
  <2>2. ASSUME NEW t \in Callbacks, callback[t].removed PROVE ~callback[t].pending
    BY <2>2 DEF Init
  <2>3. QED
    BY <2>1, <2>2 DEF GoneInv, Tasks, Queued
<1>2. CallbacksTyped /\ GoneInv /\ [Next]_vars => (CallbacksTyped /\ GoneInv)'
  BY CallbacksStay, GoneStays
<1>3. ASSUME GoneInv, NEW t \in Tasks \cup Queued("external"), RunTask(t),
             t \in Tasks => C[t].parent = 0
      PROVE  ~callback[t].aborted /\ ~callback[t].removed
  <2>1. callback[t].pending
    BY <1>3 DEF RunTask, RunSchedulerTask, RunExternalEvent, RunAnimationFrame, RunTimer, Eligible
  <2>2. QED
    BY <1>3, <2>1 DEF GoneInv
<1>4. GoneInv =>
        [\A t \in Tasks \cup Queued("external") :
           RunTask(t) /\ (t \in Tasks => C[t].parent = 0) =>
             ~callback[t].aborted /\ ~callback[t].removed]_vars
  BY <1>3
<1>5. QED
  BY <1>1, <1>2, <1>4, PTL DEF Spec, CancelledNeverRuns

-----------------------------------------------------------------------------
\* Queues kept as tickets: no two waiting jobs have the same one.

Waits(tickets) == {j \in DOMAIN tickets : tickets[j] >= 0}

Distinct(s) == \A i, k \in DOMAIN s : s[i] = s[k] => i = k

\* The tickets of the jobs D amount to the queue q, and the next one is n.
Queues(D, tickets, n, q) ==
  /\ tickets \in [D -> Int] /\ n \in Nat /\ \A j \in D : tickets[j] < n
  /\ Sorts(q, Waits(tickets), tickets)

LEMMA QueueIs ==
  ASSUME NEW D, NEW tickets, NEW n, NEW q, Queues(D, tickets, n, q)
  PROVE  QueueOf(tickets) = q /\ q \in Seq(D) /\ Held(q) = Waits(tickets) /\ Waits(tickets) \subseteq D
<1>1. tickets \in [D -> Int] /\ Sorts(q, Waits(tickets), tickets)
  BY DEF Queues
<1>2. Waits(tickets) \subseteq D /\ \A x \in Waits(tickets) : tickets[x] \in Int
  BY <1>1 DEF Waits
<1>3. SortedBy(Waits(tickets), tickets) = q
  BY <1>1, <1>2, SortedIs
<1>4. q \in Seq(D)
  BY <1>1, <1>2, SeqMonotonic DEF Sorts
<1>5. QED
  BY <1>1, <1>2, <1>3, <1>4 DEF QueueOf, Waits, Sorts

\* New jobs get the next tickets in a row, and follow.
LEMMA QueueGrows ==
  ASSUME NEW D, NEW tickets, NEW n, NEW q, Queues(D, tickets, n, q),
         NEW jobs \in Seq(D), Distinct(jobs), \A i \in DOMAIN jobs : tickets[jobs[i]] < 0,
         NEW later \in [D -> Int], \A i \in DOMAIN jobs : later[jobs[i]] = n + i - 1,
         \A j \in D : j \notin Held(jobs) => later[j] = tickets[j]
  PROVE  Queues(D, later, n + Len(jobs), q \o jobs)
<1>1. /\ tickets \in [D -> Int] /\ n \in Nat /\ \A j \in D : tickets[j] < n
      /\ q \in Seq(Waits(tickets)) /\ Held(q) = Waits(tickets)
      /\ \A i, k \in DOMAIN q : i < k => tickets[q[i]] < tickets[q[k]]
  BY DEF Queues, Sorts
<1>2. /\ Len(q) \in Nat /\ DOMAIN q = 1 .. Len(q) /\ Len(jobs) \in Nat
      /\ DOMAIN jobs = 1 .. Len(jobs)
      /\ \A i \in DOMAIN q : q[i] \in D /\ q[i] \in Waits(tickets)
      /\ \A i \in DOMAIN jobs : jobs[i] \in D
      /\ Waits(tickets) \subseteq D
  BY <1>1 DEF Waits
<1>3. \A i \in DOMAIN q : q[i] \notin Held(jobs) /\ later[q[i]] = tickets[q[i]]
  BY <1>1, <1>2 DEF Held, Waits
<1>4. Waits(later) = Waits(tickets) \cup Held(jobs)
  <2>1. ASSUME NEW j \in D PROVE j \in Waits(later) <=> j \in Waits(tickets) \/ j \in Held(jobs)
    <3>1. CASE j \in Held(jobs)
      <4>1. PICK i \in DOMAIN jobs : j = jobs[i]
        BY <3>1 DEF Held
      <4>2. later[j] >= 0
        BY <1>1, <1>2, <4>1
      <4>3. QED
        BY <3>1, <4>2 DEF Waits
    <3>2. CASE j \notin Held(jobs)
      BY <1>1, <3>2 DEF Waits
    <3>3. QED
      BY <3>1, <3>2
  <2>2. Waits(later) \subseteq D /\ Waits(tickets) \subseteq D /\ Held(jobs) \subseteq D
    BY <1>1, <1>2 DEF Waits, Held
  <2>3. QED
    BY <2>1, <2>2
<1> DEFINE all == q \o jobs
<1>5. /\ all \in Seq(D) /\ Len(all) = Len(q) + Len(jobs) /\ DOMAIN all = 1 .. Len(q) + Len(jobs)
      /\ \A i \in 1 .. Len(q) : all[i] = q[i]
      /\ \A i \in Len(q) + 1 .. Len(q) + Len(jobs) : all[i] = jobs[i - Len(q)]
  <2>1. q \in Seq(D)
    BY <1>1, <1>2, SeqMonotonic
  <2>2. QED
    BY <1>2, <2>1, ConcatProperties
<1> HIDE DEF all
<1>a. ASSUME NEW i \in DOMAIN all, i > Len(q)
      PROVE  i - Len(q) \in DOMAIN jobs /\ all[i] = jobs[i - Len(q)]
  <2>1. i \in Len(q) + 1 .. Len(q) + Len(jobs) /\ i - Len(q) \in 1 .. Len(jobs)
    BY <1>2, <1>5, <1>a, SMTT(30)
  <2>2. all[i] = jobs[i - Len(q)]
    BY <1>5, <2>1
  <2>3. QED
    BY <1>2, <2>1, <2>2
<1>b. ASSUME NEW i \in DOMAIN jobs
      PROVE  Len(q) + i \in DOMAIN all /\ all[Len(q) + i] = jobs[i]
  <2>1. Len(q) + i \in Len(q) + 1 .. Len(q) + Len(jobs) /\ (Len(q) + i) - Len(q) = i
    BY <1>2
  <2>2. all[Len(q) + i] = jobs[(Len(q) + i) - Len(q)]
    BY <1>5, <2>1
  <2>3. QED
    BY <1>2, <1>5, <2>1, <2>2
<1>6. Held(all) = Waits(later)
  <2>1. ASSUME NEW i \in DOMAIN all PROVE all[i] \in Held(q) \cup Held(jobs)
    <3>1. CASE i <= Len(q)
      BY <1>2, <1>5, <2>1, <3>1 DEF Held
    <3>2. CASE i > Len(q)
      <4>1. i - Len(q) \in DOMAIN jobs /\ all[i] = jobs[i - Len(q)]
        BY <1>a, <3>2
      <4>2. QED
        BY <4>1 DEF Held
    <3>3. QED
      BY <1>2, <1>5, <2>1, <3>1, <3>2
  <2>2. ASSUME NEW i \in DOMAIN q PROVE q[i] \in Held(all)
    <3>1. i \in DOMAIN all /\ all[i] = q[i]
      BY <1>2, <1>5, <2>2
    <3>2. QED
      BY <3>1 DEF Held
  <2>3. ASSUME NEW i \in DOMAIN jobs PROVE jobs[i] \in Held(all)
    <3>1. Len(q) + i \in DOMAIN all /\ all[Len(q) + i] = jobs[i]
      BY <1>b
    <3>2. QED
      BY <3>1 DEF Held
  <2>4. QED
    BY <1>1, <1>4, <2>1, <2>2, <2>3 DEF Held
<1>7. all \in Seq(Waits(later))
  <2>1. \A i \in 1 .. Len(all) : all[i] \in Waits(later)
    BY <1>5, <1>6 DEF Held
  <2>2. QED
    BY <1>5, <2>1
<1>8. ASSUME NEW i \in DOMAIN all, NEW k \in DOMAIN all, i < k
      PROVE  later[all[i]] < later[all[k]]
  <2>1. i \in 1 .. Len(q) + Len(jobs) /\ k \in 1 .. Len(q) + Len(jobs)
    BY <1>5
  <2>2. CASE k <= Len(q)
    <3>1. /\ i \in DOMAIN q /\ k \in DOMAIN q /\ all[i] = q[i] /\ all[k] = q[k]
      BY <1>2, <1>5, <1>8, <2>1, <2>2
    <3>2. QED
      BY <1>1, <1>3, <1>8, <3>1
  <2>3. CASE i <= Len(q) /\ k > Len(q)
    <3>1. /\ i \in DOMAIN q /\ all[i] = q[i] /\ k - Len(q) \in DOMAIN jobs
          /\ all[k] = jobs[k - Len(q)]
      BY <1>2, <1>5, <1>a, <2>1, <2>3
    <3>2. later[all[i]] < n /\ later[all[i]] \in Int
      BY <1>1, <1>2, <1>3, <3>1
    <3>3. later[all[k]] = n + (k - Len(q)) - 1 /\ k - Len(q) \in Nat \ {0}
      BY <1>2, <3>1
    <3>4. QED
      BY <1>1, <3>2, <3>3
  <2>4. CASE i > Len(q)
    <3>1. /\ i - Len(q) \in DOMAIN jobs /\ k - Len(q) \in DOMAIN jobs
          /\ all[i] = jobs[i - Len(q)] /\ all[k] = jobs[k - Len(q)]
      BY <1>2, <1>a, <1>8, <2>1, <2>4
    <3>2. later[all[i]] = n + (i - Len(q)) - 1 /\ later[all[k]] = n + (k - Len(q)) - 1
      BY <3>1
    <3>3. QED
      BY <1>1, <1>2, <1>8, <2>1, <3>2
  <2>5. QED
    BY <1>2, <2>1, <2>2, <2>3, <2>4
<1>9. ASSUME NEW j \in D PROVE later[j] < n + Len(jobs)
  <2>1. CASE j \in Held(jobs)
    <3>1. PICK i \in DOMAIN jobs : j = jobs[i]
      BY <2>1 DEF Held
    <3>2. QED
      BY <1>1, <1>2, <3>1
  <2>2. CASE j \notin Held(jobs)
    BY <1>1, <1>2, <2>2
  <2>3. QED
    BY <2>1, <2>2
<1>10. Sorts(all, Waits(later), later)
  BY <1>6, <1>7, <1>8 DEF Sorts
<1>11. n + Len(jobs) \in Nat
  BY <1>1, <1>2
<1>12. QED
  BY <1>9, <1>10, <1>11 DEF Queues, all

\* The job with the smallest ticket is the first; the others stay when it leaves.
LEMMA QueueShrinks ==
  ASSUME NEW D, NEW tickets, NEW n, NEW q, Queues(D, tickets, n, q), NEW j \in D,
         tickets[j] >= 0, \A k \in D : ~(tickets[k] >= 0 /\ tickets[k] < tickets[j])
  PROVE  /\ q # <<>> /\ Head(q) = j
         /\ Queues(D, [tickets EXCEPT ![j] = -1], n, Tail(q))
<1>1. /\ tickets \in [D -> Int] /\ n \in Nat /\ \A k \in D : tickets[k] < n
      /\ q \in Seq(Waits(tickets)) /\ Held(q) = Waits(tickets)
      /\ \A i, k \in DOMAIN q : i < k => tickets[q[i]] < tickets[q[k]]
  BY DEF Queues, Sorts
<1>2. /\ Len(q) \in Nat /\ DOMAIN q = 1 .. Len(q)
      /\ \A i \in DOMAIN q : q[i] \in D /\ tickets[q[i]] >= 0 /\ tickets[q[i]] \in Int
  BY <1>1 DEF Waits
<1>3. PICK i \in DOMAIN q : q[i] = j
  BY <1>1 DEF Waits, Held
<1>4. i = 1
  <2>1. SUFFICES ASSUME i # 1 PROVE FALSE
    OBVIOUS
  <2>2. 1 \in DOMAIN q /\ 1 < i
    BY <1>2, <2>1
  <2>3. tickets[q[1]] < tickets[j]
    BY <1>1, <1>3, <2>2
  <2>4. QED
    BY <1>2, <2>2, <2>3
<1>5. q # <<>> /\ Head(q) = j
  BY <1>1, <1>2, <1>3, <1>4
<1> DEFINE later == [tickets EXCEPT ![j] = -1]
           rest == Tail(q)
<1>6. /\ rest \in Seq(Waits(tickets)) /\ Len(rest) = Len(q) - 1 /\ DOMAIN rest = 1 .. Len(q) - 1
      /\ \A k \in 1 .. Len(q) - 1 : rest[k] = q[k + 1]
  BY <1>1, <1>2, <1>5, HeadTailProperties
<1>7. later \in [D -> Int] /\ later[j] = -1 /\ \A k \in D \ {j} : later[k] = tickets[k]
  BY <1>1
<1> HIDE DEF later, rest
<1>8. Waits(later) = Waits(tickets) \ {j}
  BY <1>1, <1>7 DEF Waits
<1>9. \A k \in DOMAIN rest : rest[k] # j /\ rest[k] \in Waits(tickets) /\ later[rest[k]] = tickets[q[k + 1]]
  <2> TAKE k \in DOMAIN rest
  <2>1. k + 1 \in DOMAIN q /\ 1 \in DOMAIN q /\ 1 < k + 1 /\ rest[k] = q[k + 1]
    BY <1>2, <1>6
  <2>2. tickets[j] < tickets[rest[k]] /\ tickets[j] \in Int
    BY <1>1, <1>3, <1>4, <2>1
  <2>3. rest[k] # j
    BY <2>2
  <2>4. rest[k] \in D /\ rest[k] \in Waits(tickets)
    BY <1>1, <1>2, <2>1
  <2>5. QED
    BY <1>7, <2>1, <2>3, <2>4
<1>10. Held(rest) = Waits(later)
  <2>1. ASSUME NEW x \in Waits(tickets), x # j PROVE x \in Held(rest)
    <3>1. PICK m \in DOMAIN q : q[m] = x
      BY <1>1, <2>1 DEF Held
    <3>2. m # 1
      BY <1>3, <1>4, <2>1, <3>1
    <3>3. m - 1 \in DOMAIN rest /\ rest[m - 1] = x
      BY <1>2, <1>6, <3>1, <3>2
    <3>4. QED
      BY <3>3 DEF Held
  <2>2. QED
    BY <1>8, <1>9, <2>1 DEF Held
<1>11. rest \in Seq(Waits(later))
  <2>1. \A k \in 1 .. Len(rest) : rest[k] \in Waits(later)
    BY <1>6, <1>8, <1>9
  <2>2. QED
    BY <1>6, <2>1
<1>12. \A k, m \in DOMAIN rest : k < m => later[rest[k]] < later[rest[m]]
  <2> TAKE k, m \in DOMAIN rest
  <2>1. k + 1 \in DOMAIN q /\ m + 1 \in DOMAIN q /\ (k < m => k + 1 < m + 1)
    BY <1>2, <1>6
  <2>2. QED
    BY <1>1, <1>9, <2>1
<1>13. \A k \in D : later[k] < n
  BY <1>1, <1>7
<1>14. Queues(D, later, n, rest)
  BY <1>1, <1>7, <1>10, <1>11, <1>12, <1>13 DEF Queues, Sorts
<1>15. QED
  BY <1>5, <1>14 DEF later, rest

-----------------------------------------------------------------------------
\* The jobs of a program.

\* The place of a job in a sequence, counted from 0, is what Sequenced gives.
LEMMA SequencedIs ==
  ASSUME NEW S, NEW s \in Seq(S), Distinct(s)
  PROVE  /\ \A i \in DOMAIN s : Sequenced(s, s[i]) = i - 1 /\ Sequenced(s, s[i]) >= 0
         /\ \A x : x \notin Held(s) => Sequenced(s, x) = -1
<1>1. DOMAIN s \subseteq Nat \ {0}
  OBVIOUS
<1>2. ASSUME NEW i \in DOMAIN s PROVE Sequenced(s, s[i]) = i - 1
  <2>1. \A k \in DOMAIN s : s[k] = s[i] => k = i
    BY DEF Distinct
  <2>2. (CHOOSE k \in DOMAIN s : s[k] = s[i]) = i
    BY <2>1
  <2>3. QED
    BY <2>2 DEF Sequenced
<1>3. \A x : x \notin Held(s) => Sequenced(s, x) = -1
  BY DEF Sequenced, Held
<1>4. QED
  BY <1>1, <1>2, <1>3

LEMMA SortedDistinct ==
  ASSUME NEW S, NEW key, \A x \in S : key[x] \in Int, NEW s, Sorts(s, S, key)
  PROVE  s \in Seq(S) /\ Held(s) = S /\ Distinct(s)
<1>1. /\ s \in Seq(S) /\ Held(s) = S
      /\ \A i, k \in DOMAIN s : i < k => key[s[i]] < key[s[k]]
  BY DEF Sorts
<1>2. \A i \in DOMAIN s : s[i] \in S /\ key[s[i]] \in Int /\ i \in Nat
  BY <1>1
<1>3. ASSUME NEW i \in DOMAIN s, NEW k \in DOMAIN s, s[i] = s[k] PROVE i = k
  <2>1. ~(i < k) /\ ~(k < i)
    BY <1>1, <1>2, <1>3
  <2>2. QED
    BY <1>2, <2>1
<1>4. QED
  BY <1>1, <1>3 DEF Distinct

LEMMA JobShape ==
  /\ \A t, u : Job(t) = Job(u) => t = u
  /\ \A t, c, s : Job(t) # Reaction(c, s)
  /\ \A c, d, s, r : Reaction(c, s) = Reaction(d, r) => c = d /\ s = r
  /\ \A t : Job(t)[1] = "callback" /\ Job(t)[2] = t
  /\ \A c, s : Reaction(c, s)[1] = "reaction" /\ Reaction(c, s)[2] = c /\ Reaction(c, s)[3] = s
  BY DEF Job, Reaction

LEMMA ChainShape ==
  ASSUME program \in Program, NEW c \in DOMAIN program.chains
  PROVE  /\ program.chains[c].links \in Nat /\ program.chains[c].at \in Nat
         /\ DOMAIN program.chains \subseteq Nat \ {0}
         /\ DOMAIN program.executors \subseteq Nat \ {0}
<1>1. program.chains \in Seq(ChainFields(program)) /\ program.executors \in Seq(ExecutorFields)
  BY ProgramAssumption, Zenon
<1>2. program.chains[c] \in ChainFields(program)
  BY <1>1, ElementOfSeq
<1>3. DOMAIN program.chains \subseteq Nat \ {0} /\ DOMAIN program.executors \subseteq Nat \ {0}
  BY <1>1
<1>4. QED
  BY <1>2, <1>3 DEF ChainFields

LEMMA JobsAre ==
  ASSUME program \in Program
  PROVE  /\ \A t \in Queued("microtask") : Job(t) \in Jobs(program)
         /\ \A c \in DOMAIN program.chains : \A s \in 1 .. program.chains[c].links :
              Reaction(c, s) \in Jobs(program)
         /\ \A j \in Jobs(program) :
              \/ \E t \in Queued("microtask") : j = Job(t)
              \/ \E c \in DOMAIN program.chains : \E s \in 1 .. program.chains[c].links :
                   j = Reaction(c, s)
  BY DEF Jobs, Queued, Callbacks, C

LEMMA JobsFinite ==
  ASSUME program \in Program
  PROVE  IsFiniteSet(Jobs(program))
<1> DEFINE reactions(c) == {Reaction(c, s) : s \in 1 .. program.chains[c].links}
           job == [t \in Queued("microtask") |-> Job(t)]
           chain == [c \in DOMAIN program.chains |-> reactions(c)]
<1>1. IsFiniteSet(Callbacks) /\ IsFiniteSet(DOMAIN program.chains)
  <2>1. program.callbacks \in Seq(CallbackFields) /\ program.chains \in Seq(ChainFields(program))
    BY ProgramAssumption, Zenon
  <2>2. /\ Len(program.callbacks) \in Nat /\ DOMAIN program.callbacks = 1 .. Len(program.callbacks)
        /\ Len(program.chains) \in Nat /\ DOMAIN program.chains = 1 .. Len(program.chains)
    BY <2>1
  <2>3. IsFiniteSet(1 .. Len(program.callbacks)) /\ IsFiniteSet(1 .. Len(program.chains))
    BY <2>2, FS_Interval
  <2>4. QED
    BY <2>2, <2>3 DEF Callbacks, C
<1>2. IsFiniteSet({job[t] : t \in Queued("microtask")})
  <2>1. IsFiniteSet(Queued("microtask")) /\ DOMAIN job = Queued("microtask")
    BY <1>1, FS_Subset DEF Queued
  <2> HIDE DEF job
  <2>2. QED
    BY <2>1, FiniteImage
<1>3. ASSUME NEW c \in DOMAIN program.chains PROVE IsFiniteSet(reactions(c))
  <2> DEFINE reaction == [s \in 1 .. program.chains[c].links |-> Reaction(c, s)]
             steps == 1 .. program.chains[c].links
  <2>1. IsFiniteSet(steps) /\ DOMAIN reaction = steps
    BY ChainShape, FS_Interval
  <2>2. reactions(c) = {reaction[s] : s \in steps}
    OBVIOUS
  <2> HIDE DEF reaction, steps, reactions
  <2>3. QED
    BY <2>1, <2>2, FiniteImage
<1>4. IsFiniteSet({chain[c] : c \in DOMAIN program.chains})
  <2>1. DOMAIN chain = DOMAIN program.chains
    OBVIOUS
  <2> HIDE DEF chain
  <2>2. QED
    BY <1>1, <2>1, FiniteImage
<1>5. \A T \in {chain[c] : c \in DOMAIN program.chains} : IsFiniteSet(T)
  BY <1>3
<1>6. IsFiniteSet(UNION {chain[c] : c \in DOMAIN program.chains})
  BY <1>4, <1>5, FS_UNION
<1> DEFINE callbackJobs == {job[t] : t \in Queued("microtask")}
           chainJobs == UNION {chain[c] : c \in DOMAIN program.chains}
<1>7. Jobs(program) = callbackJobs \cup chainJobs
  <2>1. callbackJobs = {Job(t) : t \in Queued("microtask")}
    OBVIOUS
  <2>2. chainJobs = UNION {reactions(c) : c \in DOMAIN program.chains}
    <3>1. \A c \in DOMAIN program.chains : chain[c] = reactions(c)
      OBVIOUS
    <3> HIDE DEF chain, reactions
    <3>2. QED
      BY <3>1
  <2> HIDE DEF callbackJobs, chainJobs
  <2>3. QED
    BY <2>1, <2>2 DEF Jobs, Queued, Callbacks, C
<1>8. IsFiniteSet(callbackJobs) /\ IsFiniteSet(chainJobs)
  BY <1>2, <1>6
<1> HIDE DEF callbackJobs, chainJobs
<1>9. QED
  BY <1>7, <1>8, FS_Union

\* The microtasks that a callback registers are listed once each.
LEMMA ChildJobsAre ==
  ASSUME program \in Program, NEW t \in Callbacks, NEW a
  PROVE  /\ ChildJobs(program, t, a) \in Seq(Jobs(program))
         /\ Held(ChildJobs(program, t, a)) = {Job(u) : u \in ChildrenIn(program, "microtask", t, a)}
         /\ Distinct(ChildJobs(program, t, a))
         /\ \A u \in ChildrenIn(program, "microtask", t, a) :
              u \in Queued("microtask") /\ C[u].parent = t
<1> DEFINE children == ChildrenIn(program, "microtask", t, a)
           S == {Job(u) : u \in children}
           key == [j \in S |-> j[2]]
<1>1. \A u \in children : u \in Queued("microtask") /\ C[u].parent = t /\ u \in Nat
  BY CallbackShape DEF ChildrenIn, Queued, Callbacks, C
<1>2. S \subseteq Jobs(program)
  BY <1>1, JobsAre
<1>3. IsFiniteSet(S)
  BY <1>2, JobsFinite, FS_Subset
<1>4. \A x \in S : key[x] \in Nat
  BY <1>1, JobShape
<1>5. \A x, y \in S : key[x] = key[y] => x = y
  BY JobShape
<1>6. ChildJobs(program, t, a) = SortedBy(S, key)
  BY DEF ChildJobs
<1> HIDE DEF S, key
<1>7. Sorts(SortedBy(S, key), S, key)
  BY <1>3, <1>4, <1>5, SortedLists
<1>8. /\ SortedBy(S, key) \in Seq(S) /\ Held(SortedBy(S, key)) = S /\ Distinct(SortedBy(S, key))
  BY <1>4, <1>7, SortedDistinct
<1>9. SortedBy(S, key) \in Seq(Jobs(program))
  BY <1>2, <1>8, SeqMonotonic
<1>10. QED
  BY <1>1, <1>6, <1>8, <1>9 DEF S

\* So are the jobs of the script.
LEMMA ScriptJobsAre ==
  ASSUME program \in Program
  PROVE  /\ InitialJobs(program) \in Seq(Jobs(program))
         /\ Held(InitialJobs(program)) = ScriptJobs(program)
         /\ Distinct(InitialJobs(program))
         /\ ScriptJobs(program) \subseteq Jobs(program)
<1> DEFINE S == ScriptJobs(program)
           key == [j \in S |-> Position(program, j)]
<1>1. ASSUME NEW j \in S PROVE j \in Jobs(program) /\ Position(program, j) \in Nat
  <2>1. CASE \E t \in Queued("microtask") : j = Job(t)
    <3>1. PICK t \in Queued("microtask") : j = Job(t)
      BY <2>1
    <3>2. j \in Jobs(program)
      BY <3>1, JobsAre
    <3>3. program.callbacks[t].at \in Nat
      <4>1. program.callbacks \in Seq(CallbackFields) /\ t \in DOMAIN program.callbacks
        BY <3>1, ProgramAssumption, Zenon DEF Queued, Callbacks, C
      <4>2. program.callbacks[t] \in CallbackFields
        BY <4>1, ElementOfSeq
      <4>3. QED
        BY <4>2 DEF CallbackFields
    <3>4. Position(program, j) = program.callbacks[t].at
      BY <3>1, JobShape DEF Position
    <3>5. QED
      BY <3>2, <3>3, <3>4
  <2>2. CASE \E c \in DOMAIN program.chains : Settled(program, c) /\ j = Reaction(c, 1)
    <3>1. PICK c \in DOMAIN program.chains : Settled(program, c) /\ j = Reaction(c, 1)
      BY <2>2
    <3>2. program.chains[c].links \in Nat /\ program.chains[c].at \in Nat /\ program.chains[c].links > 0
      BY <3>1, ChainShape DEF Settled
    <3>3. j \in Jobs(program)
      BY <3>1, <3>2, JobsAre
    <3>4. Position(program, j) = program.chains[c].at
      BY <3>1, JobShape DEF Position
    <3>5. QED
      BY <3>2, <3>3, <3>4
  <2>3. QED
    BY <1>1, <2>1, <2>2 DEF ScriptJobs, Queued, Callbacks, C
<1>2. S \subseteq Jobs(program) /\ \A x \in S : key[x] \in Nat
  BY <1>1
<1>3. IsFiniteSet(S)
  BY <1>2, JobsFinite, FS_Subset
<1>4. \A x, y \in S : key[x] = key[y] => x = y
  BY ProgramAssumption
<1>5. InitialJobs(program) = SortedBy(S, key)
  BY DEF InitialJobs
<1> HIDE DEF S, key
<1>6. Sorts(SortedBy(S, key), S, key)
  BY <1>2, <1>3, <1>4, SortedLists
<1>7. /\ SortedBy(S, key) \in Seq(S) /\ Held(SortedBy(S, key)) = S /\ Distinct(SortedBy(S, key))
  BY <1>2, <1>6, SortedDistinct
<1>8. SortedBy(S, key) \in Seq(Jobs(program))
  BY <1>2, <1>7, SeqMonotonic
<1>9. QED
  BY <1>2, <1>5, <1>7, <1>8 DEF S

-----------------------------------------------------------------------------
\* The order of the checkpoint, when an executor that may diverge is the last thing a
\* script without other jobs does: the machine drains what is queued all the same.

ScriptEndsFirst ==
  Divergent(program) # {} =>
    /\ Queued("microtask") = {}
    /\ \A c \in DOMAIN program.chains : ~Settled(program, c)
    /\ \A d, e \in Divergent(program) : HasReaction(e) => d <= e

Undecided == Divergent(program) \ decided

\* The callbacks around a callback: the least set with its parent and the parent of
\* each member.
ClosedOutwards(S) == \A m \in S : C[m].parent # 0 => C[m].parent \in S

Around(j) ==
  {k \in Callbacks : /\ C[j].parent # 0
                     /\ \A S \in SUBSET Callbacks : C[j].parent \in S /\ ClosedOutwards(S) => k \in S}

IsWaiting(j) == ticket[j] >= 0

\* A microtask and one around it are not waiting together, nor are two reactions of a
\* chain, and nothing waits outside the checkpoint or while the script runs.
JobsInv ==
  /\ ScriptEndsFirst
  /\ phase \in 0 .. 2
  /\ Queues(Jobs(program), ticket, nextTicket, QueueOf(ticket))
  /\ phase # 1 \/ Undecided # {} => Waits(ticket) = {}
  /\ \A c \in DOMAIN program.chains :
       \A s, r \in 1 .. program.chains[c].links :
         IsWaiting(Reaction(c, s)) /\ IsWaiting(Reaction(c, r)) => s = r
  /\ \A t, u \in Queued("microtask") :
       IsWaiting(Job(t)) /\ IsWaiting(Job(u)) => t \notin Around(u)

\* The callbacks around a callback are its parent and those around its parent; they come
\* before it in the source.
LEMMA AroundShape ==
  ASSUME program \in Program, NEW j \in Callbacks
  PROVE  /\ Around(j) \subseteq Callbacks
         /\ C[j].parent = 0 => Around(j) = {}
         /\ C[j].parent # 0 => Around(j) = {C[j].parent} \cup Around(C[j].parent)
         /\ \A k \in Around(j) : k < j /\ Around(k) \subseteq Around(j)
<1> DEFINE i == C[j].parent
<1>1. Around(j) \subseteq Callbacks /\ (i = 0 => Around(j) = {})
  BY DEF Around
<1>2. ASSUME i # 0 PROVE Around(j) = {i} \cup Around(i)
  <2>1. i \in Callbacks
    BY <1>2, CallbackShape
  <2>2. i \in Around(j)
    BY <1>2, <2>1 DEF Around
  <2>3. ASSUME NEW k \in Around(i) PROVE k \in Around(j)
    <3>1. k \in Callbacks /\ C[i].parent # 0
      BY <2>3 DEF Around
    <3>2. ASSUME NEW S \in SUBSET Callbacks, i \in S, ClosedOutwards(S) PROVE k \in S
      <4>1. C[i].parent \in S
        BY <3>1, <3>2 DEF ClosedOutwards
      <4>2. QED
        BY <2>3, <3>2, <4>1 DEF Around
    <3>3. QED
      BY <1>2, <3>1, <3>2 DEF Around
  <2>4. ASSUME NEW k \in Around(j) PROVE k = i \/ k \in Around(i)
    <3> DEFINE T == {i} \cup Around(i)
    <3>1. T \in SUBSET Callbacks /\ i \in T
      BY <2>1 DEF Around
    <3>2. ASSUME NEW m \in T, C[m].parent # 0 PROVE C[m].parent \in T
      <4>1. m \in Callbacks /\ C[m].parent \in Callbacks
        BY <3>1, <3>2, CallbackShape
      <4>2. CASE m = i
        BY <3>2, <4>1, <4>2 DEF Around
      <4>3. CASE m \in Around(i)
        <5>1. ASSUME NEW S \in SUBSET Callbacks, C[i].parent \in S, ClosedOutwards(S)
              PROVE  C[m].parent \in S
          <6>1. m \in S
            BY <4>3, <5>1 DEF Around
          <6>2. QED
            BY <3>2, <5>1, <6>1 DEF ClosedOutwards
        <5>2. QED
          BY <4>1, <4>3, <5>1 DEF Around
      <4>4. QED
        BY <3>2, <4>2, <4>3
    <3>3. ClosedOutwards(T)
      BY <3>2 DEF ClosedOutwards
    <3> HIDE DEF T
    <3>4. k \in T
      BY <2>4, <3>1, <3>3 DEF Around
    <3>5. QED
      BY <3>4 DEF T
  <2>5. QED
    BY <2>2, <2>3, <2>4
<1>3. ASSUME NEW k \in Around(j) PROVE k < j
  <2> DEFINE S == {m \in Callbacks : m < j}
  <2>1. i # 0 /\ i \in Callbacks /\ i < j /\ j \in Nat
    BY <1>3, CallbackShape DEF Around
  <2>2. S \in SUBSET Callbacks /\ i \in S
    BY <2>1
  <2>3. ASSUME NEW m \in S, C[m].parent # 0 PROVE C[m].parent \in S
    <3>1. m \in Nat /\ m < j /\ C[m].parent \in Nat /\ C[m].parent < m /\ C[m].parent \in Callbacks
      BY <2>3, CallbackShape
    <3>2. QED
      BY <2>1, <3>1
  <2>4. ClosedOutwards(S)
    BY <2>3 DEF ClosedOutwards
  <2> HIDE DEF S
  <2>5. k \in S
    BY <1>3, <2>2, <2>4 DEF Around
  <2>6. QED
    BY <2>5 DEF S
<1>4. ASSUME NEW k \in Around(j), NEW m \in Around(k) PROVE m \in Around(j)
  <2>1. k \in Callbacks /\ m \in Callbacks /\ C[k].parent # 0 /\ i # 0
    BY <1>4 DEF Around
  <2>2. ASSUME NEW S \in SUBSET Callbacks, i \in S, ClosedOutwards(S) PROVE m \in S
    <3>1. k \in S
      BY <1>4, <2>2 DEF Around
    <3>2. C[k].parent \in S
      BY <2>1, <2>2, <3>1 DEF ClosedOutwards
    <3>3. QED
      BY <1>4, <2>2, <3>2 DEF Around
  <2>3. QED
    BY <2>1, <2>2 DEF Around
<1>5. QED
  BY <1>1, <1>2, <1>3, <1>4

LEMMA ScriptEndsStays ==
  ASSUME ScriptEndsFirst, program' = program
  PROVE  ScriptEndsFirst'
<1>1. \A e : HasReaction(e)' <=> HasReaction(e)
  BY DEF HasReaction, ChainOf, FirstChain
<1>2. Queued("microtask")' = Queued("microtask")
  BY DEF Queued, Callbacks, C
<1>3. QED
  BY <1>1, <1>2 DEF ScriptEndsFirst

\* A step, as the queue of the host sees it.
QueueMoves ==
  LET queue == QueueOf(ticket)
  IN  /\ program' = program
      /\ \/ queue' = queue /\ (Undecided # {} \/ Undecided' = Undecided)
         \/ Undecided # {} /\ \E j \in Jobs(program) : queue' = Append(queue, j)
         \/ /\ Undecided = {} /\ Undecided' = {} /\ queue # <<>>
            /\ Head(queue) \in Jobs(program)
            /\ \E s \in Registered(program, Head(queue)) : queue' = Tail(queue) \o s
         \/ /\ Undecided = {} /\ Undecided' = {} /\ queue = <<>>
            /\ \E t \in Callbacks : queue' \in Registered(program, Job(t))

LEMMA MovesInOrder ==
  ASSUME QueueMoves
  PROVE  [Microtasks!Next]_(Microtasks!vars)
<1> DEFINE queue == QueueOf(ticket)
           order(p) == [x \in Jobs(p) \cup {Job(t) : t \in DOMAIN p.callbacks} |-> Registered(p, x)]
           after == [x \in Jobs(program) \cup {Job(t) : t \in Callbacks} |-> Registered(program, x)]
<1>1. program' = program
  BY DEF QueueMoves
<1>2. after = order(program) /\ after' = order(program)'
  BY DEF Callbacks, C
<1>3. order(program)' = order(program) /\ InitialJobs(program)' = InitialJobs(program)
  BY <1>1
<1> HIDE DEF order
<1>4. after' = after /\ InitialJobs(program)' = InitialJobs(program)
  BY <1>2, <1>3
<1>5. CASE queue' = queue /\ (Undecided # {} \/ Undecided' = Undecided)
  <2>1. CASE Undecided # {}
    <3>1. Microtasks!Script
      BY <1>4, <1>5, <2>1, Zenon DEF Microtasks!Script, Undecided
    <3>2. QED
      BY <3>1 DEF Microtasks!Next
  <2>2. CASE Undecided = {} /\ Undecided' = Undecided
    BY <1>4, <1>5, <2>2, Zenon DEF Microtasks!vars, Undecided
  <2>3. QED
    BY <1>5, <2>1, <2>2
<1>6. ASSUME Undecided # {}, NEW j \in Jobs(program), queue' = Append(queue, j)
      PROVE  Microtasks!Next
  <2>1. j \in DOMAIN after
    OBVIOUS
  <2>2. Microtasks!Script
    BY <1>4, <1>6, <2>1, Zenon DEF Microtasks!Script, Undecided
  <2>3. QED
    BY <2>2 DEF Microtasks!Next
<1>7. ASSUME Undecided = {}, Undecided' = {}, queue # <<>>, Head(queue) \in Jobs(program),
             NEW s \in Registered(program, Head(queue)), queue' = Tail(queue) \o s
      PROVE  Microtasks!Next
  <2>1. after[Head(queue)] = Registered(program, Head(queue))
    BY <1>7
  <2>2. Microtasks!Drain
    BY <1>4, <1>7, <2>1, Zenon DEF Microtasks!Drain, Undecided
  <2>3. QED
    BY <2>2 DEF Microtasks!Next
<1>8. ASSUME Undecided = {}, Undecided' = {}, queue = <<>>, NEW t \in Callbacks,
             queue' \in Registered(program, Job(t))
      PROVE  Microtasks!Next
  <2>1. Job(t) \in DOMAIN after /\ after[Job(t)] = Registered(program, Job(t))
    OBVIOUS
  <2>2. Microtasks!Task(Job(t))
    BY <1>4, <1>8, <2>1, Zenon DEF Microtasks!Task, Undecided
  <2>3. QED
    BY <2>1, <2>2 DEF Microtasks!Next
<1>9. QED
  BY <1>5, <1>6, <1>7, <1>8 DEF QueueMoves

\* The queue holds what waits.
LEMMA QueueHolds ==
  ASSUME JobsInv
  PROVE  /\ QueueOf(ticket) \in Seq(Jobs(program)) /\ Held(QueueOf(ticket)) = Waits(ticket)
         /\ ticket \in [Jobs(program) -> Int] /\ DOMAIN ticket = Jobs(program)
         /\ nextTicket \in Nat
         /\ \A j \in Jobs(program) : ticket[j] < nextTicket
         /\ Waits(ticket) = {} <=> QueueOf(ticket) = <<>>
         /\ Waits(ticket) = {} => \A j \in Jobs(program) : ~IsWaiting(j)
<1>1. Queues(Jobs(program), ticket, nextTicket, QueueOf(ticket))
  BY DEF JobsInv
<1>2. QueueOf(ticket) \in Seq(Jobs(program)) /\ Held(QueueOf(ticket)) = Waits(ticket)
  BY <1>1, QueueIs
<1>3. /\ ticket \in [Jobs(program) -> Int] /\ DOMAIN ticket = Jobs(program)
      /\ nextTicket \in Nat /\ \A j \in Jobs(program) : ticket[j] < nextTicket
  BY <1>1 DEF Queues
<1> DEFINE q == QueueOf(ticket)
<1> HIDE DEF q
<1>4. q \in Seq(Jobs(program)) => (Held(q) = {} <=> q = <<>>)
  BY DEF Held
<1>5. QED
  BY <1>2, <1>3, <1>4 DEF q, Waits, IsWaiting

\* A step that queues nothing and runs no job.
LEMMA JobsKeep ==
  ASSUME JobsInv, program' = program, ticket' = ticket,
         nextTicket' = nextTicket \/ (Waits(ticket) = {} /\ nextTicket' = 0),
         decided' = decided \/ (Undecided # {} /\ decided \subseteq decided'),
         phase' \in 0 .. 2, phase' # 1 => phase # 1 \/ Waits(ticket) = {}
  PROVE  JobsInv' /\ QueueMoves
<1>1. /\ ScriptEndsFirst' /\ Undecided' \subseteq Undecided
  BY ScriptEndsStays DEF JobsInv, Undecided
<1>2. Queues(Jobs(program), ticket, nextTicket', QueueOf(ticket))
  <2>1. Queues(Jobs(program), ticket, nextTicket, QueueOf(ticket))
    BY DEF JobsInv
  <2>2. CASE nextTicket' = nextTicket
    BY <2>1, <2>2
  <2>3. CASE Waits(ticket) = {} /\ nextTicket' = 0
    <3>1. \A j \in Jobs(program) : ticket[j] \in Int /\ ~(ticket[j] >= 0)
      BY <2>3, QueueHolds DEF IsWaiting
    <3>2. \A j \in Jobs(program) : ticket[j] < 0
      BY <3>1
    <3>3. QED
      BY <2>1, <2>3, <3>2, Zenon DEF Queues
  <2>4. QED
    BY <2>2, <2>3
<1>3. QueueOf(ticket)' = QueueOf(ticket) /\ Jobs(program)' = Jobs(program)
      /\ Waits(ticket)' = Waits(ticket)
  OBVIOUS
<1>4. Queues(Jobs(program), ticket, nextTicket, QueueOf(ticket))'
  BY <1>2, <1>3
<1>5. (phase # 1 \/ Undecided # {} => Waits(ticket) = {})'
  BY <1>1, <1>3 DEF JobsInv
<1>6. (\A c \in DOMAIN program.chains :
        \A s, r \in 1 .. program.chains[c].links :
          IsWaiting(Reaction(c, s)) /\ IsWaiting(Reaction(c, r)) => s = r)'
  BY DEF JobsInv, IsWaiting
<1>7. (\A t, u \in Queued("microtask") :
        IsWaiting(Job(t)) /\ IsWaiting(Job(u)) => t \notin Around(u))'
  BY DEF JobsInv, IsWaiting, Queued, Around, ClosedOutwards, Callbacks, C
<1>8. JobsInv'
  BY <1>1, <1>4, <1>5, <1>6, <1>7 DEF JobsInv
<1>9. decided' = decided => Undecided' = Undecided
  BY DEF Undecided
<1>10. QED
  BY <1>3, <1>8, <1>9 DEF QueueMoves

\* What queueing the microtasks of a callback does to tickets that are a queue.
LEMMA ChildrenQueued ==
  ASSUME program \in Program, NEW t \in Callbacks, NEW a, NEW tickets, NEW q,
         Queues(Jobs(program), tickets, nextTicket, q), DOMAIN ticket = Jobs(program),
         \A u \in ChildrenIn(program, "microtask", t, a) : tickets[Job(u)] < 0,
         QueueChildren(t, a, tickets)
  PROVE  /\ Queues(Jobs(program), ticket', nextTicket', q \o ChildJobs(program, t, a))
         /\ \A j \in Jobs(program) :
              ticket'[j] >= 0 => tickets[j] >= 0 \/ j \in Held(ChildJobs(program, t, a))
<1> DEFINE D == Jobs(program)
           jobs == ChildJobs(program, t, a)
           later == [j \in D |->
             IF Sequenced(jobs, j) >= 0 THEN nextTicket + Sequenced(jobs, j) ELSE tickets[j]]
<1>1. /\ jobs \in Seq(D) /\ Distinct(jobs)
      /\ Held(jobs) = {Job(u) : u \in ChildrenIn(program, "microtask", t, a)}
  BY ChildJobsAre
<1>2. tickets \in [D -> Int] /\ nextTicket \in Nat
  BY DEF Queues
<1>3. ticket' = later /\ nextTicket' = nextTicket + Len(jobs)
  BY DEF QueueChildren
<1>4. /\ \A i \in DOMAIN jobs : Sequenced(jobs, jobs[i]) = i - 1 /\ Sequenced(jobs, jobs[i]) >= 0
      /\ \A x : x \notin Held(jobs) => Sequenced(jobs, x) = -1
  BY <1>1, SequencedIs
<1> HIDE DEF jobs, D
<1>5. \A i \in DOMAIN jobs : jobs[i] \in D /\ jobs[i] \in Held(jobs) /\ i \in Nat
  BY <1>1 DEF Held
<1>6. \A i \in DOMAIN jobs : tickets[jobs[i]] < 0
  BY <1>1, <1>5
<1>7. \A i \in DOMAIN jobs : later[jobs[i]] = nextTicket + i - 1
  BY <1>2, <1>4, <1>5
<1>8. \A j \in D : j \notin Held(jobs) => later[j] = tickets[j]
  BY <1>4
<1>9. later \in [D -> Int]
  <2>1. ASSUME NEW j \in D PROVE later[j] \in Int
    <3>1. CASE j \in Held(jobs)
      <4>1. PICK i \in DOMAIN jobs : j = jobs[i]
        BY <3>1 DEF Held
      <4>2. later[j] = nextTicket + i - 1 /\ i \in Nat
        BY <1>5, <1>7, <4>1
      <4> HIDE DEF later
      <4>3. QED
        BY <1>2, <4>2
    <3>2. CASE j \notin Held(jobs)
      BY <1>2, <1>8, <3>2
    <3>3. QED
      BY <3>1, <3>2
  <2>2. QED
    BY <2>1
<1>10. Queues(D, tickets, nextTicket, q)
  BY DEF D
<1> HIDE DEF later
<1>11. Queues(D, later, nextTicket + Len(jobs), q \o jobs)
  BY <1>1, <1>6, <1>7, <1>8, <1>9, <1>10, QueueGrows
<1>12. \A j \in D : later[j] >= 0 => tickets[j] >= 0 \/ j \in Held(jobs)
  BY <1>8
<1>13. QED
  BY <1>3, <1>11, <1>12 DEF D, jobs

\* The children of a callback are neither around it nor around each other.
LEMMA ChildrenApart ==
  ASSUME program \in Program, NEW t \in Callbacks, NEW a
  PROVE  \A u \in ChildrenIn(program, "microtask", t, a) :
           /\ u \in Queued("microtask") /\ u # t
           /\ Around(u) = {t} \cup Around(t)
           /\ u \notin Around(t)
<1> TAKE u \in ChildrenIn(program, "microtask", t, a)
<1>1. u \in Queued("microtask") /\ C[u].parent = t
  BY ChildJobsAre
<1>2. u \in Callbacks /\ t \in Nat \ {0} /\ u \in Nat /\ C[u].parent < u
  BY <1>1, CallbackShape DEF Queued
<1>3. Around(u) = {t} \cup Around(t)
  BY <1>1, <1>2, AroundShape
<1>4. \A k \in Around(t) : k < t /\ k \in Nat
  BY AroundShape, CallbackShape
<1>5. QED
  BY <1>1, <1>2, <1>3, <1>4

\* A callback other than a job runs when nothing waits.
LEMMA JobsRun ==
  ASSUME JobsInv, program \in Program, program' = program, decided' = decided,
         phase # 1, phase' = 1, NEW t \in Callbacks,
         NEW a \in {0} \cup Alternatives(program, t), QueueChildren(t, a, ticket)
  PROVE  JobsInv' /\ QueueMoves
<1> DEFINE children == ChildJobs(program, t, a)
           q == QueueOf(ticket)
<1>1. Waits(ticket) = {} /\ q = <<>> /\ \A j \in Jobs(program) : ~IsWaiting(j)
  BY QueueHolds DEF JobsInv
<1>2. /\ children \in Seq(Jobs(program))
      /\ Held(children) = {Job(u) : u \in ChildrenIn(program, "microtask", t, a)}
      /\ \A u \in ChildrenIn(program, "microtask", t, a) : u \in Queued("microtask")
  BY ChildJobsAre
<1>3. \A u \in ChildrenIn(program, "microtask", t, a) : ticket[Job(u)] < 0
  BY <1>1, <1>2, JobsAre, QueueHolds DEF IsWaiting
<1>4. Queues(Jobs(program), ticket, nextTicket, q) /\ DOMAIN ticket = Jobs(program)
  BY QueueHolds DEF JobsInv
<1> HIDE DEF q
<1>5. /\ Queues(Jobs(program), ticket', nextTicket', q \o children)
      /\ \A j \in Jobs(program) : ticket'[j] >= 0 => ticket[j] >= 0 \/ j \in Held(children)
  BY <1>3, <1>4, ChildrenQueued
<1> HIDE DEF children
<1>6. q \o children = children
  BY <1>1, <1>2
<1>7. /\ Queues(Jobs(program), ticket', nextTicket', children)
      /\ \A j \in Jobs(program) : ticket'[j] >= 0 => j \in Held(children)
  BY <1>1, <1>5, <1>6 DEF IsWaiting
<1>8. QueueOf(ticket') = children /\ Held(children) = Waits(ticket')
  BY <1>7, QueueIs
<1>9. Queues(Jobs(program), ticket, nextTicket, QueueOf(ticket))'
  BY <1>7, <1>8
<1>10. ScriptEndsFirst' /\ Undecided' = Undecided
  BY ScriptEndsStays DEF JobsInv, Undecided
<1>11. Undecided # {} => children = <<>>
  <2>1. SUFFICES ASSUME Undecided # {} PROVE children = <<>>
    OBVIOUS
  <2>2. Queued("microtask") = {}
    BY <2>1 DEF JobsInv, ScriptEndsFirst, Undecided
  <2>3. Held(children) = {}
    BY <1>2, <2>2
  <2>4. QED
    BY <1>2, <2>3 DEF Held
<1>12. children = <<>> => Held(children) = {}
  BY DEF Held
<1>13. (phase # 1 \/ Undecided # {} => Waits(ticket) = {})'
  BY <1>8, <1>10, <1>11, <1>12
<1>14. (\A c \in DOMAIN program.chains :
         \A s, r \in 1 .. program.chains[c].links :
           IsWaiting(Reaction(c, s)) /\ IsWaiting(Reaction(c, r)) => s = r)'
  <2>1. ASSUME NEW c \in DOMAIN program.chains, NEW s \in 1 .. program.chains[c].links
        PROVE  ~(ticket'[Reaction(c, s)] >= 0)
    <3>1. Reaction(c, s) \in Jobs(program) /\ Reaction(c, s) \notin Held(children)
      BY <1>2, JobsAre, JobShape
    <3>2. QED
      BY <1>7, <3>1
  <2>2. QED
    BY <2>1 DEF IsWaiting
<1>15. \A w, u \in Queued("microtask") :
         ticket'[Job(w)] >= 0 /\ ticket'[Job(u)] >= 0 => w \notin Around(u)
  <2>1. ASSUME NEW u \in Queued("microtask"), ticket'[Job(u)] >= 0
        PROVE  u \in ChildrenIn(program, "microtask", t, a)
    BY <1>2, <1>7, <2>1, JobsAre, JobShape
  <2>2. QED
    BY <2>1, ChildrenApart
<1>16. (\A w, u \in Queued("microtask") :
         IsWaiting(Job(w)) /\ IsWaiting(Job(u)) => w \notin Around(u))'
  BY <1>15 DEF IsWaiting, Queued, Around, ClosedOutwards, Callbacks, C
<1>17. JobsInv'
  BY <1>9, <1>10, <1>13, <1>14, <1>16 DEF JobsInv
<1>18. children \in Registered(program, Job(t))
  BY JobShape DEF Registered, children
<1>19. QueueOf(ticket)' = children /\ QueueOf(ticket) = <<>>
  BY <1>1, <1>8 DEF q
<1>20. QueueMoves
  BY <1>10, <1>11, <1>18, <1>19 DEF QueueMoves
<1>21. QED
  BY <1>17, <1>20

\* The oldest job runs: a callback, and what it registers follows.
LEMMA JobsDrain ==
  ASSUME JobsInv, program \in Program, NEW t \in Queued("microtask"),
         NEW a \in Alternatives(program, t), DrainMicrotask(t, a)
  PROVE  JobsInv' /\ QueueMoves
<1> DEFINE children == ChildJobs(program, t, a)
           q == QueueOf(ticket)
           rest == [ticket EXCEPT ![Job(t)] = -1]
<1>1. /\ phase = 1 /\ phase' = phase /\ program' = program /\ decided' = decided
      /\ Oldest(Job(t)) /\ QueueChildren(t, a, rest)
  BY DEF DrainMicrotask, host
<1>2. Job(t) \in Jobs(program) /\ t \in Callbacks /\ IsWaiting(Job(t))
  BY <1>1, JobsAre DEF Oldest, IsWaiting, Queued
<1>3. /\ ticket \in [Jobs(program) -> Int] /\ DOMAIN ticket = Jobs(program)
      /\ nextTicket \in Nat /\ Queues(Jobs(program), ticket, nextTicket, q)
  BY QueueHolds DEF JobsInv
<1>4. Undecided = {}
  BY <1>2, QueueHolds DEF JobsInv
<1>5. /\ q # <<>> /\ Head(q) = Job(t) /\ Queues(Jobs(program), rest, nextTicket, Tail(q))
  <2>1. ticket[Job(t)] >= 0 /\ \A k \in Jobs(program) : ~(ticket[k] >= 0 /\ ticket[k] < ticket[Job(t)])
    BY <1>1, <1>3 DEF Oldest
  <2> HIDE DEF q
  <2>2. QED
    BY <1>2, <1>3, <2>1, QueueShrinks
<1>6. /\ children \in Seq(Jobs(program))
      /\ Held(children) = {Job(u) : u \in ChildrenIn(program, "microtask", t, a)}
      /\ \A u \in ChildrenIn(program, "microtask", t, a) : u \in Queued("microtask")
  BY <1>2, ChildJobsAre
<1>7. \A u \in ChildrenIn(program, "microtask", t, a) :
        u # t /\ Around(u) = {t} \cup Around(t) /\ u \notin Around(t)
  BY <1>2, ChildrenApart
<1>8. \A j \in Jobs(program) : /\ j # Job(t) => rest[j] = ticket[j]
                               /\ rest[Job(t)] = -1 /\ ticket[j] \in Int
  BY <1>2, <1>3
<1>9. ASSUME NEW u \in ChildrenIn(program, "microtask", t, a) PROVE rest[Job(u)] < 0
  <2>1. u \in Queued("microtask") /\ t \in Around(u) /\ Job(u) \in Jobs(program)
    BY <1>6, <1>7, JobsAre
  <2>2. ~IsWaiting(Job(u))
    BY <1>2, <2>1 DEF JobsInv
  <2>3. Job(u) # Job(t)
    BY <1>7, JobShape
  <2>4. QED
    BY <1>8, <2>1, <2>2, <2>3 DEF IsWaiting
<1> HIDE DEF q, rest
<1>10. /\ Queues(Jobs(program), ticket', nextTicket', Tail(q) \o children)
       /\ \A j \in Jobs(program) : ticket'[j] >= 0 => rest[j] >= 0 \/ j \in Held(children)
  BY <1>1, <1>2, <1>3, <1>5, <1>9, ChildrenQueued
<1> HIDE DEF children
<1>11. \A j \in Jobs(program) :
         ticket'[j] >= 0 => (IsWaiting(j) /\ j # Job(t)) \/ j \in Held(children)
  BY <1>8, <1>10 DEF IsWaiting
<1>12. QueueOf(ticket') = Tail(q) \o children
  BY <1>10, QueueIs
<1>13. Queues(Jobs(program), ticket, nextTicket, QueueOf(ticket))'
  BY <1>1, <1>10, <1>12
<1>14. ScriptEndsFirst' /\ Undecided' = Undecided /\ phase' = 1
  BY <1>1, ScriptEndsStays DEF JobsInv, Undecided
<1>15. \A c \in DOMAIN program.chains :
         \A s, r \in 1 .. program.chains[c].links :
           ticket'[Reaction(c, s)] >= 0 /\ ticket'[Reaction(c, r)] >= 0 => s = r
  <2>1. ASSUME NEW c \in DOMAIN program.chains, NEW s \in 1 .. program.chains[c].links,
               ticket'[Reaction(c, s)] >= 0
        PROVE  IsWaiting(Reaction(c, s))
    <3>1. Reaction(c, s) \in Jobs(program) /\ Reaction(c, s) \notin Held(children)
      BY <1>6, JobsAre, JobShape
    <3>2. QED
      BY <1>11, <2>1, <3>1
  <2>2. QED
    BY <2>1 DEF JobsInv
<1>16. \A w, u \in Queued("microtask") :
         ticket'[Job(w)] >= 0 /\ ticket'[Job(u)] >= 0 => w \notin Around(u)
  <2>1. \A u \in Queued("microtask") : ticket'[Job(u)] >= 0 =>
          \/ IsWaiting(Job(u)) /\ u # t
          \/ u \in ChildrenIn(program, "microtask", t, a)
    BY <1>6, <1>11, JobsAre, JobShape
  <2>2. SUFFICES ASSUME NEW w \in Queued("microtask"), NEW u \in Queued("microtask"),
                        ticket'[Job(w)] >= 0, ticket'[Job(u)] >= 0, w \in Around(u)
                 PROVE  FALSE
    OBVIOUS
  <2>3. CASE u \in ChildrenIn(program, "microtask", t, a)
    <3>1. w = t \/ w \in Around(t)
      BY <1>7, <2>2, <2>3
    <3>2. w \notin ChildrenIn(program, "microtask", t, a)
      BY <1>7, <3>1
    <3>3. IsWaiting(Job(w)) /\ w # t
      BY <2>1, <2>2, <3>2
    <3>4. QED
      BY <1>2, <3>1, <3>3 DEF JobsInv
  <2>4. CASE IsWaiting(Job(u)) /\ u # t
    <3>1. CASE w \in ChildrenIn(program, "microtask", t, a)
      <4>1. t \in Around(w) /\ u \in Callbacks
        BY <1>7, <3>1 DEF Queued
      <4>2. t \in Around(u)
        BY <2>2, <4>1, AroundShape
      <4>3. QED
        BY <1>2, <2>4, <4>2 DEF JobsInv
    <3>2. CASE IsWaiting(Job(w))
      BY <2>2, <2>4, <3>2 DEF JobsInv
    <3>3. QED
      BY <2>1, <2>2, <3>1, <3>2
  <2>5. QED
    BY <2>1, <2>2, <2>3, <2>4
<1>17. (\A c \in DOMAIN program.chains :
         \A s, r \in 1 .. program.chains[c].links :
           IsWaiting(Reaction(c, s)) /\ IsWaiting(Reaction(c, r)) => s = r)'
  BY <1>1, <1>15 DEF IsWaiting
<1>18. (\A w, u \in Queued("microtask") :
         IsWaiting(Job(w)) /\ IsWaiting(Job(u)) => w \notin Around(u))'
  BY <1>1, <1>16 DEF IsWaiting, Queued, Around, ClosedOutwards, Callbacks, C
<1>19. JobsInv'
  BY <1>4, <1>13, <1>14, <1>17, <1>18 DEF JobsInv
<1>20. children \in Registered(program, Head(q)) /\ Head(q) \in Jobs(program)
  <2>1. children \in Registered(program, Job(t))
    BY JobShape DEF Registered, children
  <2>2. QED
    BY <1>2, <1>5, <2>1
<1>21. QueueMoves
  BY <1>1, <1>4, <1>5, <1>12, <1>14, <1>20 DEF QueueMoves, q
<1>22. QED
  BY <1>19, <1>21

\* The oldest job runs: a reaction, and the next one of its chain follows.
LEMMA JobsReact ==
  ASSUME JobsInv, program \in Program, NEW c \in DOMAIN program.chains,
         NEW s \in 1 .. program.chains[c].links, DrainReaction(c, s)
  PROVE  JobsInv' /\ QueueMoves
<1> DEFINE q == QueueOf(ticket)
           j == Reaction(c, s)
           next == Reaction(c, s + 1)
           rest == [ticket EXCEPT ![j] = -1]
           more == s < program.chains[c].links
           jobs == IF more THEN <<next>> ELSE <<>>
<1>1. /\ phase = 1 /\ phase' = phase /\ program' = program /\ decided' = decided /\ Oldest(j)
  BY DEF DrainReaction, host
<1>2. /\ program.chains[c].links \in Nat /\ s \in Nat
      /\ j \in Jobs(program) /\ IsWaiting(j)
      /\ more => next \in Jobs(program) /\ next # j /\ s + 1 \in 1 .. program.chains[c].links
  <2>1. program.chains[c].links \in Nat /\ s \in Nat /\ s + 1 # s
    BY ChainShape
  <2>2. more => s + 1 \in 1 .. program.chains[c].links
    BY <2>1
  <2>3. QED
    BY <1>1, <2>1, <2>2, JobsAre, JobShape DEF Oldest, IsWaiting
<1>3. /\ ticket \in [Jobs(program) -> Int] /\ DOMAIN ticket = Jobs(program)
      /\ nextTicket \in Nat /\ Queues(Jobs(program), ticket, nextTicket, q)
  BY QueueHolds DEF JobsInv
<1>4. Undecided = {}
  BY <1>2, QueueHolds DEF JobsInv
<1>5. /\ q # <<>> /\ Head(q) = j /\ Queues(Jobs(program), rest, nextTicket, Tail(q))
  <2>1. ticket[j] >= 0 /\ \A k \in Jobs(program) : ~(ticket[k] >= 0 /\ ticket[k] < ticket[j])
    BY <1>1, <1>3 DEF Oldest
  <2> HIDE DEF q, j
  <2>2. QED
    BY <1>2, <1>3, <2>1, QueueShrinks
<1>6. \A k \in Jobs(program) : k # j => rest[k] = ticket[k]
  BY <1>3
<1>7. rest[j] = -1 /\ rest \in [Jobs(program) -> Int]
  <2> HIDE DEF j
  <2>1. QED
    BY <1>2, <1>3
<1>8. more => ~IsWaiting(next)
  <2>1. SUFFICES ASSUME more, IsWaiting(next) PROVE FALSE
    OBVIOUS
  <2>2. s + 1 = s
    BY <1>2, <2>1 DEF JobsInv
  <2>3. QED
    BY <1>2, <2>2
<1>9. /\ jobs \in Seq(Jobs(program)) /\ Distinct(jobs) /\ Len(jobs) = (IF more THEN 1 ELSE 0)
      /\ \A i \in DOMAIN jobs : more /\ i = 1 /\ jobs[i] = next
      /\ Held(jobs) = IF more THEN {next} ELSE {}
  <2>1. CASE more
    <3>1. next \in Jobs(program)
      BY <1>2, <2>1
    <3> HIDE DEF next
    <3>2. jobs = <<next>>
      BY <2>1
    <3>3. QED
      BY <2>1, <3>1, <3>2 DEF Distinct, Held
  <2>2. CASE ~more
    BY <2>2 DEF Distinct, Held
  <2>3. QED
    BY <2>1, <2>2
<1>10. /\ ticket' \in [Jobs(program) -> Int] /\ nextTicket' = nextTicket + Len(jobs)
       /\ more => ticket'[next] = nextTicket
       /\ \A k \in Jobs(program) : k \notin Held(jobs) => ticket'[k] = rest[k]
  <2>1. CASE more
    <3>1. /\ ticket' = [ticket EXCEPT ![j] = -1, ![next] = nextTicket]
          /\ nextTicket' = nextTicket + 1
      BY <2>1 DEF DrainReaction
    <3>2. ticket' = [rest EXCEPT ![next] = nextTicket] /\ rest \in [Jobs(program) -> Int]
      BY <1>7, <3>1, Zenon
    <3>3. next \in Jobs(program) /\ Len(jobs) = 1 /\ Held(jobs) = {next}
      BY <1>2, <1>9, <2>1
    <3> HIDE DEF rest, next, j, jobs
    <3>4. QED
      BY <1>3, <3>1, <3>2, <3>3
  <2>2. CASE ~more
    <3>1. ticket' = rest /\ nextTicket' = nextTicket
      BY <2>2 DEF DrainReaction
    <3>2. rest \in [Jobs(program) -> Int] /\ Len(jobs) = 0
      BY <1>7, <1>9, <2>2
    <3> HIDE DEF rest, jobs
    <3>3. QED
      BY <1>3, <2>2, <3>1, <3>2
  <2>3. QED
    BY <2>1, <2>2
<1> HIDE DEF q, j, next, rest, jobs, more
<1>11. Queues(Jobs(program), ticket', nextTicket', Tail(q) \o jobs)
  <2>1. \A i \in DOMAIN jobs : rest[jobs[i]] < 0
    <3> SUFFICES ASSUME NEW i \in DOMAIN jobs PROVE rest[next] < 0
      BY <1>9
    <3>1. more /\ next \in Jobs(program) /\ next # j /\ ~IsWaiting(next)
      BY <1>2, <1>8, <1>9
    <3>2. QED
      BY <1>3, <1>6, <3>1 DEF IsWaiting
  <2>2. \A i \in DOMAIN jobs : ticket'[jobs[i]] = nextTicket + i - 1
    BY <1>3, <1>9, <1>10
  <2>3. QED
    BY <1>5, <1>9, <1>10, <2>1, <2>2, QueueGrows
<1>12. QueueOf(ticket') = Tail(q) \o jobs
  BY <1>11, QueueIs
<1>13. Queues(Jobs(program), ticket, nextTicket, QueueOf(ticket))'
  BY <1>1, <1>11, <1>12
<1>14. \A k \in Jobs(program) :
         ticket'[k] >= 0 => (IsWaiting(k) /\ k # j) \/ (more /\ k = next)
  BY <1>6, <1>7, <1>9, <1>10 DEF IsWaiting
<1>15. ScriptEndsFirst' /\ Undecided' = Undecided /\ phase' = 1
  BY <1>1, ScriptEndsStays DEF JobsInv, Undecided
<1>16. \A d \in DOMAIN program.chains :
         \A x, r \in 1 .. program.chains[d].links :
           ticket'[Reaction(d, x)] >= 0 /\ ticket'[Reaction(d, r)] >= 0 => x = r
  <2>1. SUFFICES ASSUME NEW d \in DOMAIN program.chains, NEW x \in 1 .. program.chains[d].links,
                        NEW r \in 1 .. program.chains[d].links,
                        ticket'[Reaction(d, x)] >= 0, ticket'[Reaction(d, r)] >= 0
                 PROVE  x = r
    OBVIOUS
  <2>2. /\ Reaction(d, x) \in Jobs(program) /\ Reaction(d, r) \in Jobs(program)
    BY JobsAre
  <2>3. CASE d # c
    <3>1. /\ Reaction(d, x) # next /\ Reaction(d, r) # next
      BY <2>3, JobShape DEF next
    <3>2. QED
      BY <1>14, <2>1, <2>2, <3>1 DEF JobsInv
  <2>4. CASE d = c
    <3>1. \A y \in 1 .. program.chains[c].links :
            IsWaiting(Reaction(c, y)) /\ Reaction(c, y) # j => FALSE
      BY <1>2 DEF JobsInv, j
    <3>2. Reaction(c, x) = next /\ Reaction(c, r) = next
      BY <1>14, <2>1, <2>2, <2>4, <3>1
    <3>3. QED
      BY <3>2, JobShape DEF next
  <2>5. QED
    BY <2>3, <2>4
<1>17. \A w, u \in Queued("microtask") :
         ticket'[Job(w)] >= 0 /\ ticket'[Job(u)] >= 0 => w \notin Around(u)
  <2>1. \A u \in Queued("microtask") : ticket'[Job(u)] >= 0 => IsWaiting(Job(u))
    BY <1>14, JobsAre, JobShape DEF next
  <2>2. QED
    BY <2>1 DEF JobsInv
<1>18. (\A d \in DOMAIN program.chains :
         \A x, r \in 1 .. program.chains[d].links :
           IsWaiting(Reaction(d, x)) /\ IsWaiting(Reaction(d, r)) => x = r)'
  BY <1>1, <1>16 DEF IsWaiting
<1>19. (\A w, u \in Queued("microtask") :
         IsWaiting(Job(w)) /\ IsWaiting(Job(u)) => w \notin Around(u))'
  BY <1>1, <1>17 DEF IsWaiting, Queued, Around, ClosedOutwards, Callbacks, C
<1>20. JobsInv'
  BY <1>4, <1>13, <1>15, <1>18, <1>19 DEF JobsInv
<1>21. jobs \in Registered(program, Head(q)) /\ Head(q) \in Jobs(program)
  BY <1>2, <1>5, JobShape DEF Registered, j, jobs, more, next
<1>22. QueueMoves
  BY <1>1, <1>4, <1>5, <1>12, <1>15, <1>21 DEF QueueMoves, q
<1>23. QED
  BY <1>20, <1>22

\* The script ends with an executor that settles: its reaction is the first job.
LEMMA JobsSettle ==
  ASSUME JobsInv, program \in Program, NEW e \in Divergent(program), ReturnSettled(e)
  PROVE  JobsInv' /\ QueueMoves
<1> DEFINE q == QueueOf(ticket)
           c == FirstChain(e)
           j == Reaction(c, 1)
           jobs == <<j>>
<1>1. /\ phase = 1 /\ phase' = phase /\ program' = program /\ decided' = decided \cup {e}
      /\ e \in Undecided /\ PriorDecided(e) /\ HasReaction(e)
      /\ ticket' = [ticket EXCEPT ![j] = nextTicket] /\ nextTicket' = nextTicket + 1
  BY DEF ReturnSettled, Deciding, Undecided
<1>2. Waits(ticket) = {} /\ \A k \in Jobs(program) : ~IsWaiting(k)
  BY <1>1, QueueHolds DEF JobsInv
<1>3. /\ ticket \in [Jobs(program) -> Int] /\ DOMAIN ticket = Jobs(program)
      /\ nextTicket \in Nat /\ Queues(Jobs(program), ticket, nextTicket, q)
      /\ q \in Seq(Jobs(program))
  BY QueueHolds DEF JobsInv
<1>4. c \in DOMAIN program.chains /\ c \in ChainOf(e)
  <2>1. ChainOf(e) # {} /\ ChainOf(e) \subseteq DOMAIN program.chains
    BY <1>1 DEF HasReaction, ChainOf
  <2>2. ChainOf(e) \subseteq Nat
    BY <2>1, ChainShape
  <2>3. \E d \in ChainOf(e) : \A f \in ChainOf(e) : d <= f
    BY <2>1, <2>2, LeastNat
  <2>4. c \in ChainOf(e)
    BY <2>3 DEF FirstChain
  <2>5. QED
    BY <2>1, <2>4
<1>5. j \in Jobs(program)
  <2>1. program.chains[c].links > 0 /\ program.chains[c].links \in Nat
    BY <1>1, <1>4, ChainShape DEF HasReaction
  <2>2. 1 \in 1 .. program.chains[c].links
    BY <2>1
  <2>3. QED
    BY <1>4, <2>2, JobsAre
<1> HIDE DEF q, j
<1>6. jobs \in Seq(Jobs(program)) /\ Distinct(jobs) /\ Held(jobs) = {j} /\ Len(jobs) = 1
      /\ DOMAIN jobs = {1} /\ jobs[1] = j
  BY <1>5 DEF Distinct, Held
<1>7. /\ ticket' \in [Jobs(program) -> Int] /\ ticket'[j] = nextTicket
      /\ \A k \in Jobs(program) : k # j => ticket'[k] = ticket[k]
  BY <1>1, <1>3, <1>5
<1>8. Queues(Jobs(program), ticket', nextTicket', q \o jobs)
  <2>1. ticket[j] < 0
    BY <1>2, <1>3, <1>5 DEF IsWaiting
  <2> HIDE DEF jobs
  <2>2. \A i \in DOMAIN jobs : ticket[jobs[i]] < 0 /\ ticket'[jobs[i]] = nextTicket + i - 1
    BY <1>3, <1>6, <1>7, <2>1
  <2>3. \A k \in Jobs(program) : k \notin Held(jobs) => ticket'[k] = ticket[k]
    BY <1>6, <1>7
  <2>4. Queues(Jobs(program), ticket', nextTicket + Len(jobs), q \o jobs)
    BY <1>3, <1>6, <1>7, <2>2, <2>3, QueueGrows
  <2>5. QED
    BY <1>1, <1>6, <2>4
<1>9. QueueOf(ticket') = q \o jobs /\ q \o jobs = Append(q, j)
  BY <1>3, <1>5, <1>8, QueueIs, AppendIsConcat
<1>10. Queues(Jobs(program), ticket, nextTicket, QueueOf(ticket))'
  BY <1>1, <1>8, <1>9
<1>11. Undecided' = {}
  <2>1. \A d \in Divergent(program) : d <= e
    BY <1>1 DEF JobsInv, ScriptEndsFirst
  <2>2. Divergent(program) \subseteq Nat
    BY <1>4, ChainShape DEF Divergent
  <2>3. \A d \in Divergent(program) : d \in decided'
    BY <1>1, <2>1, <2>2 DEF PriorDecided
  <2>4. QED
    BY <1>1, <2>3 DEF Undecided
<1>12. ScriptEndsFirst'
  BY <1>1, ScriptEndsStays DEF JobsInv
<1>13. \A k \in Jobs(program) : ticket'[k] >= 0 => k = j
  BY <1>2, <1>7 DEF IsWaiting
<1>14. (\A d \in DOMAIN program.chains :
         \A s, r \in 1 .. program.chains[d].links :
           IsWaiting(Reaction(d, s)) /\ IsWaiting(Reaction(d, r)) => s = r)'
  <2>1. ASSUME NEW d \in DOMAIN program.chains, NEW s \in 1 .. program.chains[d].links,
               NEW r \in 1 .. program.chains[d].links,
               ticket'[Reaction(d, s)] >= 0, ticket'[Reaction(d, r)] >= 0
        PROVE  s = r
    BY <1>13, <2>1, JobsAre, JobShape
  <2>2. QED
    BY <1>1, <2>1 DEF IsWaiting
<1>15. \A w, u \in Queued("microtask") : ~(ticket'[Job(w)] >= 0)
  BY <1>13, JobsAre, JobShape DEF j
<1>16. (\A w, u \in Queued("microtask") :
         IsWaiting(Job(w)) /\ IsWaiting(Job(u)) => w \notin Around(u))'
  BY <1>1, <1>15 DEF IsWaiting, Queued, Callbacks, C
<1>17. JobsInv'
  BY <1>1, <1>10, <1>11, <1>12, <1>14, <1>16 DEF JobsInv
<1>18. QueueMoves
  BY <1>1, <1>5, <1>9 DEF QueueMoves, q
<1>19. QED
  BY <1>17, <1>18

\* The script queues its jobs in source order.
LEMMA JobsStart ==
  ASSUME Init, ScriptEndsFirst
  PROVE  JobsInv /\ QueueOf(ticket) = InitialJobs(program)
<1> DEFINE D == Jobs(program)
           blank == [j \in D |-> -1]
           jobs == InitialJobs(program)
<1>1. /\ program \in Program /\ phase = 1 /\ decided = {}
      /\ ticket = [j \in D |-> Sequenced(jobs, j)] /\ nextTicket = Len(jobs)
  BY DEF Init
<1>2. jobs \in Seq(D) /\ Held(jobs) = ScriptJobs(program) /\ Distinct(jobs)
  BY <1>1, ScriptJobsAre
<1>3. /\ \A i \in DOMAIN jobs : Sequenced(jobs, jobs[i]) = i - 1 /\ Sequenced(jobs, jobs[i]) >= 0
      /\ \A x : x \notin Held(jobs) => Sequenced(jobs, x) = -1
  BY <1>2, SequencedIs
<1> HIDE DEF jobs, D
<1>4. Queues(D, blank, 0, <<>>)
  <2>1. Waits(blank) = {}
    BY DEF Waits
  <2>2. blank \in [D -> Int] /\ \A j \in D : blank[j] < 0
    OBVIOUS
  <2>3. Sorts(<<>>, Waits(blank), blank)
    BY <2>1 DEF Sorts, Held
  <2> HIDE DEF blank
  <2>4. QED
    BY <2>2, <2>3 DEF Queues
<1>5. \A i \in DOMAIN jobs : jobs[i] \in D /\ i \in Nat /\ ticket[jobs[i]] = 0 + i - 1
  BY <1>1, <1>2, <1>3
<1>6. \A j \in D : j \notin Held(jobs) => ticket[j] = blank[j]
  BY <1>1, <1>3
<1>7. ticket \in [D -> Int]
  <2>1. ASSUME NEW j \in D PROVE Sequenced(jobs, j) \in Int
    <3>1. CASE j \in Held(jobs)
      <4>1. PICK i \in DOMAIN jobs : j = jobs[i]
        BY <3>1 DEF Held
      <4>2. QED
        BY <1>3, <1>5, <4>1
    <3>2. CASE j \notin Held(jobs)
      BY <1>3, <3>2
    <3>3. QED
      BY <3>1, <3>2
  <2>2. QED
    BY <1>1, <2>1
<1>8. Queues(D, ticket, 0 + Len(jobs), <<>> \o jobs)
  <2>1. \A i \in DOMAIN jobs : blank[jobs[i]] < 0
    BY <1>5
  <2> HIDE DEF blank
  <2>2. QED
    BY <1>2, <1>4, <1>5, <1>6, <1>7, <2>1, QueueGrows
<1>9. Queues(D, ticket, nextTicket, jobs)
  BY <1>1, <1>2, <1>8
<1>10. QueueOf(ticket) = jobs /\ Held(jobs) = Waits(ticket)
  BY <1>9, QueueIs
<1>11. \A j \in D : IsWaiting(j) => j \in ScriptJobs(program)
  BY <1>2, <1>7, <1>10 DEF Waits, IsWaiting
<1>12. Undecided # {} => Waits(ticket) = {}
  <2>1. SUFFICES ASSUME Undecided # {} PROVE ScriptJobs(program) = {}
    BY <1>2, <1>10
  <2>2. Queued("microtask") = {} /\ \A c \in DOMAIN program.chains : ~Settled(program, c)
    BY <2>1 DEF Undecided, ScriptEndsFirst
  <2>3. QED
    BY <2>2 DEF ScriptJobs, Queued, Callbacks, C
<1>13. \A c \in DOMAIN program.chains :
         \A s \in 1 .. program.chains[c].links : IsWaiting(Reaction(c, s)) => s = 1
  <2>1. SUFFICES ASSUME NEW c \in DOMAIN program.chains, NEW s \in 1 .. program.chains[c].links,
                        IsWaiting(Reaction(c, s))
                 PROVE  s = 1
    OBVIOUS
  <2>2. Reaction(c, s) \in ScriptJobs(program)
    BY <1>1, <1>11, <2>1, JobsAre DEF D
  <2>3. QED
    BY <2>2, JobShape DEF ScriptJobs
<1>14. \A u \in Queued("microtask") : IsWaiting(Job(u)) => Around(u) = {}
  <2>1. SUFFICES ASSUME NEW u \in Queued("microtask"), IsWaiting(Job(u)) PROVE Around(u) = {}
    OBVIOUS
  <2>2. Job(u) \in ScriptJobs(program)
    BY <1>1, <1>11, <2>1, JobsAre DEF D
  <2>3. C[u].parent = 0
    BY <2>2, JobShape DEF ScriptJobs, C
  <2>4. QED
    BY <2>3 DEF Around
<1>15. Queues(Jobs(program), ticket, nextTicket, QueueOf(ticket))
  BY <1>9, <1>10 DEF D
<1>16. JobsInv
  BY <1>1, <1>12, <1>13, <1>14, <1>15 DEF JobsInv
<1>17. QED
  BY <1>10, <1>16 DEF jobs

LEMMA JobsStay ==
  ASSUME CallbacksTyped, JobsInv, [Next]_vars
  PROVE  JobsInv' /\ QueueMoves
<1>1. program \in Program /\ phase \in 0 .. 2
  BY DEF CallbacksTyped, JobsInv
<1>2. ASSUME program' = program, ticket' = ticket, nextTicket' = nextTicket, decided' = decided,
             phase' \in 0 .. 2, phase' # 1 => phase # 1
      PROVE  JobsInv' /\ QueueMoves
  BY <1>2, JobsKeep
<1>3. ASSUME Checkpoint PROVE JobsInv' /\ QueueMoves
  <2>1. ASSUME NEW e \in Divergent(program), Diverge(e) \/ ReturnPending(e)
        PROVE  JobsInv' /\ QueueMoves
    <3>1. /\ program' = program /\ ticket' = ticket /\ nextTicket' = nextTicket
          /\ Undecided # {} /\ decided \subseteq decided' /\ phase' = phase
      BY <2>1 DEF Diverge, ReturnPending, Deciding, Undecided
    <3>2. QED
      BY <1>1, <3>1, JobsKeep
  <2>2. ASSUME NEW e \in Divergent(program), ReturnSettled(e) PROVE JobsInv' /\ QueueMoves
    BY <1>1, <2>2, JobsSettle
  <2>3. ASSUME NEW t \in Queued("microtask"), NEW a \in Alternatives(program, t),
               DrainMicrotask(t, a)
        PROVE  JobsInv' /\ QueueMoves
    BY <1>1, <2>3, JobsDrain
  <2>4. ASSUME NEW c \in DOMAIN program.chains, NEW s \in 1 .. program.chains[c].links,
               DrainReaction(c, s)
        PROVE  JobsInv' /\ QueueMoves
    BY <1>1, <2>4, JobsReact
  <2>5. CASE FinishMicrotaskCheckpoint
    <3>1. /\ program' = program /\ ticket' = ticket /\ nextTicket' = 0 /\ decided' = decided
          /\ phase' = 2 /\ \A j \in DOMAIN ticket : ticket[j] < 0
      BY <2>5 DEF FinishMicrotaskCheckpoint, host
    <3>2. Waits(ticket) = {}
      BY <3>1, QueueHolds DEF Waits
    <3>3. QED
      BY <3>1, <3>2, JobsKeep
  <2>6. QED
    BY <1>3, <2>1, <2>2, <2>3, <2>4, <2>5 DEF Checkpoint
<1>4. ASSUME NEW t \in Callbacks, RunTask(t) PROVE JobsInv' /\ QueueMoves
  <2>1. PICK a \in {0} \cup Alternatives(program, t) :
          \/ RunAnimationFrame(t, a) \/ RunSchedulerTask(t, a) \/ RunTimer(t, a)
          \/ a = 0 /\ RunExternalEvent(t)
    BY <1>4 DEF RunTask
  <2>2. /\ program' = program /\ decided' = decided /\ phase # 1 /\ phase' = 1
        /\ QueueChildren(t, a, ticket)
    BY <2>1 DEF RunAnimationFrame, RunSchedulerTask, RunTimer, RunExternalEvent, host
  <2>3. QED
    BY <1>1, <2>2, JobsRun
<1>5. ASSUME Turn PROVE JobsInv' /\ QueueMoves
  <2>1. /\ program' = program /\ ticket' = ticket /\ nextTicket' = nextTicket
        /\ decided' = decided /\ phase' \in 0 .. 2 /\ (phase' # 1 => phase # 1)
    BY <1>5 DEF Turn, Paint, SkipRenderingOpportunity, AdvanceClock, IdleTurn, host
  <2>2. QED
    BY <1>2, <2>1
<1>6. ASSUME Settle PROVE JobsInv' /\ QueueMoves
  <2>1. /\ program' = program /\ ticket' = ticket /\ nextTicket' = nextTicket
        /\ decided' = decided /\ phase' = phase
    BY <1>6 DEF Settle, Reprioritize, ChooseAbortPath, host
  <2>2. QED
    BY <1>1, <1>2, <2>1
<1>7. ASSUME Environment PROVE JobsInv' /\ QueueMoves
  <2>1. /\ program' = program /\ ticket' = ticket /\ nextTicket' = nextTicket
        /\ decided' = decided /\ phase' = phase
    BY <1>7 DEF Environment, CancelAborted, CancelFromExternalSignal, CompleteExternal,
       CancelTimer, RemoveListener, AbortFrom, host
  <2>2. QED
    BY <1>1, <1>2, <2>1
<1>8. CASE UNCHANGED vars
  BY <1>1, <1>2, <1>8 DEF vars
<1>9. QED
  BY <1>3, <1>4, <1>5, <1>6, <1>7, <1>8 DEF Next, Step

\* For every program whose script ends with the executors that may diverge, if it has
\* any, the tickets implement the host's queue of microtasks.
THEOREM JobQueueImplemented == Spec /\ ScriptEndsFirst => DrainsInOrder
<1>1. Init /\ ScriptEndsFirst => CallbacksTyped /\ JobsInv /\ Microtasks!Init
  BY CallbacksStart, JobsStart DEF Microtasks!Init
<1>2. CallbacksTyped /\ JobsInv /\ [Next]_vars =>
        /\ (CallbacksTyped /\ JobsInv)'
        /\ [Microtasks!Next]_(Microtasks!vars)
  BY CallbacksStay, JobsStay, MovesInOrder
<1>3. QED
  BY <1>1, <1>2, PTL DEF Spec, DrainsInOrder, Microtasks!Spec
=============================================================================
