---------------------- MODULE ReactTransitionSuspense ----------------------
(***************************************************************************)
(* The machine generateReactTransitionSuspenseQuint writes for a           *)
(* Transition that updates an already revealed boundary                    *)
(* (src/analysis/react-semantics.ts): background renders suspend once, are *)
(* interrupted, and are retried up to MaxRenderAttempts.                   *)
(***************************************************************************)
EXTENDS Naturals

CONSTANT MaxRenderAttempts

VARIABLE state

Init ==
  state = [transition_started |-> 0, pending |-> 0, render_attempts |-> 0, active_render |-> 0,
           suspended_attempts |-> 0, interrupted_attempts |-> 0, suspended |-> 0, resolved |-> 0,
           committed |-> 0, content_visible |-> 1, fallback_visible |-> 0]

StartTransition ==
  /\ state.transition_started = 0
  /\ state' = [state EXCEPT !.transition_started = 1, !.pending = 1]

BeginTransitionRender ==
  /\ state.transition_started = 1 /\ state.committed = 0
  /\ state.render_attempts = 0 /\ state.active_render = 0
  /\ state' = [state EXCEPT !.render_attempts = @ + 1, !.active_render = 1]

SuspendTransitionRender ==
  /\ state.active_render = 1 /\ state.suspended = 0
  /\ state' = [state EXCEPT !.active_render = 0, !.suspended_attempts = @ + 1, !.suspended = 1]

ResolveSuspension ==
  /\ state.suspended = 1 /\ state.resolved = 0
  /\ state' = [state EXCEPT !.resolved = 1]

RetryTransitionRender ==
  /\ state.suspended = 1 /\ state.resolved = 1 /\ state.committed = 0
  /\ state.active_render = 0 /\ state.render_attempts < MaxRenderAttempts
  /\ state' = [state EXCEPT !.render_attempts = @ + 1, !.active_render = 1]

InterruptTransitionRender ==
  /\ state.active_render = 1 /\ state.render_attempts < MaxRenderAttempts
  /\ state' = [state EXCEPT !.active_render = 0, !.interrupted_attempts = @ + 1]

RetryInterruptedRender ==
  /\ state.transition_started = 1 /\ state.committed = 0 /\ state.active_render = 0
  /\ state.render_attempts =
       state.suspended_attempts + state.interrupted_attempts + state.committed
  /\ state.suspended = 0 \/ state.resolved = 1
  /\ state.render_attempts < MaxRenderAttempts
  /\ state' = [state EXCEPT !.render_attempts = @ + 1, !.active_render = 1]

CommitTransitionContent ==
  /\ state.active_render = 1 /\ state.committed = 0
  /\ state.suspended = 0 \/ state.resolved = 1
  /\ state' = [state EXCEPT !.active_render = 0, !.committed = 1, !.pending = 0]

HostStep ==
  \/ BeginTransitionRender \/ ResolveSuspension \/ RetryTransitionRender
  \/ RetryInterruptedRender \/ CommitTransitionContent

Request == StartTransition \/ SuspendTransitionRender \/ InterruptTransitionRender

Next == Request \/ HostStep

Spec == Init /\ [][Next]_state

-----------------------------------------------------------------------------
\* Properties.

\* The predicate the generator hands to the model checker: every attempt is accounted
\* for, and the old content stays on the screen as long as the Transition is pending.
reactTransitionSuspenseSafe ==
  /\ state.pending = 1 <=> state.transition_started = 1 /\ state.committed = 0
  /\ state.render_attempts <= MaxRenderAttempts
  /\ state.active_render \in 0 .. 1 /\ state.suspended_attempts = state.suspended
  /\ state.active_render + state.suspended_attempts + state.interrupted_attempts
       + state.committed = state.render_attempts
  /\ state.suspended \in 0 .. 1 /\ state.resolved <= state.suspended
  /\ state.committed \in 0 .. 1
  /\ state.committed = 1 => state.suspended = 0 \/ state.resolved = 1
  /\ state.content_visible + state.fallback_visible = 1
  /\ state.pending = 1 => state.content_visible = 1 /\ state.fallback_visible = 0

\* No attempt is left for the retry: a suspension may use up the last one, which an
\* interruption may not.
OutOfAttempts ==
  state.suspended = 1 /\ state.active_render = 0 /\ state.render_attempts = MaxRenderAttempts

Screen ==
  IF state.fallback_visible = 1 THEN "fallback"
  ELSE IF state.committed = 1 THEN "new" ELSE "old"
=============================================================================
