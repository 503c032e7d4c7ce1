----------------------- MODULE ReactSuspenseFallback -----------------------
(***************************************************************************)
(* The machine generateReactSuspenseFallbackQuint writes for an update     *)
(* that may show the fallback (src/analysis/react-semantics.ts): a newly   *)
(* mounted boundary, or an urgent update of one that shows content.        *)
(***************************************************************************)
EXTENDS Naturals

VARIABLES
  component,  \* "newlyMountedTransition" or "urgentUpdate"; never changes
  state

vars == <<component, state>>

Init ==
  /\ component \in {"newlyMountedTransition", "urgentUpdate"}
  /\ state = [update_started |-> 0, pending |-> 0, render_attempts |-> 0, active_render |-> 0,
              suspended |-> 0, resolved |-> 0, fallback_committed |-> 0, committed |-> 0,
              content_visible |-> IF component = "urgentUpdate" THEN 1 ELSE 0,
              fallback_visible |-> 0]

StartUpdate ==
  /\ state.update_started = 0
  /\ state' = [state EXCEPT !.update_started = 1, !.pending = 1]

BeginRender ==
  /\ state.update_started = 1 /\ state.render_attempts = 0 /\ state.active_render = 0
  /\ state' = [state EXCEPT !.render_attempts = 1, !.active_render = 1]

SuspendRender ==
  /\ state.active_render = 1 /\ state.suspended = 0
  /\ state' = [state EXCEPT !.active_render = 0, !.suspended = 1]

CommitFallbackAfterSuspension ==
  /\ state.suspended = 1 /\ state.resolved = 0
  /\ state.fallback_committed = 0 /\ state.committed = 0
  /\ state' = [state EXCEPT !.fallback_committed = 1, !.content_visible = 0,
                            !.fallback_visible = 1]

ResolveSuspension ==
  /\ state.suspended = 1 /\ state.resolved = 0
  /\ state' = [state EXCEPT !.resolved = 1]

RetryRender ==
  /\ state.suspended = 1 /\ state.resolved = 1
  /\ state.render_attempts = 1 /\ state.active_render = 0
  /\ state' = [state EXCEPT !.render_attempts = 2, !.active_render = 1]

CommitContent ==
  /\ state.active_render = 1 /\ state.committed = 0
  /\ state.suspended = 0 \/ state.resolved = 1
  /\ state' = [state EXCEPT !.active_render = 0, !.committed = 1, !.pending = 0,
                            !.content_visible = 1, !.fallback_visible = 0]

HostStep == BeginRender \/ ResolveSuspension \/ RetryRender \/ CommitContent

Request == StartUpdate \/ SuspendRender \/ CommitFallbackAfterSuspension

Next == (Request \/ HostStep) /\ UNCHANGED component

Spec == Init /\ [][Next]_vars

-----------------------------------------------------------------------------
\* Properties.

\* The predicate the generator hands to the model checker: the fallback is on the
\* screen only between a suspension and the content that replaces it, never beside it.
reactSuspenseFallbackSafe ==
  /\ state.pending = 1 <=> state.update_started = 1 /\ state.committed = 0
  /\ state.render_attempts <= 2 /\ state.active_render \in 0 .. 1
  /\ state.active_render + state.suspended + state.committed = state.render_attempts
  /\ state.resolved <= state.suspended /\ state.fallback_committed <= state.suspended
  /\ state.committed = 1 => state.suspended = 0 \/ state.resolved = 1
  /\ state.content_visible + state.fallback_visible <= 1
  /\ state.fallback_visible = 1 <=> state.fallback_committed = 1 /\ state.committed = 0
  /\ state.fallback_visible = 1 => state.suspended = 1
  /\ state.committed = 1 => state.content_visible = 1

Screen ==
  IF state.fallback_visible = 1 THEN "fallback"
  ELSE IF state.committed = 1 THEN "new"
  ELSE IF state.content_visible = 1 THEN "old" ELSE "nothing"
=============================================================================
