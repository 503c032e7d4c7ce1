---------------------- MODULE ReactActionErrorBoundary ----------------------
(***************************************************************************)
(* The machine generateReactActionErrorBoundaryQuint writes for a          *)
(* dispatcher whose reducer throws, under the nearest Error Boundary       *)
(* (src/analysis/react-semantics.ts): after the failure the Hook rethrows  *)
(* in render, the boundary renders its fallback, and the fallback commits. *)
(***************************************************************************)
EXTENDS Naturals

CONSTANT MaxQueuedActions

VARIABLE state

Init ==
  state = [queued |-> 0, started |-> 0, settled |-> 0, active |-> 0, pending |-> 0,
           cancelled |-> 0, failure_stage |-> 0, fallback_rendered |-> 0,
           fallback_committed |-> 0, primary_visible |-> 1]

EnqueueAction ==
  /\ state.failure_stage = 0 /\ state.queued < MaxQueuedActions
  /\ state' = [state EXCEPT !.queued = @ + 1, !.pending = 1]

StartNextAction ==
  /\ state.failure_stage = 0 /\ state.active = 0 /\ state.started < state.queued
  /\ state' = [state EXCEPT !.started = @ + 1, !.active = 1]

ResolveAction ==
  /\ state.failure_stage = 0 /\ state.active = 1
  /\ state' = [state EXCEPT !.settled = @ + 1, !.active = 0,
                            !.pending = IF state.settled + 1 < state.queued THEN 1 ELSE 0]

FailActionAndCancelTail ==
  /\ state.failure_stage = 0 /\ state.active = 1
  /\ state' = [state EXCEPT !.active = 0, !.pending = 0,
                            !.cancelled = state.queued - state.settled - 1, !.failure_stage = 1]

RethrowFromUseActionState ==
  /\ state.failure_stage = 1
  /\ state' = [state EXCEPT !.failure_stage = 2]

RenderErrorFallback ==
  /\ state.failure_stage = 2
  /\ state' = [state EXCEPT !.failure_stage = 3, !.fallback_rendered = 1]

CommitErrorFallback ==
  /\ state.failure_stage = 3
  /\ state' = [state EXCEPT !.failure_stage = 4, !.fallback_committed = 1, !.primary_visible = 0]

HostStep ==
  \/ StartNextAction \/ ResolveAction \/ FailActionAndCancelTail
  \/ RethrowFromUseActionState \/ RenderErrorFallback \/ CommitErrorFallback

Next == EnqueueAction \/ HostStep

Spec == Init /\ [][Next]_state

-----------------------------------------------------------------------------
\* Properties.

\* The predicate the generator hands to the model checker: the queue's counts, and
\* the order of the stages from the failure to the fallback on the screen.
reactActionErrorBoundarySafe ==
  /\ state.settled <= state.started /\ state.started <= state.queued
  /\ state.queued <= MaxQueuedActions /\ state.active \in 0 .. 1 /\ state.pending \in 0 .. 1
  /\ state.active = IF state.failure_stage = 0 THEN state.started - state.settled ELSE 0
  /\ state.pending = 1 <=> state.queued > state.settled /\ state.failure_stage = 0
  /\ state.cancelled <= state.queued /\ state.failure_stage \in 0 .. 4
  /\ state.failure_stage = 0 => state.cancelled = 0 /\ state.started <= state.settled + 1
  /\ state.failure_stage >= 1 =>
       state.pending = 0 /\ state.cancelled = state.queued - state.settled - 1
  /\ state.fallback_rendered = 1 <=> state.failure_stage >= 3
  /\ state.fallback_committed = 1 <=> state.failure_stage = 4
  /\ state.primary_visible + state.fallback_committed = 1

\* The failed Action is not counted as settled here.
Status ==
  [i \in 1 .. state.queued |->
    CASE i <= state.settled -> "done"
      [] i = state.settled + 1 /\ i <= state.started ->
           IF state.failure_stage = 0 THEN "running" ELSE "failed"
      [] i > state.started -> IF state.failure_stage = 0 THEN "queued" ELSE "dropped"]
=============================================================================
