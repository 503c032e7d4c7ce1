-------------------------- MODULE ReactActionQueue --------------------------
(***************************************************************************)
(* The machine generateReactActionQueueQuint writes for one useActionState *)
(* dispatcher (src/analysis/react-semantics.ts).                           *)
(*                                                                         *)
(* The React generators write every variable an action does not update as  *)
(* unchanged; here the variables of a machine are the fields of `state`.   *)
(***************************************************************************)
EXTENDS Naturals

CONSTANT MaxQueuedActions

VARIABLE state

Init ==
  state = [enqueued |-> 0, started |-> 0, settled |-> 0, active |-> 0, pending |-> 0,
           failed |-> 0, cancelled |-> 0]

EnqueueAction ==
  /\ state.cancelled = 0 /\ state.enqueued < MaxQueuedActions
  /\ state' = [state EXCEPT !.enqueued = @ + 1, !.pending = 1]

StartNextAction ==
  /\ state.cancelled = 0 /\ state.active = 0 /\ state.started < state.enqueued
  /\ state' = [state EXCEPT !.started = @ + 1, !.active = 1]

ResolveActiveAction ==
  /\ state.cancelled = 0 /\ state.active = 1
  /\ state' = [state EXCEPT !.settled = @ + 1, !.active = 0,
                            !.pending = IF state.settled + 1 < state.enqueued THEN 1 ELSE 0]

\* Deliberate fault: the failure leaves the rest of the queue alone.
FailActiveActionOnly ==
  /\ state.cancelled = 0 /\ state.active = 1
  /\ state' = [state EXCEPT !.settled = @ + 1, !.active = 0, !.failed = 1,
                            !.pending = IF state.settled + 1 < state.enqueued THEN 1 ELSE 0]

FailActiveAction ==
  /\ state.cancelled = 0 /\ state.active = 1
  /\ state' = [state EXCEPT !.settled = @ + 1, !.active = 0, !.pending = 0, !.failed = 1,
                            !.cancelled = 1]

HostStep == StartNextAction \/ ResolveActiveAction \/ FailActiveAction

Next == EnqueueAction \/ HostStep

Spec == Init /\ [][Next]_state

-----------------------------------------------------------------------------
\* Properties.

\* The predicate the generator hands to the model checker: counts are ordered, one
\* Action runs at a time, and the pending flag and cancellation agree with them.
reactActionQueueSafe ==
  /\ state.settled <= state.started /\ state.started <= state.enqueued
  /\ state.enqueued <= MaxQueuedActions
  /\ state.active = state.started - state.settled /\ state.active \in 0 .. 1
  /\ state.pending \in 0 .. 1 /\ state.cancelled \in 0 .. 1
  /\ state.pending = 1 <=> state.enqueued > state.settled /\ state.cancelled = 0
  /\ state.cancelled = state.failed
  /\ state.cancelled = 1 => state.active = 0 /\ state.pending = 0

\* The Actions the counts stand for.
Status ==
  [i \in 1 .. state.enqueued |->
    CASE i < state.settled \/ (i = state.settled /\ state.failed = 0) -> "done"
      [] i = state.settled /\ state.failed = 1 -> "failed"
      [] i > state.settled /\ i <= state.started -> "running"
      [] i > state.started -> IF state.cancelled = 1 THEN "dropped" ELSE "queued"]
=============================================================================
