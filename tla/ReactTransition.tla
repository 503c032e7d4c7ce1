--------------------------- MODULE ReactTransition ---------------------------
(***************************************************************************)
(* The machine generateReactTransitionQuint writes for useTransition       *)
(* (src/analysis/react-semantics.ts): Actions settle in any order, and a   *)
(* background render shows their final state unless an urgent update       *)
(* interrupts it.                                                          *)
(***************************************************************************)
EXTENDS Naturals

CONSTANTS
  MaxActions,
  MaxInterruptions  \* urgent updates that are explored; the machine has no limit

VARIABLE state

Init ==
  state = [started |-> 0, settled |-> 0, shown |-> 0, renderAttempts |-> 0, interrupted |-> 0,
           commits |-> 0, activeRender |-> 0, pending |-> 0]

StartAction ==
  /\ state.started < MaxActions
  /\ state' = [state EXCEPT !.started = @ + 1, !.pending = 1]

SettleAction ==
  /\ state.settled < state.started
  /\ state' = [state EXCEPT !.settled = @ + 1]

BeginRender ==
  /\ state.activeRender = 0 /\ state.shown < state.settled
  /\ state' = [state EXCEPT !.renderAttempts = @ + 1, !.activeRender = 1]

InterruptRender ==
  /\ state.activeRender = 1 /\ state.interrupted < MaxInterruptions
  /\ state' = [state EXCEPT !.interrupted = @ + 1, !.activeRender = 0]

CommitRender ==
  /\ state.activeRender = 1 /\ state.settled = state.started
  /\ state' = [state EXCEPT !.shown = state.settled, !.commits = @ + 1, !.activeRender = 0,
                            !.pending = 0]

HostStep == SettleAction \/ BeginRender \/ CommitRender

Request == StartAction \/ InterruptRender

Next == Request \/ HostStep

Spec == Init /\ [][Next]_state

-----------------------------------------------------------------------------
\* Properties.

\* The predicate the generator hands to the model checker: an attempt is active,
\* interrupted or committed, and the Transition is pending exactly as long as an
\* Action that has started is not shown.
reactTransitionSafe ==
  /\ state.shown <= state.settled /\ state.settled <= state.started
  /\ state.started <= MaxActions
  /\ state.interrupted + state.commits <= state.renderAttempts
  /\ state.activeRender = state.renderAttempts - state.interrupted - state.commits
  /\ state.activeRender \in 0 .. 1 /\ state.pending \in 0 .. 1
  /\ state.pending = 1 <=> state.shown < state.started
=============================================================================
