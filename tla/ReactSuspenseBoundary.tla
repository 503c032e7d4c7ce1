----------------------- MODULE ReactSuspenseBoundary -----------------------
(***************************************************************************)
(* The machine generateReactSuspenseBoundaryQuint writes for a boundary    *)
(* whose primary and fallback components have effects                      *)
(* (src/analysis/react-semantics.ts).  A component is the sequence of the  *)
(* commit phases of its effects; each effect is set up once, as in the     *)
(* production replay.                                                      *)
(***************************************************************************)
EXTENDS Naturals

CONSTANT Component  \* pairs [primary, fallback]

VARIABLES
  component,  \* never changes
  state

vars == <<component, state>>

Primary == DOMAIN component.primary
Fallback == DOMAIN component.fallback

\* The flags of the effects are the sets of the effects set up and cleaned up.
Init ==
  /\ component \in Component
  /\ state = [primary_suspended |-> 0, primary_suspension_resolved |-> 0,
              fallback_committed |-> 0, primary_committed |-> 0,
              fallback_setup |-> {}, fallback_cleanup |-> {}, primary_setup |-> {}]

SuspendPrimary ==
  /\ state.primary_suspended = 0
  /\ state' = [state EXCEPT !.primary_suspended = 1]

CommitFallback ==
  /\ state.primary_suspended = 1 /\ state.fallback_committed = 0
  /\ state' = [state EXCEPT !.fallback_committed = 1]

ResolvePrimarySuspension ==
  /\ state.primary_suspended = 1 /\ state.primary_suspension_resolved = 0
  /\ state' = [state EXCEPT !.primary_suspension_resolved = 1]

\* Deliberate fault: the reveal does not wait for the data.
RevealUnresolved ==
  /\ state.fallback_committed = 1 /\ state.primary_committed = 0
  /\ state' = [state EXCEPT !.primary_committed = 1]

RevealPrimary ==
  /\ state.fallback_committed = 1 /\ state.primary_suspension_resolved = 1
  /\ state.primary_committed = 0
  /\ state' = [state EXCEPT !.primary_committed = 1]

\* Deliberate fault: a fallback that is hidden before its effects are set up never
\* sets them up, nor cleans them up.
SetupFallbackInTime(i) ==
  /\ state.fallback_committed = 1 /\ state.primary_committed = 0
  /\ i \notin state.fallback_setup
  /\ state' = [state EXCEPT !.fallback_setup = @ \cup {i}]

SetupFallback(i) ==
  /\ state.fallback_committed = 1 /\ i \notin state.fallback_setup
  /\ state' = [state EXCEPT !.fallback_setup = @ \cup {i}]

CleanupFallback(i) ==
  /\ state.primary_committed = 1
  /\ i \in state.fallback_setup /\ i \notin state.fallback_cleanup
  /\ state' = [state EXCEPT !.fallback_cleanup = @ \cup {i}]

\* The fallback's effects in the commit phase of a primary effect.
Matching(i) == {k \in Fallback : component.fallback[k] = component.primary[i]}

SetupPrimary(i) ==
  /\ state.primary_committed = 1 /\ i \notin state.primary_setup
  /\ Matching(i) \subseteq state.fallback_cleanup
  /\ state' = [state EXCEPT !.primary_setup = @ \cup {i}]

Step ==
  \/ SuspendPrimary \/ CommitFallback \/ ResolvePrimarySuspension \/ RevealPrimary
  \/ \E i \in Fallback : SetupFallback(i) \/ CleanupFallback(i)
  \/ \E i \in Primary : SetupPrimary(i)

Next == Step /\ UNCHANGED component

Spec == Init /\ [][Next]_vars

-----------------------------------------------------------------------------
\* Properties.

\* The predicate the generator hands to the model checker: the primary is revealed
\* after its suspension is resolved, and in each phase its effects are set up after
\* those of the fallback are cleaned up.
suspenseBoundarySafe ==
  /\ state.primary_suspension_resolved <= state.primary_suspended
  /\ state.fallback_committed <= state.primary_suspended
  /\ state.primary_committed <= state.fallback_committed
  /\ state.primary_committed = 1 => state.primary_suspension_resolved = 1
  /\ state.fallback_cleanup \subseteq state.fallback_setup
  /\ state.fallback_setup # {} => state.fallback_committed = 1
  /\ state.fallback_cleanup \cup state.primary_setup # {} => state.primary_committed = 1
  /\ \A i \in state.primary_setup : Matching(i) \subseteq state.fallback_cleanup

Screen ==
  IF state.primary_committed = 1 THEN "new"
  ELSE IF state.fallback_committed = 1 THEN "fallback" ELSE "nothing"

\* Every effect of the primary is set up, every one of the fallback cleaned up.
Settled == state.primary_setup = Primary /\ state.fallback_cleanup = Fallback
=============================================================================
