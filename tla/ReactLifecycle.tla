--------------------------- MODULE ReactLifecycle ---------------------------
(***************************************************************************)
(* The machine generateReactLifecycleQuint writes for one component in one *)
(* of the scenarios of replayModel (src/analysis/react-semantics.ts): the  *)
(* attempts to render it, and the setups and cleanups of its effects.      *)
(***************************************************************************)
EXTENDS Naturals, Sequences, FiniteSets

CONSTANT Component  \* pairs [effects |-> phases of its effects, scenario]

VARIABLES
  component,  \* never changes
  state

vars == <<component, state>>

reactCommitPhaseOrder ==
  [p \in {"insertion-effect", "ref-callback", "layout-effect", "imperative-handle",
          "external-store-subscribe", "passive-effect"} |->
     CASE p = "insertion-effect" -> 0 [] p = "ref-callback" -> 1
       [] p \in {"layout-effect", "imperative-handle"} -> 2
       [] p \in {"external-store-subscribe", "passive-effect"} -> 3]

\* The sort by phase is stable.
SortsBefore(effects, i, j) ==
  LET rank == reactCommitPhaseOrder
  IN  rank[effects[i]] < rank[effects[j]] \/ (rank[effects[i]] = rank[effects[j]] /\ i <= j)

\* The effects in the order of their phases.
Ordered(effects) ==
  [n \in DOMAIN effects |->
    effects[CHOOSE j \in DOMAIN effects :
              Cardinality({i \in DOMAIN effects : SortsBefore(effects, i, j)}) = n]]

Discarded == [outcome |-> "discarded", commit |-> 0, suspension |-> 0, retryOf |-> 0]
Committed(c) == [Discarded EXCEPT !.outcome = "committed", !.commit = c]
Suspended(s) == [Discarded EXCEPT !.outcome = "suspended", !.suspension = s]
RetryOf(s, attempt) == [attempt EXCEPT !.retryOf = s]

Setup(c) == [transition |-> "setup", commit |-> c]
Cleanup(c) == [transition |-> "cleanup", commit |-> c]

\* Per scenario, the attempts and the life of every effect.
replayModel ==
  [production |-> [attempts |-> <<Committed(1)>>, life |-> <<Setup(1)>>],
   strictModeDevelopment |-> [attempts |-> <<Discarded, Committed(1)>>,
                              life |-> <<Setup(1), Cleanup(1), Setup(1)>>],
   concurrentInterruption |-> [attempts |-> <<Discarded, Committed(1)>>, life |-> <<Setup(1)>>],
   dependencyChange |-> [attempts |-> <<Committed(1), Committed(2)>>,
                         life |-> <<Setup(1), Cleanup(1), Setup(2)>>],
   suspenseRetry |-> [attempts |-> <<Suspended(1), RetryOf(1, Committed(1))>>,
                      life |-> <<Setup(1)>>],
   repeatedSuspenseRetry |-> [attempts |-> <<Suspended(1), RetryOf(1, Suspended(2)),
                                             RetryOf(2, Committed(1))>>,
                              life |-> <<Setup(1)>>]]

ScenariosKnown == \A c \in Component : c.scenario \in DOMAIN replayModel

Replay == replayModel[component.scenario]
Effects == Ordered(component.effects)

\* How many setups (cleanups) the life of an effect has up to step k.
Setups(k) == Cardinality({i \in 1 .. k : Replay.life[i].transition = "setup"})
Cleanups(k) == k - Setups(k)

\* The generations committed, the suspensions met and those resolved are sets.
Init ==
  /\ component \in Component
  /\ state = [rendered |-> 0, commits |-> {}, suspensions |-> {}, resolved |-> {},
              setup |-> [i \in DOMAIN component.effects |-> 0],
              cleanup |-> [i \in DOMAIN component.effects |-> 0]]

ResolveSuspension(s) ==
  /\ s \in state.suspensions /\ s \notin state.resolved
  /\ state' = [state EXCEPT !.resolved = @ \cup {s}]

\* Deliberate fault: the retry does not wait for the suspension to be resolved.
RetryBeforeResolution(i) ==
  LET attempt == Replay.attempts[i]
  IN /\ state.rendered = i - 1
     /\ state' = [state EXCEPT !.rendered = i,
                    !.commits = @ \cup ({attempt.commit} \ {0}),
                    !.suspensions = @ \cup ({attempt.suspension} \ {0})]

RenderAttempt(i) ==
  LET attempt == Replay.attempts[i]
  IN /\ state.rendered = i - 1
     /\ attempt.retryOf # 0 => attempt.retryOf \in state.resolved
     /\ state' = [state EXCEPT !.rendered = i,
                    !.commits = @ \cup ({attempt.commit} \ {0}),
                    !.suspensions = @ \cup ({attempt.suspension} \ {0})]

\* The k-th step of effect e waits for its own earlier steps and its commit, not for
\* the other effects.
LifecycleStep(e, k) ==
  /\ Replay.life[k].commit \in state.commits
  /\ state.setup[e] = Setups(k - 1) /\ state.cleanup[e] = Cleanups(k - 1)
  /\ state' = [state EXCEPT !.setup[e] = Setups(k), !.cleanup[e] = Cleanups(k)]

Step ==
  \/ \E s \in state.suspensions : ResolveSuspension(s)
  \/ \E i \in DOMAIN Replay.attempts : RenderAttempt(i)
  \/ \E e \in DOMAIN Effects, k \in DOMAIN Replay.life : LifecycleStep(e, k)

Next == Step /\ UNCHANGED component

Spec == Init /\ [][Next]_vars

-----------------------------------------------------------------------------
\* Properties.

Reached(e, k) ==
  IF Replay.life[k].transition = "setup" THEN state.setup[e] >= Setups(k)
  ELSE state.cleanup[e] >= Cleanups(k)

\* An effect is set up in a generation that has committed, and cleaned up at most
\* once per setup; a retry comes after its suspension is resolved.
CountsAgree ==
  /\ state.rendered <= Len(Replay.attempts) /\ state.resolved \subseteq state.suspensions
  /\ \A i \in 1 .. state.rendered :
       Replay.attempts[i].retryOf \in {0} \cup state.resolved
  /\ \A e \in DOMAIN Effects :
       /\ state.cleanup[e] <= state.setup[e] /\ state.setup[e] <= state.cleanup[e] + 1
       /\ state.setup[e] <= Setups(Len(Replay.life))
       /\ state.cleanup[e] <= Cleanups(Len(Replay.life))
       /\ \A k \in DOMAIN Replay.life :
            Reached(e, k) => Replay.life[k].commit \in state.commits

\* No effect of a later phase has been set up more often than the one before it in
\* the order of the phases (docs/react-semantics.md: the lifecycle projection).
PhasesInOrder ==
  \A e \in 2 .. Len(Effects) :
    reactCommitPhaseOrder[Effects[e - 1]] < reactCommitPhaseOrder[Effects[e]] =>
      state.setup[e] <= state.setup[e - 1]

\* All effects are of one phase: the order of the phases says nothing of them.
OnePhase ==
  \E rank \in 0 .. 3 :
    \A e \in 1 .. Len(Effects) : reactCommitPhaseOrder[Effects[e]] = rank

\* The predicate the generator hands to the model checker.
reactLifecycleSafe == CountsAgree /\ PhasesInOrder

\* Every attempt has been made and every effect has run through its life.
Done ==
  /\ state.rendered = Len(Replay.attempts)
  /\ \A e \in DOMAIN Effects :
       state.setup[e] = Setups(Len(Replay.life)) /\ state.cleanup[e] = Cleanups(Len(Replay.life))
=============================================================================
