-------------------------- MODULE ChaoticIteration --------------------------
(***************************************************************************)
(* What the data-flow engine promises, without its worklist: values start  *)
(* at Bottom, grow one join at a time, each join justified by the entry    *)
(* value or by a transfer of a block some path has reached, and the        *)
(* verdict "converged" is given only to a solution.  In what order blocks  *)
(* are visited, how often, and when the engine gives up is left open.      *)
(***************************************************************************)
EXTENDS FlowProblem

VARIABLES program, states, verdict

vars == <<program, states, verdict>>

Init ==
  /\ program \in Program
  /\ states = [b \in Block |-> Bottom]
  /\ verdict = "open"

Raise(b, v) ==
  /\ Join(states[b], v) \in Value
  /\ states' = [states EXCEPT ![b] = Join(@, v)]
  /\ UNCHANGED <<program, verdict>>

Seed == Raise(Entry(program), Initial(program))

\* The transfer was evaluated on a value the block had at some time: at most
\* the one it has now.
Improve ==
  \E b \in Block, u \in Value :
    /\ ReachedIn(program, states, b)
    /\ Absorbs(states[b], u)
    /\ \E i \in DOMAIN Transfer(program, b, u) :
         Raise(Transfer(program, b, u)[i].to, Transfer(program, b, u)[i].value)

Converge ==
  /\ IsSolution(program, states)
  /\ verdict' = "converged"
  /\ UNCHANGED <<program, states>>

GiveUp ==
  /\ verdict' = "unknown"
  /\ UNCHANGED <<program, states>>

Next == verdict = "open" /\ (Seed \/ Improve \/ Converge \/ GiveUp)

Spec == Init /\ [][Next]_vars
=============================================================================
