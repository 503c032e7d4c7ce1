-------------------------- MODULE ResourceProtocol --------------------------
(***************************************************************************)
(* evaluateResourceProtocol (src/resources/resource-protocol.ts) on a list *)
(* of transitions, in the order of their positions, beside one of the      *)
(* executions its recorded states have to describe.                        *)
(***************************************************************************)
EXTENDS ResourceStates

CONSTANT MaxLength  \* bound on the length of the list

VARIABLES
  record,     \* the evaluator's states and diagnostics
  execution,  \* the certain states of one execution
  length      \* transitions evaluated so far

lists == <<record, execution, length>>

ListInit ==
  /\ \E duplicate \in SUBSET Resource : record = Initially(duplicate)
  /\ execution = Started
  /\ length = 0

Evaluate(t) ==
  /\ length < MaxLength
  /\ record' = Apply(record, t)
  /\ execution' \in Outcomes(execution, t)
  /\ length' = length + 1

ListNext == \E t \in Transition : Evaluate(t)

ListSpec == ListInit /\ [][ListNext]_lists

-----------------------------------------------------------------------------
\* Properties.

\* While nothing is diagnosed, the recorded states describe every execution of
\* the list, whichever unsure transitions happen in it, and none of them breaks
\* the protocol (resource-protocol.ts:258-270).
CoversEveryExecution ==
  record.diagnosed = {} =>
    /\ ~execution.broken
    /\ \A r \in Resource : execution.actual[r] \in Meaning(record.states[r])

\* A "satisfied" list has no execution that breaks the protocol or leaves an
\* obligation open: "Missing required terminal states are unsatisfied, not
\* silently accepted." (docs/resource-protocols.md:30-31)
SatisfiedIsSafe == TerminalStatus(record) = "satisfied" => Safe(execution)
=============================================================================
