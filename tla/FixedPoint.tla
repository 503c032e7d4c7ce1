----------------------------- MODULE FixedPoint -----------------------------
(***************************************************************************)
(* solveBasicBlockFixedPoint (src/cfg/fixed-point.ts): the worklist engine *)
(* every data-flow analysis of the repository runs on.  One action per     *)
(* early return, per visited block and per transferred value; the values a *)
(* visited block sends are computed once, from the value it has when it is *)
(* taken from the queue, and absorbed one at a time, so a block that feeds *)
(* itself changes while its own transfers are still pending.               *)
(***************************************************************************)
EXTENDS FlowProblem

VARIABLES
  program,     \* the option record of this call; never changes
  status,      \* "validating", "running", or how the call ended
  reason,      \* why an ended call is not "converged"; "none" otherwise
  states,      \* Map of block id to abstract value
  queue,       \* the worklist
  queued,      \* the set kept beside it, to test membership
  iterations,  \* visits charged against the budget
  visiting,    \* the block whose transfers are being absorbed, or NoBlock
  pending      \* its transfers not absorbed yet

vars == <<program, status, reason, states, queue, queued, iterations, visiting, pending>>

Init ==
  /\ program \in Program
  /\ status = "validating"
  /\ reason = "none"
  /\ states = [b \in Block |-> Bottom]
  /\ queue = <<>>
  /\ queued = {}
  /\ iterations = 0
  /\ visiting = NoBlock
  /\ pending = <<>>

\* The call ends; partial states stay readable in the result.
Return(s, r) ==
  /\ status' = s
  /\ reason' = r
  /\ UNCHANGED <<program, states, queue, queued, iterations, visiting, pending>>

-----------------------------------------------------------------------------
\* Before the loop.

RejectBudget ==
  /\ status = "validating"
  /\ Limit(program) <= 0
  /\ Return("thrown", "invalid-budget")

RejectGraph ==
  /\ status = "validating"
  /\ Limit(program) > 0
  /\ ~WellFormed(program)
  /\ Return("unknown", "invalid-cfg")

ConflictAtEntry ==
  /\ status = "validating"
  /\ Limit(program) > 0
  /\ WellFormed(program)
  /\ Join(Bottom, Initial(program)) = Conflict
  /\ Return("unknown", "lattice-conflict")

Begin ==
  /\ status = "validating"
  /\ Limit(program) > 0
  /\ WellFormed(program)
  /\ Join(Bottom, Initial(program)) # Conflict
  /\ states' = [states EXCEPT ![Entry(program)] = Join(Bottom, Initial(program))]
  /\ queue' = <<Entry(program)>>
  /\ queued' = {Entry(program)}
  /\ status' = "running"
  /\ UNCHANGED <<program, reason, iterations, visiting, pending>>

-----------------------------------------------------------------------------
\* The loop head: while (queue.length > 0).

Converge ==
  /\ status = "running"
  /\ visiting = NoBlock
  /\ queue = <<>>
  /\ Return("converged", "none")

\* Deliberate fault: a call that ran out of budget reports convergence.
ExhaustBudgetConverges ==
  /\ status = "running"
  /\ visiting = NoBlock
  /\ queue # <<>>
  /\ iterations >= Limit(program)
  /\ Return("converged", "none")

ExhaustBudget ==
  /\ status = "running"
  /\ visiting = NoBlock
  /\ queue # <<>>
  /\ iterations >= Limit(program)
  /\ Return("unknown", "proof-budget-exhausted")

\* Deliberate fault: the id stays in the queued set, so later changes of the
\* block no longer put it back on the worklist.
VisitLeavesMark ==
  /\ status = "running"
  /\ visiting = NoBlock
  /\ queue # <<>>
  /\ iterations < Limit(program)
  /\ LET id == Head(queue) IN
       /\ queue' = Tail(queue)
       /\ visiting' = id
       /\ pending' = Transfer(program, id, states[id])
  /\ iterations' = iterations + 1
  /\ UNCHANGED <<program, status, reason, states, queued>>

Visit ==
  /\ status = "running"
  /\ visiting = NoBlock
  /\ queue # <<>>
  /\ iterations < Limit(program)
  /\ LET id == Head(queue) IN
       /\ queue' = Tail(queue)
       /\ queued' = queued \ {id}
       /\ visiting' = id
       /\ pending' = Transfer(program, id, states[id])
  /\ iterations' = iterations + 1
  /\ UNCHANGED <<program, status, reason, states>>

-----------------------------------------------------------------------------
\* One transfer of the visited block, or the end of the visit.

InVisit == status = "running" /\ visiting # NoBlock

Flowing == InVisit /\ pending # <<>>

FinishVisit ==
  /\ InVisit
  /\ pending = <<>>
  /\ visiting' = NoBlock
  /\ UNCHANGED <<program, status, reason, states, queue, queued, iterations, pending>>

UndeclaredTransfer ==
  /\ Flowing
  /\ Head(pending).to \notin Successors(program, visiting)
  /\ Return("unknown", "invalid-cfg")

\* Deliberate fault: incomparable values are taken for conflicting ones.
ConflictWhenIncomparable ==
  /\ Flowing
  /\ ~Absorbs(states[Head(pending).to], Head(pending).value)
  /\ ~Absorbs(Head(pending).value, states[Head(pending).to])
  /\ Return("unknown", "lattice-conflict")

ConflictTransfer ==
  /\ Flowing
  /\ Head(pending).to \in Successors(program, visiting)
  /\ Join(states[Head(pending).to], Head(pending).value) = Conflict
  /\ Return("unknown", "lattice-conflict")

\* Deliberate fault: the join is compared with the incoming value instead of
\* the current one.
NothingNewBackwards ==
  /\ Flowing
  /\ Absorbs(Head(pending).value, states[Head(pending).to])
  /\ pending' = Tail(pending)
  /\ UNCHANGED <<program, status, reason, states, queue, queued, iterations, visiting>>

\* lattice.equivalent(current, joined): nothing new, nothing scheduled.
NothingNew ==
  /\ Flowing
  /\ Head(pending).to \in Successors(program, visiting)
  /\ Absorbs(states[Head(pending).to], Head(pending).value)
  /\ pending' = Tail(pending)
  /\ UNCHANGED <<program, status, reason, states, queue, queued, iterations, visiting>>

\* Deliberate faults: the conflict test is missing; the block being visited is
\* never scheduled again; the value replaces the old one instead of joining it.
PropagateConflict ==
  /\ Flowing
  /\ LET to == Head(pending).to
         joined == Join(states[to], Head(pending).value)
     IN  /\ joined # states[to]
         /\ states' = [states EXCEPT ![to] = joined]
         /\ queue' = IF to \in queued THEN queue ELSE Append(queue, to)
         /\ queued' = queued \cup {to}
  /\ pending' = Tail(pending)
  /\ UNCHANGED <<program, status, reason, iterations, visiting>>

PropagateNotToItself ==
  /\ Flowing
  /\ LET to == Head(pending).to
         joined == Join(states[to], Head(pending).value)
     IN  /\ joined \notin {Conflict, states[to]}
         /\ states' = [states EXCEPT ![to] = joined]
         /\ queue' = IF to \in queued \cup {visiting} THEN queue ELSE Append(queue, to)
         /\ queued' = IF to = visiting THEN queued ELSE queued \cup {to}
  /\ pending' = Tail(pending)
  /\ UNCHANGED <<program, status, reason, iterations, visiting>>

PropagateOverwrite ==
  /\ Flowing
  /\ LET to == Head(pending).to
     IN  /\ Join(states[to], Head(pending).value) \notin {Conflict, states[to]}
         /\ states' = [states EXCEPT ![to] = Head(pending).value]
         /\ queue' = IF to \in queued THEN queue ELSE Append(queue, to)
         /\ queued' = queued \cup {to}
  /\ pending' = Tail(pending)
  /\ UNCHANGED <<program, status, reason, iterations, visiting>>

Propagate ==
  /\ Flowing
  /\ LET to == Head(pending).to
         joined == Join(states[to], Head(pending).value)
     IN  /\ to \in Successors(program, visiting)
         /\ joined \notin {Conflict, states[to]}
         /\ states' = [states EXCEPT ![to] = joined]
         /\ queue' = IF to \in queued THEN queue ELSE Append(queue, to)
         /\ queued' = queued \cup {to}
  /\ pending' = Tail(pending)
  /\ UNCHANGED <<program, status, reason, iterations, visiting>>

-----------------------------------------------------------------------------

Next ==
  \/ RejectBudget \/ RejectGraph \/ ConflictAtEntry \/ Begin
  \/ Converge \/ ExhaustBudget \/ Visit
  \/ FinishVisit \/ UndeclaredTransfer \/ ConflictTransfer \/ NothingNew \/ Propagate

Spec == Init /\ [][Next]_vars

-----------------------------------------------------------------------------
\* Properties.

\* Every field keeps its type, whatever the call's outcome: in particular no
\* conflict is ever stored as a value (fixed-point.ts:100-105).
TypeOK ==
  /\ program \in Program
  /\ status \in {"validating", "running", "converged", "unknown", "thrown"}
  /\ reason \in {"none", "invalid-budget", "invalid-cfg", "lattice-conflict",
                 "proof-budget-exhausted"}
  /\ states \in [Block -> Value]
  /\ queue \in Seq(Block)
  /\ queued \subseteq Block
  /\ iterations \in Nat
  /\ visiting \in Block \cup {NoBlock}
  /\ pending \in Seq(Flow)

\* The membership set and the array it mirrors never drift apart, and no block
\* waits twice: otherwise a change is lost or the budget is charged twice.
QueuedMirrorsQueue ==
  /\ queued = {queue[i] : i \in DOMAIN queue}
  /\ Distinct(queue)

\* What the visited block sends at its current value is either absorbed by its
\* target or still pending, unless it has changed and waits for another visit.
VisitAccountedFor ==
  InVisit /\ visiting \notin queued =>
    LET out == Transfer(program, visiting, states[visiting])
        done == Len(out) - Len(pending)
    IN  /\ done >= 0
        /\ \A i \in DOMAIN pending : pending[i] = out[done + i]
        /\ \A i \in 1 .. done : Absorbs(states[out[i].to], out[i].value)

\* No change is forgotten: a reached block whose targets have not absorbed what
\* it sends is on the worklist, or is being visited.
UnsettledIsScheduled ==
  /\ status \in {"running", "converged"} =>
       \A b \in Block : ReachedIn(program, states, b) =>
         b \in queued \/ b = visiting \/ SettledIn(program, states, b)
  /\ VisitAccountedFor

\* A converged result solves the problem and, for monotone transfers, is the
\* least solution: the same for every order of blocks, edges and visits.
ConvergedIsLeastSolution ==
  status = "converged" =>
    /\ IsSolution(program, states)
    /\ Monotone(program) => \A s \in [Block -> Value] :
         IsSolution(program, s) => \A b \in Block : Absorbs(s[b], states[b])

\* "lattice-conflict" is not an accident of the visiting order: for monotone
\* transfers it is reported only for a problem that has no solution.
ConflictMeansNoSolution ==
  reason = "lattice-conflict" /\ Monotone(program) =>
    \A s \in [Block -> Value] : ~IsSolution(program, s)

\* A block's value never loses information while the engine runs.
StatesOnlyGrow ==
  [][\A b \in Block : Absorbs(states'[b], states[b])]_states

Verdict ==
  CASE status \in {"validating", "running"} -> "open"
    [] status = "converged" -> "converged"
    [] status \in {"unknown", "thrown"} -> "unknown"

Chaotic == INSTANCE ChaoticIteration WITH verdict <- Verdict

\* The engine implements the abstract iteration: whatever it does to values is
\* a justified join, and it says "converged" only at a solution.
ImplementsChaoticIteration == Chaotic!Spec
=============================================================================
