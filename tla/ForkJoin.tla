------------------------------ MODULE ForkJoin ------------------------------
(***************************************************************************)
(* What docs/graph-analysis.md promises about fork/join workflows, told    *)
(* with threads instead of tokens.  A thread is known by its path: the     *)
(* branches it descends through, outermost first.  A fork replaces a       *)
(* thread by one child per branch; when every child stands at the paired   *)
(* join they are replaced by their parent, which goes on behind the join.  *)
(* Facts are shared by all threads.                                        *)
(***************************************************************************)
EXTENDS Naturals, Sequences

CONSTANTS Workflow, Entry(_), Initial(_), Kind(_, _), NextOf(_, _), PairOf(_, _), After(_, _, _)

VARIABLES
  workflow,  \* the workflow being executed
  facts,     \* the facts that hold
  threads,   \* [path, step] of every running thread
  forked     \* [path, fork] of every fork whose join has not executed

JoinedAt(t) ==
  /\ Kind(workflow, t.step) = "join"
  /\ t.path # <<>>
  /\ t.path[Len(t.path)].fork = PairOf(workflow, t.step)

Parent(path) == SubSeq(path, 1, Len(path) - 1)

Siblings(t) ==
  {[path |-> Append(Parent(t.path), [fork |-> PairOf(workflow, t.step), branch |-> b]),
    step |-> t.step] : b \in NextOf(workflow, PairOf(workflow, t.step))}

\* A thread goes on at one of its alternatives, or ends when it has none.
Continue(others, path, step) ==
  IF NextOf(workflow, step) = {} THEN threads' = others
  ELSE \E to \in NextOf(workflow, step) : threads' = others \cup {[path |-> path, step |-> to]}

Act(t) ==
  /\ Kind(workflow, t.step) = "action"
  /\ Continue(threads \ {t}, t.path, t.step)
  /\ UNCHANGED forked

Fork(t) ==
  /\ Kind(workflow, t.step) = "fork"
  /\ threads' = (threads \ {t}) \cup
       {[path |-> Append(t.path, [fork |-> t.step, branch |-> b]), step |-> b] :
          b \in NextOf(workflow, t.step)}
  /\ forked' = forked \cup {[path |-> t.path, fork |-> t.step]}

Join(t) ==
  /\ JoinedAt(t)
  /\ Siblings(t) \subseteq threads
  /\ Continue(threads \ Siblings(t), Parent(t.path), t.step)
  /\ forked' = forked \ {[path |-> Parent(t.path), fork |-> PairOf(workflow, t.step)]}

Init ==
  /\ workflow \in Workflow
  /\ facts = Initial(workflow)
  /\ threads = {[path |-> <<>>, step |-> Entry(workflow)]}
  /\ forked = {}

Next == \E t \in threads :
  /\ Act(t) \/ Fork(t) \/ Join(t)
  /\ facts' = After(workflow, t.step, facts)
  /\ UNCHANGED workflow

Spec == Init /\ [][Next]_<<workflow, facts, threads, forked>>
=============================================================================
