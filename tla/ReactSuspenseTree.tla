------------------------- MODULE ReactSuspenseTree -------------------------
(***************************************************************************)
(* The machine generateReactSuspenseTreeQuintFromAnalysis writes for a     *)
(* tree of Suspense boundaries (src/analysis/react-semantics.ts): any one  *)
(* leaf suspends, and its owner's fallback is shown until it is revealed.  *)
(***************************************************************************)
EXTENDS Naturals, SequencesExt

\* Records [root, parent, nodes, thenable, requireKnownSuspension]: the nodes of a
\* boundary are the components and boundaries it contains, `thenable` the components
\* that are known to suspend, and `parent` the boundary each boundary names.
CONSTANT Tree

VARIABLES
  component,  \* never changes
  state

vars == <<component, state>>

IsBoundary(t, node) == node \in DOMAIN t.nodes

\* Deliberate fault: the leaf belongs to the boundary that was met last.
LeafOfLast(t, found, node, owner) ==
  IF t.requireKnownSuspension /\ node \notin t.thenable THEN found
  ELSE [found EXCEPT !.leaves = Append(@, [node |-> node, owner |-> Len(found.boundaries)])]

Leaf(t, found, node, owner) ==
  IF t.requireKnownSuspension /\ node \notin t.thenable THEN found
  ELSE [found EXCEPT !.leaves = Append(@, [node |-> node, owner |-> owner])]

\* The boundaries below b in the order they are met, and the leaves, each with the
\* number of its boundary.
Found(t) ==
  [boundaries : Seq(DOMAIN t.nodes), leaves : Seq([node : Nat, owner : Nat]), refused : BOOLEAN]

Walked(t) ==
  LET Walk[b \in DOMAIN t.nodes, before \in Found(t)] ==
        IF b \in Range(before.boundaries) \/ t.nodes[b] = <<>> THEN [before EXCEPT !.refused = TRUE]
        ELSE LET owner == Len(before.boundaries) + 1
                 Visit(found, node) ==
                   IF ~IsBoundary(t, node) THEN Leaf(t, found, node, owner)
                   ELSE IF t.parent[node] # b THEN [found EXCEPT !.refused = TRUE]
                   ELSE Walk[node, found]
             IN FoldLeft(Visit, [before EXCEPT !.boundaries = Append(@, b)], t.nodes[b])
  IN  Walk[t.root, [boundaries |-> <<>>, leaves |-> <<>>, refused |-> FALSE]]

\* The generator throws for the other trees.
Accepted(t) == ~Walked(t).refused /\ Walked(t).leaves # <<>>

\* The walk numbers the boundaries from 1 on, and each leaf has one of them as its owner.
LeavesHaveOwners ==
  \A t \in Tree : LET walked == Walked(t) IN
    Accepted(t) =>
      /\ walked.boundaries \in Seq(DOMAIN t.nodes)
      /\ walked.leaves \in Seq([node : UNION {Range(t.nodes[b]) : b \in DOMAIN t.nodes},
                               owner : 1 .. Len(walked.boundaries)])

Leaves == Walked(component).leaves
Boundaries == Walked(component).boundaries

Init ==
  /\ component \in {t \in Tree : Accepted(t)}
  /\ state = [suspension_leaf |-> 0, suspension_owner |-> 0, fallback_owner |-> 0,
              suspension_resolved |-> 0, leaf_committed |-> 0]

SuspendLeaf(i) ==
  /\ state.suspension_leaf = 0
  /\ state' = [state EXCEPT !.suspension_leaf = i, !.suspension_owner = Leaves[i].owner]

CommitFallback(b) ==
  /\ state.suspension_owner = b /\ state.fallback_owner = 0
  /\ state' = [state EXCEPT !.fallback_owner = b]

ResolveSuspension ==
  /\ state.suspension_leaf > 0 /\ state.suspension_resolved = 0
  /\ state' = [state EXCEPT !.suspension_resolved = 1]

RevealLeaf ==
  /\ state.suspension_resolved = 1 /\ state.fallback_owner = state.suspension_owner
  /\ state.leaf_committed = 0
  /\ state' = [state EXCEPT !.leaf_committed = 1]

Step ==
  \/ \E i \in DOMAIN Leaves : SuspendLeaf(i)
  \/ \E b \in DOMAIN Boundaries : CommitFallback(b)
  \/ ResolveSuspension \/ RevealLeaf

Next == Step /\ UNCHANGED component

Spec == Init /\ [][Next]_vars

-----------------------------------------------------------------------------
\* Properties.

\* The predicate the generator hands to the model checker: only the owner's fallback
\* is shown, and it has been shown before the leaf is revealed.
suspenseTreeSafe ==
  /\ state.suspension_leaf <= Len(Leaves)
  /\ state.suspension_owner <= Len(Boundaries) /\ state.fallback_owner <= Len(Boundaries)
  /\ state.suspension_resolved \in 0 .. 1
  /\ state.leaf_committed <= state.suspension_resolved
  /\ state.fallback_owner \in {0, state.suspension_owner}
  /\ state.leaf_committed = 1 => state.fallback_owner = state.suspension_owner

\* The fallback on the screen is the one of the boundary that contains the suspended
\* component directly (docs/react-semantics.md: the nearest boundary catches it).
FallbackIsNearest ==
  state.fallback_owner > 0 =>
    Leaves[state.suspension_leaf].node \in Range(component.nodes[Boundaries[state.fallback_owner]])

Screen ==
  IF state.leaf_committed = 1 THEN "new"
  ELSE IF state.fallback_owner > 0 THEN "fallback" ELSE "nothing"
=============================================================================
