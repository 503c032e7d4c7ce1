------------------------ MODULE ReactNestedSuspense ------------------------
(***************************************************************************)
(* The machine generateReactNestedSuspenseQuintFromAnalysis writes for a   *)
(* chain of boundaries, each the only primary of the one around it         *)
(* (src/analysis/react-semantics.ts).                                      *)
(***************************************************************************)
EXTENDS Naturals, Sequences

CONSTANT Tree  \* as in ReactSuspenseTree

VARIABLES
  component,  \* never changes
  state

vars == <<component, state>>

\* The boundary that is the only primary node of b, or nothing.
PrimaryBoundary(t, b) ==
  IF Len(t.nodes[b]) = 1 /\ t.nodes[b][1] \in DOMAIN t.nodes THEN t.nodes[b] ELSE <<>>

ChainOf(t) ==
  LET From[b \in DOMAIN t.nodes] ==
        IF PrimaryBoundary(t, b) = <<>> THEN <<b>> ELSE <<b>> \o From[PrimaryBoundary(t, b)[1]]
  IN  From[t.root]

Chain == ChainOf(component)

\* The generator throws for a single boundary, and where the last one contains
\* anything but one component.
Accepted(t) ==
  LET chain == ChainOf(t) IN Len(chain) >= 2 /\ Len(t.nodes[chain[Len(chain)]]) = 1

\* Deliberate fault: the outermost boundary catches the suspension.
Outermost == 1

Nearest == Len(Chain)

Init ==
  /\ component \in {t \in Tree : Accepted(t)}
  /\ state = [leaf_suspended |-> 0, leaf_suspension_resolved |-> 0, leaf_committed |-> 0,
              fallback_committed |-> {}, fallback_cleaned |-> {}]

SuspendLeafPrimary ==
  /\ state.leaf_suspended = 0
  /\ state' = [state EXCEPT !.leaf_suspended = 1]

CommitFallback ==
  /\ state.leaf_suspended = 1 /\ Nearest \notin state.fallback_committed
  /\ state' = [state EXCEPT !.fallback_committed = @ \cup {Nearest}]

ResolveLeafSuspension ==
  /\ state.leaf_suspended = 1 /\ state.leaf_suspension_resolved = 0
  /\ state' = [state EXCEPT !.leaf_suspension_resolved = 1]

RevealLeafPrimary ==
  /\ state.leaf_suspension_resolved = 1 /\ Nearest \in state.fallback_committed
  /\ state.leaf_committed = 0
  /\ state' = [state EXCEPT !.leaf_committed = 1, !.fallback_cleaned = @ \cup {Nearest}]

Step ==
  SuspendLeafPrimary \/ CommitFallback \/ ResolveLeafSuspension \/ RevealLeafPrimary

Next == Step /\ UNCHANGED component

Spec == Init /\ [][Next]_vars

-----------------------------------------------------------------------------
\* Properties.

\* The predicate the generator hands to the model checker: no ancestor shows its
\* fallback, and the fallback is cleaned up once the leaf is revealed.
nestedSuspenseSafe ==
  /\ state.leaf_suspension_resolved <= state.leaf_suspended /\ state.leaf_suspended <= 1
  /\ state.leaf_committed <= state.leaf_suspension_resolved
  /\ state.fallback_cleaned \subseteq state.fallback_committed
  /\ state.fallback_committed \subseteq {Len(Chain)}
  /\ state.leaf_committed = 1 => Len(Chain) \in state.fallback_cleaned

\* The same chain as the tree machine sees it: its last boundary owns the only leaf.
AsTree ==
  [suspension_leaf |-> state.leaf_suspended,
   suspension_owner |-> IF state.leaf_suspended = 1 THEN Len(Chain) ELSE 0,
   fallback_owner |->
     IF state.fallback_committed = {} THEN 0
     ELSE CHOOSE b \in DOMAIN Chain : b \in state.fallback_committed,
   suspension_resolved |-> state.leaf_suspension_resolved,
   leaf_committed |-> state.leaf_committed]
=============================================================================
