------------------------------ MODULE Listings ------------------------------
(***************************************************************************)
(* Filtering a list keeps its order: the sequence of the elements of a     *)
(* list that are in a set.  And the sequence of the elements of a set, in  *)
(* the order of a key.                                                     *)
(***************************************************************************)
EXTENDS Integers, FiniteSets

\* The k-th smallest of a set of positions.
Nth(positions, k) == CHOOSE i \in positions : Cardinality({j \in positions : j <= i}) = k

Listed(list, set) ==
  LET positions == {i \in DOMAIN list : list[i] \in set}
  IN  [k \in 1 .. Cardinality(positions) |-> list[Nth(positions, k)]]

\* An element with fewer than k before it, and k or more up to its own key, comes k-th.
SortedBy(set, key) ==
  [k \in 1 .. Cardinality(set) |->
    CHOOSE x \in set : /\ Cardinality({y \in set : key[y] < key[x]}) < k
                       /\ Cardinality({y \in set : key[y] <= key[x]}) >= k]
=============================================================================
