----------------------------- MODULE FlowProblem -----------------------------
(***************************************************************************)
(* The input of the shared data-flow engine (src/cfg/fixed-point.ts): a    *)
(* graph of basic blocks and a lattice of abstract values, both supplied   *)
(* by the caller, and what it means for an assignment of values to blocks  *)
(* to solve the problem.  This module has no state: the engine             *)
(* (FixedPoint), the abstract iteration it refines (ChaoticIteration) and  *)
(* the proofs all extend it.                                               *)
(*                                                                         *)
(* A program is an opaque identifier; Declared, Edges, Entry, Initial,     *)
(* Limit and Transfer read the caller's option record.  An edge's label    *)
(* stands for its completion, role and source span taken together, the     *)
(* parts the engine only compares; InvalidLabel holds the labels whose     *)
(* source span is malformed.                                               *)
(***************************************************************************)
EXTENDS Integers, Sequences, FiniteSets

CONSTANTS
  Block,            \* identifiers a block or an edge may name
  NoBlock,          \* "no block is being visited"
  Label,            \* completion + role + source span of an edge
  InvalidLabel,     \* labels whose source span is malformed
  Value,            \* abstract values
  Bottom,           \* lattice.bottom()
  Conflict,         \* the result of a join that reports a conflict
  Join(_, _),       \* lattice.join(left, right)
  Program,          \* the option records handed to the engine
  Declared(_),      \* Declared(p): the block ids, in declaration order
  Edges(_, _),      \* Edges(p, b): the declared edges of block b
  Entry(_),         \* Entry(p): options.entry
  Initial(_),       \* Initial(p): options.initial
  Limit(_),         \* Limit(p): options.budget.limit
  Transfer(_, _, _) \* Transfer(p, b, v): block b's transfer applied to v

Edge == [to : Block, label : Label]
Flow == [to : Block, value : Value]

\* a is at least b: joining b into a changes nothing.  The engine's equivalent
\* is equality here, so this is also its test for "nothing new".
Absorbs(a, b) == Join(a, b) = a

ASSUME NamesAssumption ==
  /\ NoBlock \notin Block
  /\ Conflict \notin Value
  /\ InvalidLabel \subseteq Label

\* "The caller must supply monotone transfers and a suitable lattice"
\* (docs/cfg.md).  Suitable: join is a partial least upper bound whose only
\* failure is to have no upper bound at all.
ASSUME LatticeAssumption ==
  /\ Bottom \in Value
  /\ \A v \in Value : Join(v, v) = v /\ Join(Bottom, v) = v /\ Join(v, Bottom) = v
  /\ \A a, b \in Value : Join(a, b) \in Value \cup {Conflict}
  /\ \A a, b \in Value :
       Join(a, b) \in Value => Absorbs(Join(a, b), a) /\ Absorbs(Join(a, b), b)
  /\ \A a, b, c \in Value : Absorbs(c, b) /\ Absorbs(b, a) => Absorbs(c, a)
  /\ \A a, b, c \in Value : Absorbs(c, a) /\ Absorbs(c, b)
       => Join(a, b) \in Value /\ Absorbs(c, Join(a, b))

ASSUME ProgramAssumption ==
  \A p \in Program :
    /\ Declared(p) \in Seq(Block)
    /\ Entry(p) \in Block
    \* an initial value outside the lattice joins with nothing
    /\ Initial(p) \in Value \/ \A v \in Value : Join(v, Initial(p)) = Conflict
    /\ Limit(p) \in Int
    /\ \A b \in Block :
         /\ Edges(p, b) \in Seq(Edge)
         /\ \A v \in Value : Transfer(p, b, v) \in Seq(Flow)

-----------------------------------------------------------------------------
\* Topology, validated before any callback runs.

Distinct(s) == \A i, j \in DOMAIN s : s[i] = s[j] => i = j

DeclaredBlocks(p) == {Declared(p)[i] : i \in DOMAIN Declared(p)}

Successors(p, b) == {Edges(p, b)[i].to : i \in DOMAIN Edges(p, b)}

WellFormed(p) ==
  /\ Distinct(Declared(p))
  /\ Entry(p) \in DeclaredBlocks(p)
  /\ \A b \in DeclaredBlocks(p) :
       /\ Distinct(Edges(p, b))
       /\ Successors(p, b) \subseteq DeclaredBlocks(p)
       /\ \A i \in DOMAIN Edges(p, b) : Edges(p, b)[i].label \notin InvalidLabel

-----------------------------------------------------------------------------
\* Solutions.

\* The engine visits a block only when it is the entry or its value has left
\* Bottom: a value equal to Bottom means that no path has reached the block.
ReachedIn(p, s, b) == b = Entry(p) \/ s[b] # Bottom

\* Everything block b sends, given its value in s, is already in its targets.
SettledIn(p, s, b) ==
  LET out == Transfer(p, b, s[b])
  IN  \A i \in DOMAIN out : Absorbs(s[out[i].to], out[i].value)

IsSolution(p, s) ==
  /\ Absorbs(s[Entry(p)], Initial(p))
  /\ \A b \in Block : ReachedIn(p, s, b) => SettledIn(p, s, b)

\* A larger input sends at least as much along the same edges.
Monotone(p) ==
  \A b \in Block, u, v \in Value : Absorbs(v, u) =>
    LET low == Transfer(p, b, u)
        high == Transfer(p, b, v)
    IN  \A i \in DOMAIN low : \E j \in DOMAIN high :
          high[j].to = low[i].to /\ Absorbs(high[j].value, low[i].value)
=============================================================================
