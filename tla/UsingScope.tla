----------------------------- MODULE UsingScope -----------------------------
(***************************************************************************)
(* What leaving the scopes of `using` declarations promises, whatever lane *)
(* a disposal runs on: resources are disposed in the reverse order of      *)
(* their acquisition, each once, and a failure keeps the one it suppresses *)
(* (docs/resource-protocols.md:222-241, 603-606).                          *)
(***************************************************************************)
EXTENDS Integers, Sequences

CONSTANT Declaration  \* positive numbers, in the order of the source

Body == 0             \* origin of a failure of the body
Initializer(d) == -d  \* of d's initializer; a disposer's failure is named d

VARIABLES
  held,     \* the declarations whose resource is open, in acquisition order
  raised,   \* origins of the pending failures: each suppresses the ones before it
  leaving,  \* disposal has begun
  looped    \* the declarations of the one loop body, if any

vars == <<held, raised, leaving, looped>>

Init ==
  /\ held = <<>> /\ raised = <<>> /\ leaving = FALSE
  /\ looped \in SUBSET Declaration

Open(s) == {s[i] : i \in DOMAIN s}

Acquire(d) ==
  /\ ~leaving /\ raised = <<>>
  /\ \A h \in Open(held) : h < d
  /\ held' = Append(held, d)
  /\ UNCHANGED <<raised, leaving, looped>>

\* The body fails, or the initializer of a resource that is not yet open.
Raise(origin) ==
  /\ ~leaving /\ raised = <<>>
  /\ \A h \in Open(held) : origin # Initializer(h)
  /\ raised' = <<origin>>
  /\ leaving' = TRUE
  /\ UNCHANGED <<held, looped>>

Leave ==
  /\ ~leaving
  /\ leaving' = TRUE
  /\ UNCHANGED <<held, raised, looped>>

\* The last resource is disposed; without a failure the loop may start over once
\* nothing of its body is open.
Dispose ==
  /\ held # <<>>
  /\ held' = SubSeq(held, 1, Len(held) - 1)
  /\ raised' \in {raised, Append(raised, held[Len(held)])}
  /\ \/ leaving'
     \/ ~leaving' /\ looped # {} /\ raised' = <<>> /\ Open(held') \cap looped = {}
  /\ UNCHANGED looped

Next ==
  \/ \E d \in Declaration : Acquire(d)
  \/ \E origin \in {Body} \cup {Initializer(d) : d \in Declaration} : Raise(origin)
  \/ Leave
  \/ Dispose

Spec == Init /\ [][Next]_vars
=============================================================================
