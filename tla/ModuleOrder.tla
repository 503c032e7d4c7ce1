----------------------------- MODULE ModuleOrder -----------------------------
(***************************************************************************)
(* buildModuleInitializationOrder (src/modules/module-order-core.ts): from *)
(* the static imports of every module it builds a partial order of the     *)
(* events of module initialization, with one kind of import cycle          *)
(* admitted.  The order is checked against the evaluation of the modules   *)
(* by the host (InnerModuleEvaluation of ECMA-262).                        *)
(*                                                                         *)
(* A program is [entry, requests, body, unsupported]: the import requests  *)
(* of each module in source order, [to, sideEffectOnly]; the statements of *)
(* its body that matter, "await", "launch" or "throw"; and the modules     *)
(* with a construct outside the fragment.                                  *)
(***************************************************************************)
EXTENDS Integers, Sequences, FiniteSets, TLC

LOCAL Seqs == INSTANCE SequencesExt

CONSTANTS Module, Program

Dependencies(p, m) == Seqs!FoldLeft(
  LAMBDA ds, r : IF \E i \in DOMAIN ds : ds[i] = r.to THEN ds ELSE Append(ds, r.to),
  <<>>, p.requests[m])

Awaits(p, m) == SelectSeq(p.body[m], LAMBDA s : s = "await")
Throws(p, m) == \E i \in DOMAIN p.body[m] : p.body[m][i] = "throw"

-----------------------------------------------------------------------------
\* The depth-first walk: order of completion, order of discovery, and the
\* modules of every path that closes on itself.

RECURSIVE Visit(_, _, _)

\* Deliberate fault: a module goes before those it has imported.
LeaveFirst(s, m) == [s EXCEPT !.ordered = <<m>> \o @]

Leave(s, m) == [s EXCEPT !.ordered = Append(@, m)]

Visit(p, m, s) ==
  IF Seqs!Contains(s.stack, m)
  THEN [s EXCEPT !.cycle = @ \cup {s.stack[i] : i \in Seqs!IndexFirstSubSeq(<<m>>, s.stack) .. Len(s.stack)}]
  ELSE IF Seqs!Contains(s.ordered, m) THEN s
  ELSE LET entered == [s EXCEPT !.stack = Append(@, m), !.discovered = Append(@, m)]
           walked == Seqs!FoldLeft(LAMBDA t, d : Visit(p, d, t), entered, Dependencies(p, m))
       IN  Leave([walked EXCEPT !.stack = s.stack], m)

Walk(p) == Visit(p, p.entry, [stack |-> <<>>, ordered |-> <<>>, discovered |-> <<>>, cycle |-> {}])

\* Tarjan's algorithm.

RECURSIVE Connect(_, _, _)

Lower(s, m, n) == [s EXCEPT !.low[m] = IF n < @ THEN n ELSE @]

\* Deliberate fault: a module of a closed component still counts as open.
OpenOnceSeen(s, d) == TRUE

OpenComponent(s, d) == Seqs!Contains(s.stack, d)

Connect(p, m, s) ==
  LET entered == [s EXCEPT !.index = (m :> s.next) @@ @, !.low = (m :> s.next) @@ @,
                           !.next = @ + 1, !.stack = Append(@, m)]
      Follow(t, d) ==
        IF d \notin DOMAIN t.index THEN LET u == Connect(p, d, t) IN Lower(u, m, u.low[d])
        ELSE IF OpenComponent(t, d) THEN Lower(t, m, t.index[d]) ELSE t
      followed == Seqs!FoldLeft(Follow, entered, Dependencies(p, m))
      first == Seqs!IndexFirstSubSeq(<<m>>, followed.stack)
  IN  IF followed.low[m] # followed.index[m] THEN followed
      ELSE [followed EXCEPT
             !.stack = SubSeq(@, 1, first - 1),
             !.components = @ \cup {{followed.stack[i] : i \in first .. Len(followed.stack)}}]

Components(p) ==
  Connect(p, p.entry, [index |-> <<>>, low |-> <<>>, next |-> 0, stack |-> <<>>, components |-> {}]).components

-----------------------------------------------------------------------------
\* Events and constraints.

Start(m) == <<m, "start", 0>>
Complete(m) == <<m, "complete", 0>>

\* The statements before the first throw, and the throw.
Executed(p, m) ==
  LET written == p.body[m]
  IN  SelectSeq([i \in DOMAIN written |-> <<i, written[i]>>],
                LAMBDA s : \A k \in 1 .. s[1] - 1 : written[k] # "throw")

\* The events of the normal path: the resumption of an await takes its place.
Chain(p, m) ==
  LET Numbered(i) == Cardinality({k \in 1 .. i : p.body[m][k] = "await"})
      Of(s) == CASE s[2] = "await" -> <<<<m, "suspend", Numbered(s[1])>>, <<m, "resume", Numbered(s[1])>>>>
                 [] s[2] = "launch" -> <<<<m, "promise-launch", 0>>, <<m, "rejection-handler-attach", 0>>>>
                 [] s[2] = "throw" -> <<<<m, "throw", 0>>>>
  IN  Seqs!FoldLeft(LAMBDA c, s : c \o Of(s), <<Start(m)>>, Executed(p, m))
        \o IF Throws(p, m) THEN <<>> ELSE <<Complete(m)>>

\* Source order; an await is followed by a choice instead of a constraint.
Sequencing(p, m) ==
  {<<Chain(p, m)[i], Chain(p, m)[i + 1]>> : i \in
     {k \in 1 .. Len(Chain(p, m)) - 1 : Chain(p, m)[k + 1][2] # "resume"}}

Rejection(e) == <<e[1], "reject", e[3]>>

Choices(p, m) ==
  {[after |-> <<m, "suspend", e[3]>>, alternatives |-> {e, Rejection(e)}] :
     e \in {f \in Seqs!ToSet(Chain(p, m)) : f[2] = "resume"}}

-----------------------------------------------------------------------------
\* The artifact.

Unsupported(p, m) ==
  m \in p.unsupported \/ (Awaits(p, m) # <<>> /\ Seqs!Contains(p.body[m], "launch"))

Internal(p, m, component) == SelectSeq(p.requests[m], LAMBDA r : r.to \in component)

\* A cycle of two or more modules in which each imports nothing but the next one,
\* for its side effects.
SimpleRing(p, component) ==
  \A m \in component :
    /\ ~Unsupported(p, m)
    /\ Awaits(p, m) = <<>> /\ ~Throws(p, m)
    /\ Len(Dependencies(p, m)) = 1
    /\ Len(Internal(p, m, component)) = 1 /\ Internal(p, m, component)[1].sideEffectOnly

ImportOrder(p, walk, rings) ==
  {<<d, m>> \in Module \X Module :
     /\ Seqs!Contains(walk.ordered, m) /\ Seqs!Contains(Dependencies(p, m), d)
     /\ ~(m \in UNION rings /\ d \in UNION rings)
     /\ {m, d} \cap walk.cycle = {}}

RingOrder(walk, ring) ==
  LET execution == SelectSeq(walk.ordered, LAMBDA m : m \in ring)
  IN  {<<Complete(execution[i]), Start(execution[i + 1])>> : i \in 1 .. Len(execution) - 1}

Build(p) ==
  LET walk == Walk(p)
      modules == Seqs!ToSet(walk.ordered)
      cycles == {c \in Components(p) : Cardinality(c) >= 2}
      rings == {c \in cycles : SimpleRing(p, c)}
      imports == ImportOrder(p, walk, rings)
  IN  [evidence |-> IF /\ \A m \in modules : ~Unsupported(p, m)
                       /\ cycles = rings /\ walk.cycle \subseteq UNION rings
                    THEN "verified" ELSE "unknown",
       events |-> UNION {Seqs!ToSet(Chain(p, m)) : m \in modules},
       constraints |-> UNION {Sequencing(p, m) : m \in modules}
                       \cup {<<Complete(i[1]), Start(i[2])>> : i \in {j \in imports : ~Throws(p, j[1])}}
                       \cup UNION {RingOrder(walk, ring) : ring \in rings},
       choices |-> UNION {Choices(p, m) : m \in modules},
       blockedBy |-> [m \in modules |-> {d \in Module : <<d, m>> \in imports /\ Throws(p, d)}],
       components |-> Components(p), rings |-> rings]

-----------------------------------------------------------------------------
\* The host: the entry is evaluated depth first; a body runs until it ends,
\* throws or waits, and a module with a dependency that waits runs later.

VARIABLES
  program,
  artifact,  \* what was built, or None
  calls,     \* the modules being evaluated, each with its next dependency
  called,    \* the modules whose evaluation has begun
  waiting,   \* those that wait for a dependency
  running,   \* the events left of the body that runs
  suspended, \* bodies that wait for an await
  done       \* the events that have happened

vars == <<program, artifact, calls, called, waiting, running, suspended, done>>

None == [evidence |-> "none"]

Init ==
  /\ program \in Program
  /\ artifact = None
  /\ calls = <<>> /\ called = {} /\ waiting = {} /\ running = <<>> /\ suspended = {} /\ done = {}

Analyze ==
  /\ artifact = None
  /\ artifact' = Build(program)
  /\ calls' = <<<<program.entry, 1>>>> /\ called' = {program.entry}
  /\ UNCHANGED <<program, waiting, running, suspended, done>>

Idle == artifact # None /\ running = <<>>
Top == calls[Len(calls)]
DependenciesOf(m) == Dependencies(program, m)

Request ==
  /\ Idle /\ calls # <<>> /\ Top[2] <= Len(DependenciesOf(Top[1]))
  /\ LET wanted == DependenciesOf(Top[1])[Top[2]]
         advanced == [calls EXCEPT ![Len(calls)] = <<Top[1], Top[2] + 1>>]
     IN  /\ calls' = IF wanted \in called THEN advanced ELSE Append(advanced, <<wanted, 1>>)
         /\ called' = called \cup {wanted}
  /\ UNCHANGED <<program, artifact, waiting, running, suspended, done>>

Ready(m) ==
  \A i \in DOMAIN DependenciesOf(m) :
    \/ Complete(DependenciesOf(m)[i]) \in done
    \/ \E k \in DOMAIN calls : calls[k][1] = DependenciesOf(m)[i]

Unwind ==
  /\ Idle /\ calls # <<>> /\ Top[2] > Len(DependenciesOf(Top[1]))
  /\ calls' = SubSeq(calls, 1, Len(calls) - 1)
  /\ IF Ready(Top[1])
     THEN running' = Chain(program, Top[1]) /\ UNCHANGED waiting
     ELSE waiting' = waiting \cup {Top[1]} /\ UNCHANGED running
  /\ UNCHANGED <<program, artifact, called, suspended, done>>

RunWaiting(m) ==
  /\ Idle /\ calls = <<>> /\ m \in waiting /\ Ready(m)
  /\ waiting' = waiting \ {m}
  /\ running' = Chain(program, m)
  /\ UNCHANGED <<program, artifact, calls, called, suspended, done>>

\* The next event of the body; a throw ends the evaluation that is under way.
Perform ==
  /\ running # <<>>
  /\ done' = done \cup {Head(running)}
  /\ LET kind == Head(running)[2]
     IN  /\ running' = IF kind = "suspend" THEN <<>> ELSE Tail(running)
         /\ suspended' = IF kind = "suspend" THEN suspended \cup {Tail(running)} ELSE suspended
         /\ calls' = IF kind = "throw" THEN <<>> ELSE calls
  /\ UNCHANGED <<program, artifact, called, waiting>>

Settle(rest) ==
  /\ Idle /\ calls = <<>> /\ rest \in suspended
  /\ suspended' = suspended \ {rest}
  /\ \/ running' = rest /\ UNCHANGED done
     \/ done' = done \cup {Rejection(Head(rest))} /\ UNCHANGED running
  /\ UNCHANGED <<program, artifact, calls, called, waiting>>

Next ==
  \/ Analyze \/ Request \/ Unwind \/ Perform
  \/ \E m \in Module : RunWaiting(m)
  \/ \E rest \in suspended : Settle(rest)

Spec == Init /\ [][Next]_vars

-----------------------------------------------------------------------------
\* Properties.

Verified == artifact.evidence = "verified"

\* A verified order is what the host does, whatever settles first: nothing happens
\* before what has to precede it, a settlement follows its await and excludes the
\* other one, a blocked importer never starts, and nothing happens that the
\* artifact does not know (docs/module-initialization-order.md).
VerifiedOrderHolds ==
  Verified =>
    /\ \A c \in artifact.constraints : c[2] \in done => c[1] \in done
    /\ \A c \in artifact.choices :
         /\ c.alternatives \cap done # {} => c.after \in done
         /\ ~(c.alternatives \subseteq done)
    /\ \A m \in DOMAIN artifact.blockedBy : artifact.blockedBy[m] # {} => Start(m) \notin done
    /\ \A e \in done : e \in artifact.events \/ \E c \in artifact.choices : e \in c.alternatives

Imports == {<<m, d>> \in Module \X Module : Seqs!Contains(DependenciesOf(m), d)}

\* The modules that m imports through any chain.
Closure(m) ==
  LET Within[n \in Nat] ==
        IF n = 0 THEN {d \in Module : <<m, d>> \in Imports}
        ELSE LET known == Within[n - 1] IN known \cup {i[2] : i \in {j \in Imports : j[1] \in known}}
  IN  Within[Cardinality(Module)]

\* The components are the classes of modules that import each other through chains,
\* wherever the walk meets a cycle first (module-order-core.ts:76-104).
ComponentsAreExact ==
  artifact # None /\ done = {} =>
    artifact.components =
      {{m} \cup {d \in Closure(m) : m \in Closure(d)} : m \in {program.entry} \cup Closure(program.entry)}

\* The claim every artifact makes, "an importer body starts only after every normally
\* completed static dependency" (module-order-core.ts:237): it follows from the
\* constraints of a verified artifact, except inside a ring.
Preceding(e) ==
  LET Within[n \in Nat] ==
        IF n = 0 THEN {e}
        ELSE LET known == Within[n - 1]
             IN  known \cup {c[1] : c \in {d \in artifact.constraints : d[2] \in known}}
  IN  Within[Cardinality(artifact.events)]

ImportersWait ==
  Verified /\ done = {} =>
    \A i \in Imports :
      (i[1] \in DOMAIN artifact.blockedBy /\ ~Throws(program, i[2])
         /\ ~\E ring \in artifact.rings : {i[1], i[2]} \subseteq ring)
        => Complete(i[2]) \in Preceding(Start(i[1]))
=============================================================================
