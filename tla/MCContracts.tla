---------------------------- MODULE MCContracts ----------------------------
(***************************************************************************)
(* Three machines that check contracts against executions, side by side:   *)
(* `part` says which one an input is for, and the others stay idle.        *)
(*                                                                         *)
(* list:  lists of up to four transitions over three declared resources    *)
(*        and one undeclared name, every kind sure and unsure; MCTargeted  *)
(*        adds transfers that name a target.                               *)
(* scope: functions of three `using` declarations: every way the scopes    *)
(*        nest (a scope that ends before a later declaration is refused),  *)
(*        one loop, two loops or none, a condition around the innermost    *)
(*        scope, every mix of awaited and inline initializers and          *)
(*        disposals.                                                       *)
(* workflow: two forks, f with join j and g with join h, g being a branch  *)
(*        of f.  The successors of every other step vary: branches end,    *)
(*        loop, arrive at the wrong join, reenter a fork, or fork again    *)
(*        behind the join.                                                 *)
(***************************************************************************)
EXTENDS ParallelWorkflow, ResourceProtocol, Integers

CONSTANTS
  Part,                   \* the machines the run is about
  a, b, c, ghost,         \* resources
  f, g, h, j, p, q, r, x  \* steps, and a fact

VARIABLES
  part,
  program, pc, hostPhase, pending, failureCount, suppressed, activeFailure, failureParent, resource

-----------------------------------------------------------------------------
\* Lists of transitions.

MCResourceId == {a, b, c, ghost}
MCResource == {a, b, c}
MCStarts == [z \in MCResource |-> IF z = c THEN "available" ELSE "absent"]
MCRequired ==
  [z \in MCResource |-> IF z = a THEN {"released", "transferred"}
                        ELSE IF z = b THEN {"released", "consumed"} ELSE {}]

Plain ==
  [kind : {"acquire", "use", "release", "consume", "transfer", "escape", "invalidate"},
   resource : MCResource, others : {<<>>}, unsure : BOOLEAN]

Several ==
  [kind : {"split"}, resource : {a, c}, others : {<<b>>, <<a, b>>, <<ghost>>}, unsure : BOOLEAN]
  \cup [kind : {"join"}, resource : {a, b}, others : {<<c>>, <<c, b>>}, unsure : BOOLEAN]

Targeted == [kind : {"transfer"}, resource : {a, c}, others : {<<b>>, <<ghost>>}, unsure : BOOLEAN]

MCTransition == Plain \cup Several
MCTargeted == Plain \cup Targeted

-----------------------------------------------------------------------------
\* Functions with using declarations.

Begins == <<2, 4, 6>>

\* A scope that is open at a later declaration contains that declaration's scope.
Nested(ends) ==
  /\ \A d \in 1 .. 3 : Begins[d] < ends[d]
  /\ \A d, n \in 1 .. 3 : d < n /\ Begins[n] < ends[d] => ends[n] <= ends[d]

Ends == {ends \in [1 .. 3 -> {5, 7, 8, 9}] : Nested(ends)}

\* A loop or a condition is around a whole scope, from its first declaration l on.
Inside(ends, l) ==
  IF l = 0 \/ \E d \in 1 .. l - 1 : ends[d] = ends[l] THEN {}
  ELSE {d \in 1 .. 3 : d >= l /\ ends[d] <= ends[l]}

\* The loop starts right before declaration l, another one before k.
Written(ends, l, k, i, async, awaited) ==
  [d \in 1 .. 3 |->
    [start |-> Begins[d], end |-> ends[d], async |-> async[d], awaited |-> awaited[d],
     conditional |-> d \in Inside(ends, i) \cup Inside(ends, l),
     loops |-> {n \in {l, k} : d \in Inside(ends, n)}]]

AllSources ==
  {Written(ends, l, k, i, async, awaited) :
     ends \in Ends, l \in 0 .. 3, k \in {0, 3}, i \in {0, 2, 3},
     async \in [1 .. 3 -> BOOLEAN], awaited \in [1 .. 3 -> BOOLEAN]}

AnySource == INSTANCE DisposalProduct WITH Source <- AllSources

\* The last release of the loop body is inline, one before it is awaited, and an
\* initializer of the body is awaited.  The machine starts the body over in the
\* checkpoint and cannot start that initializer; left out.
ResumesInline(s) ==
  /\ AnySource!Repeated(s) # {}
  /\ ~s[AnySource!FirstRepeatedAcquire(s)].async
  /\ \E d, n \in AnySource!Repeated(s) : s[d].async /\ s[n].awaited

MCSource == {s \in AllSources : ~ResumesInline(s)}

Scopes == INSTANCE DisposalProduct WITH Source <- MCSource

-----------------------------------------------------------------------------
\* Workflows.

MCStep == {f, g, h, j, p, q, r}
MCFact == {x}

\* The successors that vary, and whether join h names fork f instead of g.
MCWorkflow ==
  [p : SUBSET {h, j, r}, r : {{h}, {f}, {h, r}}, q : {{j}, {h}, {}, {j, g}},
   h : {{j}, {}, {g, q}, {g}}, j : {{}, {f}, {p}, {g, f}}, mispaired : BOOLEAN]

MCEntry(w) == f
MCInitial(w) == {}

MCNextOf(w, s) ==
  CASE s = f -> {g, q} [] s = g -> {p, r} [] s = h -> w.h [] s = j -> w.j
    [] s = p -> w.p [] s = q -> w.q [] s = r -> w.r [] OTHER -> {}

MCKind(w, s) == IF s \in {f, g} THEN "fork" ELSE IF s \in {h, j} THEN "join" ELSE "action"

MCPairOf(w, s) ==
  CASE s = f -> j [] s = g -> h [] s = j -> f [] s = h -> IF w.mispaired THEN f ELSE g
    [] OTHER -> s

\* Join h requires what p provides, unless it leads straight to join j.
MCRequires(w, s) == IF s = h /\ w.h # {j} THEN {x} ELSE {}

MCProvides(w, s) == IF s = p THEN {x} ELSE {}
MCRevokes(w, s) == IF s \in {p, q} THEN {x} ELSE {}

\* Ample limits, and one limit scarce at a time.
Ample == [budget |-> 400, maxConfigurations |-> 40, maxTransitions |-> 200]

MCLimits ==
  {Ample, [Ample EXCEPT !.budget = 16], [Ample EXCEPT !.maxConfigurations = 10],
   [Ample EXCEPT !.maxTransitions = 12]}

-----------------------------------------------------------------------------
\* One of the three.

functions == <<program, pc, hostPhase, pending, failureCount, suppressed, activeFailure,
               failureParent, resource>>
workflows == <<vars, verification>>

NoList == record = Initially({}) /\ execution = Started /\ length = 0

NoFunction ==
  /\ program = <<>> /\ pc = 0 /\ hostPhase = 0 /\ pending = -1 /\ failureCount = 0
  /\ suppressed = FALSE /\ activeFailure = 0 /\ failureParent = <<>> /\ resource = <<>>

\* A workflow that is not looked at.
NoWorkflow ==
  /\ workflow = [p |-> {h}, r |-> {h}, q |-> {j}, h |-> {j}, j |-> {}, mispaired |-> FALSE]
  /\ limits = Ample
  /\ VerdictInit

MCInit ==
  /\ part \in Part
  /\ \/ part = "list" /\ ListInit /\ NoFunction /\ NoWorkflow
     \/ part = "scope" /\ NoList /\ Scopes!Init /\ NoWorkflow
     \/ part = "workflow" /\ NoList /\ NoFunction /\ VerdictInit

MCNext ==
  \/ part = "list" /\ ListNext /\ UNCHANGED <<part, functions, workflows>>
  \/ part = "scope" /\ Scopes!Next /\ UNCHANGED <<part, lists, workflows>>
  \/ part = "workflow" /\ VerdictNext /\ UNCHANGED <<part, lists, functions>>

MCSpec == MCInit /\ [][MCNext]_<<part, lists, functions, workflows>>

\* The properties of DisposalProduct; where there is no function, its scopes are left
\* before they are entered.
ResourceTemporalSafe == part = "scope" => Scopes!ResourceTemporalSafe
LeavesEveryScope == Scopes!LeavesEveryScope
=============================================================================
