--------------------------- MODULE DisposalProduct ---------------------------
(***************************************************************************)
(* The machine generated for the `using` declarations of a function        *)
(* (src/resources/resource-temporal-product.ts), from the lowering of the  *)
(* declarations to acquisitions and releases                               *)
(* (src/resources/resource-disposal-protocol.ts).  The host runs inline or *)
(* in a microtask checkpoint: an awaited initializer or disposal starts in *)
(* one step and settles in another.                                        *)
(*                                                                         *)
(* A declaration is [start, end, async, awaited, conditional, loops]:      *)
(* where it stands, where its scope ends, `await using`, an awaited        *)
(* initializer, under a condition, and the loops around it.  Transition    *)
(* indexes and the failure ids built from them count from one.             *)
(***************************************************************************)
EXTENDS Integers, Sequences, FiniteSets, TLC

LOCAL Seqs == INSTANCE SequencesExt

CONSTANT Source  \* functions, each the sequence of its using declarations

Declarations(p) == DOMAIN p
Acquisitions(p) == Len(p)

\* Deliberate fault: the resources of a scope are disposed in source order.
DisposalsInSourceOrder(p) ==
  SortSeq([i \in DOMAIN p |-> i],
          LAMBDA d, e : p[d].end < p[e].end \/ (p[d].end = p[e].end /\ p[d].start < p[e].start))

\* Scopes end from the inside out, each disposing of its own in reverse.
Disposals(p) ==
  SortSeq([i \in DOMAIN p |-> i],
          LAMBDA d, e : p[d].end < p[e].end \/ (p[d].end = p[e].end /\ p[d].start > p[e].start))

Repeated(p) == {d \in DOMAIN p : p[d].loops # {}}
Conditional(p) == {d \in DOMAIN p : p[d].conditional} \ Repeated(p)

Refused(p) ==
  \/ Cardinality(UNION {p[d].loops : d \in DOMAIN p}) > 1
  \/ \E d \in Repeated(p) : \E e \in DOMAIN p \ Repeated(p) : d < e
  \/ \E d, e \in DOMAIN p : p[d].end < p[e].start

\* The release at index i, and the index of d's release.
Releases(p, i) == Disposals(p)[i - Acquisitions(p)]
ReleaseOf(p, d) == CHOOSE i \in Len(p) + 1 .. 2 * Len(p) : Releases(p, i) = d

FirstRepeatedAcquire(p) ==
  IF Repeated(p) = {} THEN 0 ELSE CHOOSE d \in Repeated(p) : \A e \in Repeated(p) : d <= e
FinalRepeatedRelease(p) ==
  IF Repeated(p) = {} THEN 0
  ELSE CHOOSE i \in {ReleaseOf(p, d) : d \in Repeated(p)} : \A e \in Repeated(p) : ReleaseOf(p, e) <= i

-----------------------------------------------------------------------------
\* The machine.

NoFailure == 0
BodyFailure == 1
InitializerFailure(i) == 1000 + i
DisposerFailure(i) == i + 1
NotFailed == -1
Nothing == -1

VARIABLES
  program,
  pc,            \* the transition to be performed next
  hostPhase,     \* 0: inline, 1: microtask checkpoint
  pending,       \* the transition that has started and not settled
  failureCount,  \* disposals that failed
  suppressed,    \* a disposal failed while a failure was active
  activeFailure,
  failureParent, \* per release: the failure it suppressed
  resource       \* 0: absent, 1: available, 2: released

vars == <<program, pc, hostPhase, pending, failureCount, suppressed, activeFailure,
          failureParent, resource>>

N == Len(program)

Init ==
  /\ program \in {p \in Source : ~Refused(p)}
  /\ pc = 1 /\ hostPhase = 0 /\ pending = Nothing
  /\ failureCount = 0 /\ suppressed = FALSE /\ activeFailure = NoFailure
  /\ failureParent = [d \in DOMAIN program |-> NotFailed]
  /\ resource = [d \in DOMAIN program |-> 0]

failures == <<failureCount, suppressed, activeFailure, failureParent>>

EnterCleanupThrow ==
  /\ pc = N + 1 /\ pending = Nothing /\ activeFailure = NoFailure
  /\ activeFailure' = BodyFailure
  /\ UNCHANGED <<program, pc, hostPhase, pending, failureCount, suppressed, failureParent, resource>>

Absent(d) == pc = d /\ d \in DOMAIN program /\ resource[d] = 0

AcquireStart(d) ==
  /\ Absent(d) /\ program[d].awaited
  /\ hostPhase = 0 /\ pending = Nothing
  /\ hostPhase' = 1 /\ pending' = d
  /\ UNCHANGED <<program, pc, failures, resource>>

AcquireResume(d) ==
  /\ Absent(d) /\ hostPhase = 1 /\ pending = d
  /\ pc' = d + 1 /\ hostPhase' = 0 /\ pending' = Nothing
  /\ resource' = [resource EXCEPT ![d] = 1]
  /\ UNCHANGED <<program, failures>>

\* The awaited initializer rejects: later acquisitions are skipped.
FailAcquireReject(d) ==
  /\ Absent(d) /\ hostPhase = 1 /\ pending = d
  /\ pc' = Acquisitions(program) + 1 /\ hostPhase' = 0 /\ pending' = Nothing
  /\ activeFailure' = InitializerFailure(d)
  /\ UNCHANGED <<program, failureCount, suppressed, failureParent, resource>>

AcquireInline(d) ==
  /\ Absent(d) /\ ~program[d].awaited /\ pending = Nothing
  /\ pc' = d + 1
  /\ resource' = [resource EXCEPT ![d] = 1]
  /\ UNCHANGED <<program, hostPhase, pending, failures>>

SkipAcquire(d) ==
  /\ Absent(d) /\ d \in Conditional(program) /\ pending = Nothing
  /\ pc' = d + 1
  /\ UNCHANGED <<program, hostPhase, pending, failures, resource>>

\* Every initializer may throw.
FailAcquire(d) ==
  /\ Absent(d) /\ pending = Nothing
  /\ pc' = Acquisitions(program) + 1
  /\ activeFailure' = InitializerFailure(d)
  /\ UNCHANGED <<program, hostPhase, pending, failureCount, suppressed, failureParent, resource>>

ExitRepeat ==
  /\ pc = FirstRepeatedAcquire(program) /\ pending = Nothing
  /\ pc' = FinalRepeatedRelease(program) + 1
  /\ UNCHANGED <<program, hostPhase, pending, failures, resource>>

-----------------------------------------------------------------------------
\* Releases.

Releasing(d) == pc > N /\ pc <= 2 * N /\ d = Releases(program, pc)

ReleaseStart(d) ==
  /\ Releasing(d) /\ program[d].async
  /\ resource[d] = 1 /\ pending = Nothing
  /\ hostPhase' = 1 /\ pending' = pc
  /\ UNCHANGED <<program, pc, failures, resource>>

\* The disposer returns, or its promise settles.
Settles(d) ==
  /\ Releasing(d)
  /\ IF program[d].async THEN hostPhase = 1 /\ pending = pc
     ELSE resource[d] = 1 /\ pending = Nothing

Release(d) ==
  /\ Settles(d)
  /\ pc' = pc + 1 /\ pending' = Nothing
  /\ resource' = [resource EXCEPT ![d] = 2]
  /\ UNCHANGED <<program, hostPhase, failures>>

\* The last release of the loop body starts another generation.
ReleaseRepeat(d) ==
  /\ Settles(d) /\ pc = FinalRepeatedRelease(program) /\ activeFailure = NoFailure
  /\ pc' = FirstRepeatedAcquire(program) /\ pending' = Nothing
  /\ hostPhase' = IF program[d].async THEN 0 ELSE hostPhase
  /\ resource' = [e \in DOMAIN program |-> IF e \in Repeated(program) THEN 0 ELSE resource[e]]
  /\ UNCHANGED <<program, failures>>

\* Deliberate fault: a second failure replaces the first.
ReleaseFailDropsSuppression(d) ==
  /\ Settles(d)
  /\ pc' = pc + 1 /\ pending' = Nothing
  /\ resource' = [resource EXCEPT ![d] = 2]
  /\ failureCount' = failureCount + 1
  /\ activeFailure' = DisposerFailure(pc)
  /\ failureParent' = [failureParent EXCEPT ![d] = activeFailure]
  /\ UNCHANGED <<program, hostPhase, suppressed>>

\* release_throw, release_reject
ReleaseFail(d) ==
  /\ Settles(d)
  /\ pc' = pc + 1 /\ pending' = Nothing
  /\ resource' = [resource EXCEPT ![d] = 2]
  /\ failureCount' = failureCount + 1
  /\ suppressed' = (suppressed \/ activeFailure # NoFailure)
  /\ activeFailure' = DisposerFailure(pc)
  /\ failureParent' = [failureParent EXCEPT ![d] = activeFailure]
  /\ UNCHANGED <<program, hostPhase>>

SkipRelease(d) ==
  /\ Releasing(d) /\ resource[d] = 0 /\ pending = Nothing
  /\ pc' = pc + 1
  /\ UNCHANGED <<program, hostPhase, pending, failures, resource>>

Next ==
  \/ EnterCleanupThrow
  \/ ExitRepeat
  \/ \E d \in DOMAIN program :
       \/ AcquireStart(d) \/ AcquireResume(d) \/ FailAcquireReject(d)
       \/ AcquireInline(d) \/ SkipAcquire(d) \/ FailAcquire(d)
       \/ ReleaseStart(d) \/ Release(d) \/ ReleaseRepeat(d) \/ ReleaseFail(d) \/ SkipRelease(d)

Spec == Init /\ [][Next]_vars

-----------------------------------------------------------------------------
\* Properties.

\* The property the generator hands to the model checker, on every product it
\* generates: more than one disposal failure means suppression, a suppressed
\* parent is an earlier failure, nothing is pending outside the checkpoint, and
\* the end leaves nothing acquired (resource-temporal-product.ts:272-284).
ResourceTemporalSafe ==
  /\ failureCount <= 1 \/ suppressed
  /\ suppressed = (\E d \in DOMAIN program : failureParent[d] \notin {NotFailed, NoFailure})
  /\ \A d \in DOMAIN program :
       failureParent[d] \in {NotFailed, NoFailure, BodyFailure}
         \cup {InitializerFailure(e) : e \in DOMAIN program}
         \cup {DisposerFailure(i) : i \in N + 1 .. ReleaseOf(program, d) - 1}
  /\ pending = Nothing \/ hostPhase = 1
  /\ pc = 2 * N + 1 => \A d \in DOMAIN program : resource[d] \in {0, 2}

\* The pending failures, the latest last, as the recorded parents chain them.
Origin(id) ==
  IF id = BodyFailure THEN 0
  ELSE IF id > 1000 THEN 1000 - id
  ELSE Releases(program, id - 1)

RECURSIVE Chain(_)
Chain(id) ==
  IF id \in {NoFailure, NotFailed} THEN <<>>
  ELSE IF Origin(id) > 0 THEN Append(Chain(failureParent[Origin(id)]), Origin(id))
  ELSE <<Origin(id)>>

\* The machine disposes as leaving nested scopes does: in the reverse order of
\* acquisition, each resource once, no failure lost or reordered, and a loop body
\* that starts over has nothing left open ("releases the complete generation, then
\* chooses repeat or exit", docs/resource-protocols.md:235-237).
Scope == INSTANCE UsingScope WITH
  Declaration <- 1 .. 9,
  held <- SelectSeq([d \in DOMAIN program |-> d], LAMBDA d : resource[d] = 1),
  raised <- Chain(activeFailure),
  leaving <- activeFailure # NoFailure \/ pc > N + 1 \/ (pc = N + 1 /\ pending # Nothing),
  looped <- Repeated(program)

LeavesEveryScope == Scope!Spec
=============================================================================
