-------------------------- MODULE FixedPointProofs --------------------------
(***************************************************************************)
(* Proofs about the data-flow engine, for every set of blocks, every       *)
(* lattice that satisfies LatticeAssumption and every option record.       *)
(***************************************************************************)
EXTENDS FixedPoint, TLAPS

\* What the lattice laws say about one accepted join, in the form the steps use.
LEMMA JoinIsUpperBound ==
  ASSUME NEW l \in Value, NEW r \in Value, Join(l, r) # Conflict
  PROVE  /\ Join(l, r) \in Value
         /\ Absorbs(Join(l, r), l)
         /\ Absorbs(Join(l, r), r)
  BY LatticeAssumption

\* The order of the lattice is transitive (the third lattice law).
LEMMA AbsorbsTransitive ==
  ASSUME NEW l \in Value, NEW m \in Value, NEW h \in Value,
         Absorbs(h, m), Absorbs(m, l)
  PROVE  Absorbs(h, l)
  BY LatticeAssumption

\* An initial value that joins with something is a value of the lattice.
LEMMA InitialAdmissible ==
  ASSUME NEW p \in Program, NEW v \in Value, Join(v, Initial(p)) # Conflict
  PROVE  Initial(p) \in Value
  BY ProgramAssumption

\* The value a flow carries, and the block it goes to.
LEMMA FlowTyped ==
  ASSUME NEW s \in Seq(Flow), s # <<>>
  PROVE  /\ Head(s) \in Flow
         /\ Head(s).to \in Block
         /\ Head(s).value \in Value
         /\ Tail(s) \in Seq(Flow)
  <1>1. Head(s) \in Flow /\ Tail(s) \in Seq(Flow)
    OBVIOUS
  <1>2. QED
    BY <1>1 DEF Flow

\* The same for the transfer at one position of a list.
LEMMA FlowAt ==
  ASSUME NEW s \in Seq(Flow), NEW i \in DOMAIN s
  PROVE  s[i].to \in Block /\ s[i].value \in Value
  <1>1. s[i] \in Flow
    OBVIOUS
  <1>2. QED
    BY <1>1 DEF Flow

-----------------------------------------------------------------------------
\* The engine's variables keep their types through every step and outcome.
THEOREM TypeCorrect == Spec => []TypeOK
  <1>1. Init => TypeOK
    BY LatticeAssumption DEF Init, TypeOK
  <1>2. TypeOK /\ [Next]_vars => TypeOK'
    <2> SUFFICES ASSUME TypeOK, [Next]_vars
                 PROVE  TypeOK'
      OBVIOUS
    <2>0. /\ Entry(program) \in Block
          /\ \A b \in Block, v \in Value : Transfer(program, b, v) \in Seq(Flow)
      BY ProgramAssumption DEF TypeOK
    <2>1. CASE RejectBudget \/ RejectGraph \/ ConflictAtEntry \/ Converge \/ ExhaustBudget
               \/ UndeclaredTransfer \/ ConflictTransfer
      BY <2>1 DEF RejectBudget, RejectGraph, ConflictAtEntry, Converge, ExhaustBudget,
                  UndeclaredTransfer, ConflictTransfer, Return, TypeOK
    <2>2. CASE Begin
      <3>1. Join(Bottom, Initial(program)) \in Value
        <4>1. Initial(program) \in Value
          BY <2>2, InitialAdmissible, LatticeAssumption DEF Begin, TypeOK
        <4>2. QED
          BY <4>1, LatticeAssumption
      <3>2. states' \in [Block -> Value]
        BY <2>0, <2>2, <3>1 DEF Begin, TypeOK
      <3>3. QED
        BY <2>0, <2>2, <3>2 DEF Begin, TypeOK
    <2>3. CASE Visit
      <3>1. Head(queue) \in Block /\ Tail(queue) \in Seq(Block)
        BY <2>3 DEF Visit, TypeOK
      <3>2. Transfer(program, Head(queue), states[Head(queue)]) \in Seq(Flow)
        BY <2>0, <3>1 DEF TypeOK
      <3>3. QED
        BY <2>3, <3>1, <3>2 DEF Visit, TypeOK
    <2>4. CASE FinishVisit
      BY <2>4 DEF FinishVisit, InVisit, TypeOK
    <2>5. CASE NothingNew
      BY <2>5, FlowTyped DEF NothingNew, Flowing, InVisit, TypeOK
    <2>6. CASE Propagate
      <3>1. Head(pending).to \in Block /\ Head(pending).value \in Value
            /\ Tail(pending) \in Seq(Flow)
        BY <2>6, FlowTyped DEF Propagate, Flowing, TypeOK
      <3>2. Join(states[Head(pending).to], Head(pending).value) \in Value
        BY <2>6, <3>1, JoinIsUpperBound DEF Propagate, TypeOK
      <3>3. QED
        BY <2>6, <3>1, <3>2 DEF Propagate, Flowing, InVisit, TypeOK
    <2>7. CASE UNCHANGED vars
      BY <2>7 DEF vars, TypeOK
    <2>8. QED
      BY <2>1, <2>2, <2>3, <2>4, <2>5, <2>6, <2>7 DEF Next
  <1>3. QED
    BY <1>1, <1>2, PTL DEF Spec

-----------------------------------------------------------------------------
\* The worklist and its membership set.

Elements(s) == {s[i] : i \in DOMAIN s}

\* Taking the head off a list without repetition takes exactly that block out of
\* the set of its elements (fixed-point.ts:87-88).
LEMMA DequeueKeepsMirror ==
  ASSUME NEW s \in Seq(Block), s # <<>>, Distinct(s)
  PROVE  /\ Distinct(Tail(s))
         /\ Elements(Tail(s)) = Elements(s) \ {Head(s)}
  <1>1. /\ Len(s) \in Nat
        /\ Len(s) >= 1
        /\ DOMAIN s = 1 .. Len(s)
        /\ Head(s) = s[1]
        /\ DOMAIN Tail(s) = 1 .. Len(s) - 1
        /\ \A i \in 1 .. Len(s) - 1 : Tail(s)[i] = s[i + 1]
    OBVIOUS
  <1>2. Distinct(Tail(s))
    BY <1>1 DEF Distinct
  <1>3. Elements(Tail(s)) \subseteq Elements(s) \ {Head(s)}
    <2>1. ASSUME NEW i \in 1 .. Len(s) - 1
          PROVE  Tail(s)[i] \in Elements(s) /\ Tail(s)[i] # Head(s)
      BY <1>1 DEF Distinct, Elements
    <2>2. QED
      BY <1>1, <2>1 DEF Elements
  <1>4. Elements(s) \ {Head(s)} \subseteq Elements(Tail(s))
    <2>1. ASSUME NEW i \in DOMAIN s, s[i] # Head(s)
          PROVE  s[i] \in Elements(Tail(s))
      <3>1. i - 1 \in 1 .. Len(s) - 1 /\ Tail(s)[i - 1] = s[i]
        BY <1>1, <2>1
      <3>2. QED
        BY <1>1, <3>1 DEF Elements
    <2>2. QED
      BY <2>1 DEF Elements
  <1>5. QED
    BY <1>2, <1>3, <1>4

\* Appending a block that is not in the list keeps it without repetition and adds
\* exactly that block to the set of its elements (fixed-point.ts:105-108).
LEMMA EnqueueKeepsMirror ==
  ASSUME NEW s \in Seq(Block), NEW b \in Block, b \notin Elements(s), Distinct(s)
  PROVE  /\ Distinct(Append(s, b))
         /\ Elements(Append(s, b)) = Elements(s) \cup {b}
  <1>1. /\ Len(s) \in Nat
        /\ DOMAIN s = 1 .. Len(s)
        /\ DOMAIN Append(s, b) = 1 .. Len(s) + 1
        /\ Append(s, b)[Len(s) + 1] = b
        /\ \A i \in 1 .. Len(s) : Append(s, b)[i] = s[i]
    OBVIOUS
  <1>2. Distinct(Append(s, b))
    BY <1>1 DEF Distinct, Elements
  <1>3. Elements(Append(s, b)) = Elements(s) \cup {b}
    BY <1>1 DEF Elements
  <1>4. QED
    BY <1>2, <1>3

\* Before the loop nothing has been stored or scheduled.
NotStarted ==
  status = "validating" =>
    /\ states = [b \in Block |-> Bottom]
    /\ queue = <<>>
    /\ queued = {}
    /\ visiting = NoBlock
    /\ pending = <<>>

\* Until Begin nothing has been scheduled, visited or valued (fixed-point.ts:71-80).
LEMMA NotStartedInvariant == Spec => []NotStarted
  <1>1. Init => NotStarted
    BY DEF Init, NotStarted
  <1>2. NotStarted /\ [Next]_vars => NotStarted'
    BY DEF NotStarted, Next, vars, RejectBudget, RejectGraph, ConflictAtEntry, Begin, Converge,
           ExhaustBudget, Visit, FinishVisit, UndeclaredTransfer, ConflictTransfer, NothingNew,
           Propagate, Return, InVisit, Flowing
  <1>3. QED
    BY <1>1, <1>2, PTL DEF Spec

\* The queued set is exactly the content of the worklist, and no block is in
\* the worklist twice.
THEOREM QueueConsistent == Spec => []QueuedMirrorsQueue
  <1>1. Init => QueuedMirrorsQueue
    BY DEF Init, QueuedMirrorsQueue, Distinct
  <1>2. TypeOK /\ NotStarted /\ QueuedMirrorsQueue /\ [Next]_vars => QueuedMirrorsQueue'
    <2> SUFFICES ASSUME TypeOK, NotStarted, QueuedMirrorsQueue, [Next]_vars
                 PROVE  QueuedMirrorsQueue'
      OBVIOUS
    <2>1. CASE UNCHANGED <<queue, queued>>
      BY <2>1 DEF QueuedMirrorsQueue
    <2>2. CASE Begin
      BY <2>2 DEF Begin, QueuedMirrorsQueue, Distinct
    <2>3. CASE Visit
      <3>1. queue \in Seq(Block) /\ queue # <<>> /\ Distinct(queue)
        BY <2>3 DEF Visit, TypeOK, QueuedMirrorsQueue
      <3>2. Distinct(Tail(queue)) /\ Elements(Tail(queue)) = Elements(queue) \ {Head(queue)}
        BY <3>1, DequeueKeepsMirror
      <3>3. QED
        BY <2>3, <3>2 DEF Visit, QueuedMirrorsQueue, Elements
    <2>4. CASE Propagate
      <3>1. Head(pending).to \in Block
        BY <2>4, FlowTyped DEF Propagate, Flowing, TypeOK
      <3>2. CASE Head(pending).to \in queued
        BY <2>4, <3>2 DEF Propagate, QueuedMirrorsQueue
      <3>3. CASE Head(pending).to \notin queued
        <4>1. /\ Distinct(Append(queue, Head(pending).to))
              /\ Elements(Append(queue, Head(pending).to)) = Elements(queue) \cup {Head(pending).to}
          BY <3>1, <3>3, EnqueueKeepsMirror DEF TypeOK, QueuedMirrorsQueue, Elements
        <4>2. QED
          BY <2>4, <3>3, <4>1 DEF Propagate, QueuedMirrorsQueue, Elements
      <3>4. QED
        BY <3>2, <3>3
    <2>5. QED
      BY <2>1, <2>2, <2>3, <2>4
         DEF Next, vars, RejectBudget, RejectGraph, ConflictAtEntry, Converge, ExhaustBudget,
             FinishVisit, UndeclaredTransfer, ConflictTransfer, NothingNew, Return
  <1>3. QED
    BY <1>1, <1>2, TypeCorrect, NotStartedInvariant, PTL DEF Spec

-----------------------------------------------------------------------------
\* Values only grow, step by step.

\* The effect of one accepted join on the map of values.
LEMMA PropagateEffect ==
  ASSUME TypeOK, Propagate
  PROVE  /\ Head(pending).to \in Block
         /\ Head(pending).value \in Value
         /\ \A b \in Block : Absorbs(states'[b], states[b])
         /\ \A b \in Block : b # Head(pending).to => states'[b] = states[b]
         /\ Absorbs(states'[Head(pending).to], Head(pending).value)
  <1> DEFINE to == Head(pending).to
             v == Head(pending).value
  <1>1. to \in Block /\ v \in Value
    BY FlowTyped DEF Propagate, Flowing, TypeOK
  <1>2. states' = [states EXCEPT ![to] = Join(states[to], v)]
        /\ Join(states[to], v) # Conflict
    BY DEF Propagate
  <1>3. Absorbs(states'[to], states[to]) /\ Absorbs(states'[to], v)
    BY <1>1, <1>2, JoinIsUpperBound DEF TypeOK
  <1>4. \A b \in Block : b # to => states'[b] = states[b]
    BY <1>1, <1>2 DEF TypeOK
  <1>5. \A b \in Block : Absorbs(states[b], states[b])
    BY LatticeAssumption DEF TypeOK, Absorbs
  <1>6. QED
    BY <1>1, <1>3, <1>4, <1>5

\* No step of the engine loses information about any block.
THEOREM Growing == Spec => StatesOnlyGrow
  <1>1. TypeOK /\ NotStarted /\ [Next]_vars
        => [\A b \in Block : Absorbs(states'[b], states[b])]_states
    <2> SUFFICES ASSUME TypeOK, NotStarted, [Next]_vars, states' # states
                 PROVE  \A b \in Block : Absorbs(states'[b], states[b])
      OBVIOUS
    <2>1. CASE Begin
      <3>1. Initial(program) \in Value /\ Entry(program) \in Block
        BY <2>1, InitialAdmissible, LatticeAssumption, ProgramAssumption DEF Begin, TypeOK
      <3>2. \A v \in Value : Absorbs(v, Bottom)
        BY LatticeAssumption DEF Absorbs
      <3>3. \A b \in Block : states[b] = Bottom /\ states'[b] \in Value
        BY <2>1, <3>1, LatticeAssumption DEF Begin, NotStarted
      <3>4. QED
        BY <3>2, <3>3
    <2>2. CASE Propagate
      BY <2>2, PropagateEffect
    <2>3. QED
      BY <2>1, <2>2
         DEF Next, vars, RejectBudget, RejectGraph, ConflictAtEntry, Converge, ExhaustBudget, Visit,
             FinishVisit, UndeclaredTransfer, ConflictTransfer, NothingNew, Return
  <1>2. QED
    BY <1>1, TypeCorrect, NotStartedInvariant, PTL DEF Spec, StatesOnlyGrow

-----------------------------------------------------------------------------
\* No change is forgotten.  The pieces of the inductive invariant: the entry
\* keeps its initial value, and UnsettledIsScheduled.

EntrySeeded ==
  status \in {"running", "converged"} => Absorbs(states[Entry(program)], Initial(program))

\* From Begin on the entry block holds at least the caller's initial value.
LEMMA EntrySeededInvariant == Spec => []EntrySeeded
  <1>1. Init => EntrySeeded
    BY DEF Init, EntrySeeded
  <1>2. TypeOK /\ NotStarted /\ EntrySeeded /\ [Next]_vars => EntrySeeded'
    <2> SUFFICES ASSUME TypeOK, NotStarted, EntrySeeded, [Next]_vars
                 PROVE  EntrySeeded'
      OBVIOUS
    <2>0. Entry(program) \in Block
      BY ProgramAssumption DEF TypeOK
    <2>1. CASE Begin
      <3>0. Initial(program) \in Value
        BY <2>1, InitialAdmissible, LatticeAssumption DEF Begin, TypeOK
      <3>1. Absorbs(Join(Bottom, Initial(program)), Initial(program))
        BY <2>1, <3>0, JoinIsUpperBound, LatticeAssumption DEF Begin
      <3>2. QED
        BY <2>0, <2>1, <3>1 DEF Begin, EntrySeeded, TypeOK
    <2>2. CASE Propagate
      <3>1. states'[Entry(program)] \in Value
        <4>1. Join(states[Head(pending).to], Head(pending).value) \in Value
          BY <2>2, PropagateEffect, JoinIsUpperBound DEF Propagate, TypeOK
        <4>2. QED
          BY <2>0, <2>2, <4>1, PropagateEffect DEF Propagate, TypeOK
      <3>2. Absorbs(states'[Entry(program)], states[Entry(program)])
        BY <2>0, <2>2, PropagateEffect
      <3>3. Absorbs(states[Entry(program)], Initial(program))
        BY <2>2 DEF Propagate, Flowing, InVisit, EntrySeeded
      <3>4. Absorbs(states'[Entry(program)], Initial(program))
        <4>1. Initial(program) \in Value
          BY <2>0, <3>3, InitialAdmissible, NamesAssumption DEF Absorbs, TypeOK
        <4>2. QED
          BY <2>0, <3>1, <3>2, <3>3, <4>1, AbsorbsTransitive DEF TypeOK
      <3>5. QED
        BY <2>2, <3>4 DEF Propagate, EntrySeeded
    <2>3. QED
      BY <2>1, <2>2
         DEF Next, vars, RejectBudget, RejectGraph, ConflictAtEntry, Converge, ExhaustBudget, Visit,
             FinishVisit, UndeclaredTransfer, ConflictTransfer, NothingNew, Return, EntrySeeded
  <1>3. QED
    BY <1>1, <1>2, TypeCorrect, NotStartedInvariant, PTL DEF Spec

\* A settled block stays settled while its own value does not change.
LEMMA SettledPersists ==
  ASSUME TypeOK, TypeOK', program' = program,
         \A c \in Block : Absorbs(states'[c], states[c]),
         NEW b \in Block, states'[b] = states[b], SettledIn(program, states, b)
  PROVE  SettledIn(program, states', b)
  <1> DEFINE out == Transfer(program, b, states[b])
  <1>1. out \in Seq(Flow)
    BY ProgramAssumption DEF TypeOK
  <1>2. ASSUME NEW i \in DOMAIN out
        PROVE  Absorbs(states'[out[i].to], out[i].value)
    <2>1. out[i].to \in Block /\ out[i].value \in Value
      BY <1>1, FlowAt
    <2>2. Absorbs(states[out[i].to], out[i].value)
      BY DEF SettledIn
    <2>3. QED
      BY <2>1, <2>2, AbsorbsTransitive DEF TypeOK
  <1>3. QED
    BY <1>2 DEF SettledIn

\* Taking the head of pending off keeps the visit accounted for, provided the
\* head is absorbed and nothing absorbed before is lost.
LEMMA VisitAdvances ==
  ASSUME TypeOK, TypeOK', VisitAccountedFor, Flowing,
         program' = program, visiting' = visiting, status' = status,
         pending' = Tail(pending),
         visiting \notin queued' => visiting \notin queued /\ states'[visiting] = states[visiting],
         \A c \in Block : Absorbs(states'[c], states[c]),
         Absorbs(states'[Head(pending).to], Head(pending).value)
  PROVE  VisitAccountedFor'
  <1> DEFINE out == Transfer(program, visiting, states[visiting])
             done == Len(out) - Len(pending)
  <1> SUFFICES ASSUME visiting \notin queued'
               PROVE  /\ Len(out) - Len(Tail(pending)) >= 0
                      /\ \A i \in DOMAIN Tail(pending) :
                           Tail(pending)[i] = out[Len(out) - Len(Tail(pending)) + i]
                      /\ \A i \in 1 .. Len(out) - Len(Tail(pending)) :
                           Absorbs(states'[out[i].to], out[i].value)
    BY DEF VisitAccountedFor, InVisit
  <1>1. visiting \in Block /\ out \in Seq(Flow) /\ pending \in Seq(Flow) /\ pending # <<>>
    BY ProgramAssumption DEF TypeOK, Flowing, InVisit
  <1>2. /\ done >= 0
        /\ \A i \in DOMAIN pending : pending[i] = out[done + i]
        /\ \A i \in 1 .. done : Absorbs(states[out[i].to], out[i].value)
    BY DEF VisitAccountedFor, Flowing
  <1>3. /\ Len(out) \in Nat
        /\ Len(pending) \in Nat \ {0}
        /\ DOMAIN pending = 1 .. Len(pending)
        /\ DOMAIN out = 1 .. Len(out)
        /\ Head(pending) = pending[1]
        /\ Len(Tail(pending)) = Len(pending) - 1
        /\ DOMAIN Tail(pending) = 1 .. Len(pending) - 1
        /\ \A i \in 1 .. Len(pending) - 1 : Tail(pending)[i] = pending[i + 1]
    BY <1>1
  <1>4. Len(out) - Len(Tail(pending)) = done + 1
    BY <1>3
  <1>5. ASSUME NEW i \in DOMAIN Tail(pending)
        PROVE  Tail(pending)[i] = out[done + 1 + i]
    <2>1. i + 1 \in DOMAIN pending /\ Tail(pending)[i] = pending[i + 1]
      BY <1>3
    <2>2. pending[i + 1] = out[done + (i + 1)]
      BY <1>2, <2>1
    <2>3. done + (i + 1) = done + 1 + i
      BY <1>3
    <2>4. QED
      BY <2>1, <2>2, <2>3
  <1>6. ASSUME NEW i \in 1 .. done + 1
        PROVE  Absorbs(states'[out[i].to], out[i].value)
    <2>1. i \in DOMAIN out
      BY <1>3, <1>4
    <2>2. out[i].to \in Block /\ out[i].value \in Value
      BY <1>1, <2>1, FlowAt
    <2>3. CASE i \in 1 .. done
      <3>1. Absorbs(states[out[i].to], out[i].value)
        BY <1>2, <2>3
      <3>2. Absorbs(states'[out[i].to], states[out[i].to])
        BY <2>2
      <3>3. states[out[i].to] \in Value /\ states'[out[i].to] \in Value
        BY <2>2 DEF TypeOK
      <3>4. QED
        BY ONLY <2>2, <3>1, <3>2, <3>3, AbsorbsTransitive
    <2>4. CASE i = done + 1
      <3>1. out[i] = Head(pending)
        BY <1>2, <1>3, <2>4
      <3>2. QED
        BY <3>1
    <2>5. QED
      BY <1>2, <1>3, <2>3, <2>4
  <1>7. QED
    BY <1>2, <1>3, <1>4, <1>5, <1>6

\* The heart of the worklist algorithm: a reached block whose targets have not
\* absorbed what it sends is scheduled or being visited.
THEOREM NothingForgotten == Spec => []UnsettledIsScheduled
  <1>1. Init => UnsettledIsScheduled
    BY DEF Init, UnsettledIsScheduled, VisitAccountedFor, InVisit
  <1>2. TypeOK /\ TypeOK' /\ NotStarted /\ UnsettledIsScheduled /\ [Next]_vars
        => UnsettledIsScheduled'
    <2> SUFFICES ASSUME TypeOK, TypeOK', NotStarted, UnsettledIsScheduled, [Next]_vars
                 PROVE  UnsettledIsScheduled'
      OBVIOUS
    <2>1. CASE RejectBudget \/ RejectGraph \/ ConflictAtEntry \/ ExhaustBudget
               \/ UndeclaredTransfer \/ ConflictTransfer
      BY <2>1 DEF RejectBudget, RejectGraph, ConflictAtEntry, ExhaustBudget, UndeclaredTransfer,
                  ConflictTransfer, Return, UnsettledIsScheduled, VisitAccountedFor, InVisit
    <2>2. CASE Converge
      BY <2>2 DEF Converge, Return, UnsettledIsScheduled, VisitAccountedFor, InVisit
    <2>3. CASE Begin
      <3>1. ASSUME NEW b \in Block, ReachedIn(program, states', b)
            PROVE  b \in queued'
        BY <2>3, <3>1 DEF Begin, NotStarted, ReachedIn
      <3>2. QED
        BY <2>3, <3>1, NamesAssumption
           DEF Begin, NotStarted, UnsettledIsScheduled, VisitAccountedFor, InVisit
    <2>4. CASE Visit
      <3>1. visiting' \in Block /\ pending' = Transfer(program, visiting', states[visiting'])
            /\ pending' \in Seq(Flow)
        BY <2>4 DEF Visit, TypeOK
      <3>2. VisitAccountedFor'
        <4>1. Len(pending') - Len(pending') = 0
          BY <3>1
        <4>2. QED
          BY <2>4, <3>1, <4>1 DEF Visit, VisitAccountedFor
      <3>3. \A b \in Block : b # visiting
        BY <2>4, NamesAssumption DEF Visit
      <3>4. QED
        BY <2>4, <3>2, <3>3 DEF Visit, UnsettledIsScheduled
    <2>5. CASE FinishVisit
      <3>1. ASSUME visiting \notin queued
            PROVE  SettledIn(program, states, visiting)
        <4> DEFINE out == Transfer(program, visiting, states[visiting])
        <4>1. visiting \in Block /\ out \in Seq(Flow)
          BY <2>5, ProgramAssumption DEF FinishVisit, InVisit, TypeOK
        <4>2. \A i \in 1 .. Len(out) - Len(pending) : Absorbs(states[out[i].to], out[i].value)
          BY <2>5, <3>1 DEF FinishVisit, UnsettledIsScheduled, VisitAccountedFor
        <4>3. Len(pending) = 0 /\ DOMAIN out = 1 .. Len(out) /\ Len(out) \in Nat
          BY <2>5, <4>1 DEF FinishVisit
        <4>4. QED
          BY <4>2, <4>3 DEF SettledIn
      <3>2. QED
        BY <2>5, <3>1 DEF FinishVisit, UnsettledIsScheduled, VisitAccountedFor, InVisit
    <2>6. CASE NothingNew
      <3>1. \A c \in Block : Absorbs(states[c], states[c])
        BY LatticeAssumption DEF TypeOK, Absorbs
      <3>2. VisitAccountedFor'
        BY <2>6, <3>1, VisitAdvances DEF NothingNew, Flowing, InVisit, UnsettledIsScheduled
      <3>3. QED
        BY <2>6, <3>2 DEF NothingNew, UnsettledIsScheduled
    <2>7. CASE Propagate
      <3>1. VisitAccountedFor'
        <4>1. visiting \in Block
          BY <2>7 DEF Propagate, Flowing, InVisit, TypeOK
        <4>2. visiting \notin queued'
              => visiting \notin queued /\ states'[visiting] = states[visiting]
          BY <2>7, <4>1, PropagateEffect DEF Propagate
        <4>3. Flowing /\ VisitAccountedFor /\ program' = program /\ visiting' = visiting
              /\ status' = status /\ pending' = Tail(pending)
          BY <2>7 DEF Propagate, UnsettledIsScheduled
        <4>4. QED
          BY <2>7, <4>2, <4>3, PropagateEffect, VisitAdvances
      <3>2. ASSUME NEW b \in Block, ReachedIn(program, states', b), b \notin queued', b # visiting
            PROVE  SettledIn(program, states', b)
        <4>1. b # Head(pending).to /\ b \notin queued /\ status = "running"
              /\ program' = program
          BY <2>7, <3>2 DEF Propagate, Flowing, InVisit
        <4>2. states'[b] = states[b]
          BY <2>7, <4>1, PropagateEffect
        <4>3. SettledIn(program, states, b)
          BY <3>2, <4>1, <4>2 DEF UnsettledIsScheduled, ReachedIn
        <4>4. QED
          BY <2>7, <4>1, <4>2, <4>3, PropagateEffect, SettledPersists
      <3>3. program' = program /\ visiting' = visiting
        BY <2>7 DEF Propagate
      <3>4. QED
        BY <3>1, <3>2, <3>3 DEF UnsettledIsScheduled
    <2>8. CASE UNCHANGED vars
      BY <2>8 DEF vars, UnsettledIsScheduled, VisitAccountedFor, InVisit
    <2>9. QED
      BY <2>1, <2>2, <2>3, <2>4, <2>5, <2>6, <2>7, <2>8 DEF Next
  <1>3. QED
    BY <1>1, <1>2, TypeCorrect, NotStartedInvariant, PTL DEF Spec

-----------------------------------------------------------------------------
\* Where the work comes from: only reached blocks are scheduled or visited, and
\* what is pending was sent at a value the visited block had then.

\* Nothing but Bottom is absorbed by Bottom: a reached block stays reached.
LEMMA OnlyBottomBelowBottom ==
  ASSUME NEW v \in Value, Absorbs(Bottom, v)
  PROVE  v = Bottom
  BY LatticeAssumption DEF Absorbs

WorkIsReached ==
  \A b \in Block : b \in queued \/ b = visiting => ReachedIn(program, states, b)

\* Every scheduled or visited block has been reached by some path.
LEMMA WorkIsReachedInvariant == Spec => []WorkIsReached
  <1>1. Init => WorkIsReached
    BY NamesAssumption DEF Init, WorkIsReached
  <1>2. TypeOK /\ TypeOK' /\ NotStarted /\ QueuedMirrorsQueue /\ WorkIsReached /\ [Next]_vars
        => WorkIsReached'
    <2> SUFFICES ASSUME TypeOK, TypeOK', NotStarted, QueuedMirrorsQueue, WorkIsReached, [Next]_vars
                 PROVE  WorkIsReached'
      OBVIOUS
    <2>1. CASE Begin
      BY <2>1, NamesAssumption DEF Begin, NotStarted, WorkIsReached, ReachedIn
    <2>2. CASE Visit
      <3>1. Head(queue) \in queued
        BY <2>2 DEF Visit, QueuedMirrorsQueue, TypeOK
      <3>2. QED
        BY <2>2, <3>1 DEF Visit, WorkIsReached
    <2>3. CASE FinishVisit
      BY <2>3, NamesAssumption DEF FinishVisit, WorkIsReached
    <2>4. CASE Propagate
      <3>1. ASSUME NEW b \in Block, states[b] # Bottom \/ b = Head(pending).to
            PROVE  states'[b] # Bottom
        <4>1. SUFFICES ASSUME states'[b] = Bottom
                       PROVE  FALSE
          OBVIOUS
        <4>2. Absorbs(Bottom, states[b])
          BY <2>4, <4>1, PropagateEffect
        <4>3. states[b] = Bottom
          BY <4>2, OnlyBottomBelowBottom DEF TypeOK
        <4>4. states'[b] # states[b]
          BY <2>4, <3>1, <4>3, PropagateEffect DEF Propagate, TypeOK
        <4>5. QED
          BY <4>1, <4>3, <4>4
      <3>2. QED
        BY <2>4, <3>1 DEF Propagate, WorkIsReached, ReachedIn
    <2>5. QED
      BY <2>1, <2>2, <2>3, <2>4
         DEF Next, vars, RejectBudget, RejectGraph, ConflictAtEntry, Converge, ExhaustBudget,
             UndeclaredTransfer, ConflictTransfer, NothingNew, Return, WorkIsReached
  <1>3. QED
    BY <1>1, <1>2, TypeCorrect, NotStartedInvariant, QueueConsistent, PTL DEF Spec

PendingJustified ==
  visiting # NoBlock =>
    \E u \in Value :
      /\ Absorbs(states[visiting], u)
      /\ \A i \in DOMAIN pending :
           \E j \in DOMAIN Transfer(program, visiting, u) :
             pending[i] = Transfer(program, visiting, u)[j]

\* Pending transfers were computed at a value the visited block still absorbs.
LEMMA PendingJustifiedInvariant == Spec => []PendingJustified
  <1>1. Init => PendingJustified
    BY DEF Init, PendingJustified
  <1>2. TypeOK /\ TypeOK' /\ NotStarted /\ PendingJustified /\ [Next]_vars => PendingJustified'
    <2> SUFFICES ASSUME TypeOK, TypeOK', NotStarted, PendingJustified, [Next]_vars
                 PROVE  PendingJustified'
      OBVIOUS
    <2>1. CASE Begin \/ FinishVisit
      BY <2>1 DEF Begin, FinishVisit, NotStarted, PendingJustified
    <2>2. CASE Visit
      <3>1. visiting' \in Block /\ states[visiting'] \in Value
        BY <2>2 DEF Visit, TypeOK
      <3>2. Absorbs(states[visiting'], states[visiting'])
        BY <3>1, LatticeAssumption DEF Absorbs
      <3>3. QED
        BY <2>2, <3>1, <3>2 DEF Visit, PendingJustified
    <2>3. CASE NothingNew \/ Propagate
      <3>1. visiting \in Block /\ visiting' = visiting /\ program' = program /\ visiting # NoBlock
            /\ pending' = Tail(pending) /\ pending \in Seq(Flow) /\ pending # <<>>
        BY <2>3 DEF NothingNew, Propagate, Flowing, InVisit, TypeOK
      <3>2. Absorbs(states'[visiting], states[visiting])
        <4>1. CASE NothingNew
          <5>1. states' = states /\ states[visiting] \in Value
            BY <3>1, <4>1 DEF NothingNew, TypeOK
          <5>2. QED
            BY <5>1, LatticeAssumption DEF Absorbs
        <4>2. CASE Propagate
          BY <3>1, <4>2, PropagateEffect
        <4>3. QED
          BY <2>3, <4>1, <4>2
      <3>3. PICK u \in Value :
              /\ Absorbs(states[visiting], u)
              /\ \A i \in DOMAIN pending :
                   \E j \in DOMAIN Transfer(program, visiting, u) :
                     pending[i] = Transfer(program, visiting, u)[j]
        BY <3>1 DEF PendingJustified
      <3>4. Absorbs(states'[visiting], u)
        BY <3>1, <3>2, <3>3, AbsorbsTransitive DEF TypeOK
      <3>5. \A i \in DOMAIN Tail(pending) : \E k \in DOMAIN pending : Tail(pending)[i] = pending[k]
        <4>1. DOMAIN Tail(pending) = 1 .. Len(pending) - 1 /\ DOMAIN pending = 1 .. Len(pending)
              /\ Len(pending) \in Nat
              /\ \A i \in 1 .. Len(pending) - 1 : Tail(pending)[i] = pending[i + 1]
          BY <3>1
        <4>2. \A i \in 1 .. Len(pending) - 1 : i + 1 \in 1 .. Len(pending)
          BY <4>1
        <4>3. QED
          BY <4>1, <4>2
      <3>6. QED
        BY <3>1, <3>3, <3>4, <3>5 DEF PendingJustified
    <2>4. QED
      BY <2>1, <2>2, <2>3
         DEF Next, vars, RejectBudget, RejectGraph, ConflictAtEntry, Converge, ExhaustBudget,
             UndeclaredTransfer, ConflictTransfer, Return, PendingJustified
  <1>3. QED
    BY <1>1, <1>2, TypeCorrect, NotStartedInvariant, PTL DEF Spec

-----------------------------------------------------------------------------
\* Precision: with monotone transfers the engine never rises above a solution.

BelowEverySolution ==
  Monotone(program) =>
    \A s \in [Block -> Value] : IsSolution(program, s) =>
      /\ \A b \in Block : Absorbs(s[b], states[b])
      /\ \A i \in DOMAIN pending : Absorbs(s[pending[i].to], pending[i].value)

\* For monotone transfers no value, and no pending transfer, ever exceeds any
\* solution of the problem.
LEMMA BelowEverySolutionInvariant == Spec => []BelowEverySolution
  <1>0. \A v \in Value : Absorbs(v, Bottom)
    BY LatticeAssumption DEF Absorbs
  <1>1. Init => BelowEverySolution
    BY <1>0 DEF Init, BelowEverySolution
  <1>2. TypeOK /\ NotStarted /\ QueuedMirrorsQueue /\ WorkIsReached /\ BelowEverySolution
        /\ [Next]_vars => BelowEverySolution'
    <2> SUFFICES ASSUME TypeOK, NotStarted, QueuedMirrorsQueue, WorkIsReached, BelowEverySolution,
                        [Next]_vars, Monotone(program)', NEW s \in [Block -> Value],
                        IsSolution(program, s)'
                 PROVE  /\ \A b \in Block : Absorbs(s[b], states'[b])
                        /\ \A i \in DOMAIN pending' : Absorbs(s[pending'[i].to], pending'[i].value)
      BY DEF BelowEverySolution
    <2>0. program' = program /\ Monotone(program) /\ IsSolution(program, s)
      <3>1. program' = program
        BY DEF Next, vars, RejectBudget, RejectGraph, ConflictAtEntry, Begin, Converge, ExhaustBudget,
               Visit, FinishVisit, UndeclaredTransfer, ConflictTransfer, NothingNew, Propagate, Return
      <3>2. QED
        BY <3>1
    <2>a. /\ \A b \in Block : Absorbs(s[b], states[b])
          /\ \A i \in DOMAIN pending : Absorbs(s[pending[i].to], pending[i].value)
      BY <2>0 DEF BelowEverySolution
    <2>1. CASE Begin
      <3>1. Initial(program) \in Value /\ Entry(program) \in Block
        BY <2>1, InitialAdmissible, LatticeAssumption, ProgramAssumption DEF Begin, TypeOK
      <3>2. Absorbs(s[Entry(program)], Join(Bottom, Initial(program)))
        BY <2>0, <3>1, LatticeAssumption DEF IsSolution
      <3>3. QED
        BY <2>1, <2>a, <3>1, <3>2 DEF Begin, TypeOK
    <2>2. CASE Visit
      <3> DEFINE id == Head(queue)
      <3>1. id \in Block /\ id \in queued /\ states[id] \in Value /\ s[id] \in Value
        BY <2>2 DEF Visit, QueuedMirrorsQueue, TypeOK
      <3>2. ReachedIn(program, s, id)
        <4>1. ReachedIn(program, states, id)
          BY <3>1 DEF WorkIsReached
        <4>2. s[id] = Bottom => states[id] = Bottom
          BY <2>a, <3>1, OnlyBottomBelowBottom
        <4>3. QED
          BY <4>1, <4>2 DEF ReachedIn
      <3>3. SettledIn(program, s, id)
        BY <2>0, <3>1, <3>2 DEF IsSolution
      <3> DEFINE low == Transfer(program, id, states[id])
                 high == Transfer(program, id, s[id])
      <3>4. low \in Seq(Flow) /\ high \in Seq(Flow)
        BY <3>1, ProgramAssumption DEF TypeOK
      <3>5. ASSUME NEW i \in DOMAIN low
            PROVE  Absorbs(s[low[i].to], low[i].value)
        <4>1. PICK j \in DOMAIN high : high[j].to = low[i].to /\ Absorbs(high[j].value, low[i].value)
          BY <2>0, <2>a, <3>1 DEF Monotone
        <4>2. Absorbs(s[high[j].to], high[j].value)
          BY <3>3 DEF SettledIn
        <4>3. low[i].to \in Block /\ low[i].value \in Value /\ high[j].value \in Value
          BY <3>4, FlowAt
        <4>4. QED
          BY <4>1, <4>2, <4>3, AbsorbsTransitive
      <3>6. states' = states /\ pending' = low
        BY <2>2 DEF Visit
      <3>7. QED
        BY <2>a, <3>5, <3>6
    <2>3. CASE NothingNew \/ Propagate
      <3>1. pending \in Seq(Flow) /\ pending # <<>> /\ pending' = Tail(pending)
        BY <2>3 DEF NothingNew, Propagate, Flowing, TypeOK
      <3>2. /\ DOMAIN pending = 1 .. Len(pending)
            /\ Len(pending) \in Nat \ {0}
            /\ Head(pending) = pending[1]
            /\ DOMAIN Tail(pending) = 1 .. Len(pending) - 1
            /\ \A i \in 1 .. Len(pending) - 1 : Tail(pending)[i] = pending[i + 1]
        BY <3>1
      <3>3. \A i \in DOMAIN pending' : Absorbs(s[pending'[i].to], pending'[i].value)
        <4>1. \A i \in DOMAIN Tail(pending) : i + 1 \in DOMAIN pending
          BY <3>2
        <4>2. QED
          BY <2>a, <3>1, <3>2, <4>1
      <3>4. \A b \in Block : Absorbs(s[b], states'[b])
        <4>1. CASE NothingNew
          BY <2>a, <4>1 DEF NothingNew
        <4>2. CASE Propagate
          <5> DEFINE to == Head(pending).to
                     v == Head(pending).value
          <5>1. to \in Block /\ v \in Value
            BY <4>2, PropagateEffect
          <5>2. Absorbs(s[to], states[to]) /\ Absorbs(s[to], v)
            <6>1. 1 \in DOMAIN pending
              BY <3>2
            <6>2. QED
              BY <2>a, <3>2, <5>1, <6>1
          <5>3. Absorbs(s[to], Join(states[to], v))
            BY <5>1, <5>2, LatticeAssumption DEF TypeOK
          <5>4. QED
            BY <2>a, <4>2, <5>1, <5>3, PropagateEffect DEF Propagate, TypeOK
        <4>3. QED
          BY <2>3, <4>1, <4>2
      <3>5. QED
        BY <3>3, <3>4
    <2>4. QED
      BY <2>1, <2>2, <2>3, <2>a
         DEF Next, vars, RejectBudget, RejectGraph, ConflictAtEntry, Converge, ExhaustBudget,
             FinishVisit, UndeclaredTransfer, ConflictTransfer, Return
  <1>3. QED
    BY <1>1, <1>2, TypeCorrect, NotStartedInvariant, QueueConsistent, WorkIsReachedInvariant, PTL DEF Spec

-----------------------------------------------------------------------------
\* The verdicts.

ConvergedOnEmptyQueue == status = "converged" => queue = <<>> /\ visiting = NoBlock

\* "converged" is returned at the loop head, with an empty worklist only.
LEMMA ConvergedOnEmptyQueueInvariant == Spec => []ConvergedOnEmptyQueue
  <1>1. Init => ConvergedOnEmptyQueue
    BY DEF Init, ConvergedOnEmptyQueue
  <1>2. ConvergedOnEmptyQueue /\ [Next]_vars => ConvergedOnEmptyQueue'
    BY DEF ConvergedOnEmptyQueue, Next, vars, RejectBudget, RejectGraph, ConflictAtEntry, Begin,
           Converge, ExhaustBudget, Visit, FinishVisit, UndeclaredTransfer, ConflictTransfer,
           NothingNew, Propagate, Return, InVisit, Flowing
  <1>3. QED
    BY <1>1, <1>2, PTL DEF Spec

\* The join that conflicted is still there to see when the call has ended.
ConflictWitnessed ==
  reason # "none" =>
    /\ status \in {"unknown", "thrown"}
    /\ reason = "lattice-conflict" =>
         \/ Join(Bottom, Initial(program)) = Conflict
         \/ /\ pending # <<>>
            /\ Join(states[Head(pending).to], Head(pending).value) = Conflict

\* A reported conflict is the failure of the join at the entry or at the head of
\* the pending transfers.
LEMMA ConflictWitnessedInvariant == Spec => []ConflictWitnessed
  <1>1. Init => ConflictWitnessed
    BY DEF Init, ConflictWitnessed
  <1>2. ConflictWitnessed /\ [Next]_vars => ConflictWitnessed'
    BY DEF ConflictWitnessed, Next, vars, RejectBudget, RejectGraph, ConflictAtEntry, Begin,
           Converge, ExhaustBudget, Visit, FinishVisit, UndeclaredTransfer, ConflictTransfer,
           NothingNew, Propagate, Return, InVisit, Flowing
  <1>3. QED
    BY <1>1, <1>2, PTL DEF Spec

\* A converged call has solved the problem it was given; if the transfers are
\* monotone its result is the least solution, so no choice the engine makes
\* (order of blocks, of edges, of visits) can change it.
THEOREM ConvergenceSound == Spec => []ConvergedIsLeastSolution
  <1>1. /\ TypeOK /\ QueuedMirrorsQueue /\ EntrySeeded /\ UnsettledIsScheduled
        /\ BelowEverySolution /\ ConvergedOnEmptyQueue
        => ConvergedIsLeastSolution
    <2> SUFFICES ASSUME TypeOK, QueuedMirrorsQueue, EntrySeeded, UnsettledIsScheduled,
                        BelowEverySolution, ConvergedOnEmptyQueue, status = "converged"
                 PROVE  /\ IsSolution(program, states)
                        /\ Monotone(program) => \A s \in [Block -> Value] :
                             IsSolution(program, s) => \A b \in Block : Absorbs(s[b], states[b])
      BY DEF ConvergedIsLeastSolution
    <2>1. queued = {} /\ visiting = NoBlock
      BY DEF ConvergedOnEmptyQueue, QueuedMirrorsQueue
    <2>2. IsSolution(program, states)
      BY <2>1, NamesAssumption DEF UnsettledIsScheduled, EntrySeeded, IsSolution
    <2>3. QED
      BY <2>2 DEF BelowEverySolution
  <1>2. QED
    BY <1>1, TypeCorrect, QueueConsistent, EntrySeededInvariant, NothingForgotten,
       BelowEverySolutionInvariant, ConvergedOnEmptyQueueInvariant, PTL

\* A reported conflict is a fact about the problem, not about the visiting
\* order: with monotone transfers the problem has no solution.
THEOREM ConflictSound == Spec => []ConflictMeansNoSolution
  <1>1. TypeOK /\ BelowEverySolution /\ ConflictWitnessed => ConflictMeansNoSolution
    <2> SUFFICES ASSUME TypeOK, BelowEverySolution, ConflictWitnessed,
                        reason = "lattice-conflict", Monotone(program),
                        NEW s \in [Block -> Value], IsSolution(program, s)
                 PROVE  FALSE
      BY DEF ConflictMeansNoSolution
    <2>1. CASE Join(Bottom, Initial(program)) = Conflict
      <3>1. Initial(program) \notin Value /\ Entry(program) \in Block
        BY <2>1, LatticeAssumption, NamesAssumption, ProgramAssumption DEF TypeOK
      <3>2. Join(s[Entry(program)], Initial(program)) = s[Entry(program)]
        BY DEF IsSolution, Absorbs
      <3>3. QED
        BY <3>1, <3>2, ProgramAssumption, NamesAssumption DEF TypeOK
    <2>2. CASE /\ pending # <<>>
               /\ Join(states[Head(pending).to], Head(pending).value) = Conflict
      <3>1. /\ Head(pending).to \in Block
            /\ Head(pending).value \in Value
            /\ 1 \in DOMAIN pending
            /\ Head(pending) = pending[1]
        BY <2>2, FlowTyped DEF TypeOK
      <3>2. /\ Absorbs(s[Head(pending).to], states[Head(pending).to])
            /\ Absorbs(s[Head(pending).to], Head(pending).value)
        BY <3>1 DEF BelowEverySolution
      <3>3. Join(states[Head(pending).to], Head(pending).value) \in Value
        BY <3>1, <3>2, LatticeAssumption DEF TypeOK
      <3>4. QED
        BY <2>2, <3>3, NamesAssumption
    <2>3. QED
      BY <2>1, <2>2 DEF ConflictWitnessed
  <1>2. QED
    BY <1>1, TypeCorrect, BelowEverySolutionInvariant, ConflictWitnessedInvariant, PTL

-----------------------------------------------------------------------------
\* Refinement.

\* One step of the engine is one step of the abstract iteration, or none.
LEMMA StepRefines ==
  TypeOK /\ TypeOK' /\ NotStarted /\ QueuedMirrorsQueue /\ EntrySeeded /\ UnsettledIsScheduled
    /\ WorkIsReached /\ PendingJustified /\ [Next]_vars
  => [Chaotic!Next]_(Chaotic!vars)
  <1> SUFFICES ASSUME TypeOK, TypeOK', NotStarted, QueuedMirrorsQueue, EntrySeeded,
                      UnsettledIsScheduled, WorkIsReached, PendingJustified, [Next]_vars
               PROVE  [Chaotic!Next]_(Chaotic!vars)
    OBVIOUS
  <1>1. CASE RejectBudget \/ RejectGraph \/ ConflictAtEntry \/ ExhaustBudget
             \/ UndeclaredTransfer \/ ConflictTransfer
    <2>1. /\ UNCHANGED <<program, states>>
          /\ status \in {"validating", "running"}
          /\ status' \in {"unknown", "thrown"}
      BY <1>1 DEF RejectBudget, RejectGraph, ConflictAtEntry, ExhaustBudget, UndeclaredTransfer,
                  ConflictTransfer, Flowing, InVisit, Return
    <2>2. Verdict = "open" /\ Verdict' = "unknown"
      BY <2>1 DEF Verdict
    <2>3. QED
      BY <2>1, <2>2 DEF Chaotic!Next, Chaotic!GiveUp
  <1>2. CASE Begin
    <2>1. /\ program' = program
          /\ status = "validating"
          /\ status' = "running"
          /\ states[Entry(program)] = Bottom
          /\ Initial(program) \in Value
      BY <1>2, InitialAdmissible, LatticeAssumption, ProgramAssumption
         DEF Begin, NotStarted, TypeOK
    <2>2. Verdict = "open" /\ Verdict' = "open"
      BY <2>1 DEF Verdict
    <2>3. Join(states[Entry(program)], Initial(program)) \in Value
      BY <2>1, LatticeAssumption
    <2>4. states' = [states EXCEPT ![Entry(program)] = Join(@, Initial(program))]
      BY <1>2, <2>1 DEF Begin
    <2>5. Chaotic!Seed
      BY <2>1, <2>2, <2>3, <2>4 DEF Chaotic!Seed, Chaotic!Raise
    <2>6. QED
      BY <2>2, <2>5 DEF Chaotic!Next
  <1>3. CASE Converge
    <2>1. Verdict = "open" /\ Verdict' = "converged"
      BY <1>3 DEF Converge, Return, Verdict
    <2>2. queued = {} /\ visiting = NoBlock
      BY <1>3 DEF Converge, QueuedMirrorsQueue
    <2>3. IsSolution(program, states)
      BY <1>3, <2>2, NamesAssumption
         DEF Converge, UnsettledIsScheduled, EntrySeeded, IsSolution
    <2>4. Chaotic!Converge
      BY <1>3, <2>1, <2>3
         DEF Converge, Return, Chaotic!Converge, IsSolution, Chaotic!IsSolution, ReachedIn,
             Chaotic!ReachedIn, SettledIn, Chaotic!SettledIn, Absorbs, Chaotic!Absorbs
    <2>5. QED
      BY <2>1, <2>4 DEF Chaotic!Next
  <1>4. CASE Propagate
    <2>1. /\ program' = program
          /\ status = "running"
          /\ status' = "running"
          /\ visiting \in Block
          /\ visiting # NoBlock
          /\ pending \in Seq(Flow)
          /\ 1 \in DOMAIN pending
          /\ Head(pending) = pending[1]
      BY <1>4 DEF Propagate, Flowing, InVisit, TypeOK
    <2>2. Verdict = "open" /\ Verdict' = "open"
      BY <2>1 DEF Verdict
    <2>3. ReachedIn(program, states, visiting)
      BY <2>1 DEF WorkIsReached
    <2>4. PICK u \in Value :
            /\ Absorbs(states[visiting], u)
            /\ \E j \in DOMAIN Transfer(program, visiting, u) :
                 Head(pending) = Transfer(program, visiting, u)[j]
      BY <2>1 DEF PendingJustified
    <2>5. PICK j \in DOMAIN Transfer(program, visiting, u) :
            Head(pending) = Transfer(program, visiting, u)[j]
      BY <2>4
    <2>6. /\ Join(states[Head(pending).to], Head(pending).value) \in Value
          /\ states' = [states EXCEPT ![Head(pending).to] = Join(@, Head(pending).value)]
      BY <1>4, PropagateEffect, JoinIsUpperBound DEF Propagate, TypeOK
    <2>7. Chaotic!Raise(Head(pending).to, Head(pending).value)
      BY <2>1, <2>2, <2>6 DEF Chaotic!Raise
    <2>8. Chaotic!Improve
      BY <2>1, <2>3, <2>4, <2>5, <2>7
         DEF Chaotic!Improve, ReachedIn, Chaotic!ReachedIn, Absorbs, Chaotic!Absorbs
    <2>9. QED
      BY <2>2, <2>8 DEF Chaotic!Next
  <1>5. CASE Visit \/ FinishVisit \/ NothingNew \/ UNCHANGED vars
    BY <1>5 DEF Visit, FinishVisit, NothingNew, vars, Chaotic!vars, Verdict
  <1>6. QED
    BY <1>1, <1>2, <1>3, <1>4, <1>5 DEF Next

\* Every run of the engine is a run of the abstract iteration.
THEOREM Refinement == Spec => ImplementsChaoticIteration
  <1>1. Init => Chaotic!Init
    BY DEF Init, Chaotic!Init, Verdict
  <1>2. QED
    BY <1>1, StepRefines, TypeCorrect, NotStartedInvariant, QueueConsistent, EntrySeededInvariant,
       NothingForgotten, WorkIsReachedInvariant, PendingJustifiedInvariant, PTL
       DEF Spec, Chaotic!Spec, ImplementsChaoticIteration
=============================================================================
