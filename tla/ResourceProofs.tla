--------------------------- MODULE ResourceProofs ---------------------------
(***************************************************************************)
(* Proofs about the evaluators of resource protocols, for any resources    *)
(* and obligations: lists of transitions of any length, and control-flow   *)
(* graphs of any shape, the latter with the theorems about the data-flow   *)
(* engine.                                                                 *)
(***************************************************************************)
EXTENDS ResourceProtocol, ResourceCfg, FiniteProofs

\* A transfer of a resource that may be absent leaves its target as it was
\* (resource-protocol.ts:243-246).  A resource may be absent after an unsure
\* acquire; the theorems are about lists that do not transfer such a resource to a
\* target.
SureTransfers ==
  \A t, u \in Transition :
    t.kind = "transfer" /\ t.others # <<>> /\ u.kind = "acquire" /\ u.unsure
      => t.resource # u.resource

TypeOK ==
  /\ record \in [states : [Resource -> State], diagnosed : SUBSET ResourceId]
  /\ execution \in [actual : [Resource -> Certain], broken : BOOLEAN]
  /\ length \in Nat

\* A recorded state describes a certain one.
Describes(r, x) ==
  /\ ~x.broken
  /\ \A s \in Resource : x.actual[s] \in Meaning(r.states[s])

\* What may be absent was acquired unsurely.
DoubtHasCause ==
  \A r \in Resource : record.states[r] = OrAbsent["available"] =>
    \E u \in Transition : u.kind = "acquire" /\ u.unsure /\ u.resource = r

\* The inductive invariant.
IInv == TypeOK /\ DoubtHasCause /\ (record.diagnosed = {} => Describes(record, execution))

-----------------------------------------------------------------------------
\* What recorded states mean.

\* "absent-or-..." of a state means that state or "absent".
LEMMA MeaningOrAbsent ==
  ASSUME NEW s \in DOMAIN OrAbsent
  PROVE  /\ OrAbsent[s] \in State
         /\ Meaning(OrAbsent[s]) = {"absent", s}
  BY DEF OrAbsent, Meaning, State, Certain

\* A certain state means itself, and an unknown one anything.
LEMMA MeaningCertain ==
  /\ \A s \in Certain : s \in State /\ Meaning(s) = {s}
  /\ "unknown" \in State /\ Meaning("unknown") = Certain
  BY DEF Meaning, State, Certain

\* Operations end in certain states, all of them but invalidation in states that
\* can be recorded with "absent".
LEMMA EndedTyped ==
  /\ \A k \in DOMAIN Ended : Ended[k] \in Certain
  /\ \A k \in DOMAIN Ended \ {"invalidate"} : Ended[k] \in DOMAIN OrAbsent
  BY DEF Ended, Certain, OrAbsent

-----------------------------------------------------------------------------
\* One transition.

Records == [states : [Resource -> State], diagnosed : SUBSET ResourceId]

Executions == [actual : [Resource -> Certain], broken : BOOLEAN]

\* A list without a fitting position has none that comes first.
LEMMA FirstFound ==
  ASSUME NEW s \in Seq(ResourceId), NEW known, NEW allowed, NEW i \in DOMAIN s, known[s[i]] \notin allowed
  PROVE  FirstNot(s, known, allowed) # {}
  <1> DEFINE bad == {k \in DOMAIN s : known[s[k]] \notin allowed}
  <1>1. bad # {} /\ bad \in SUBSET Nat
    OBVIOUS
  <1>2. PICK n \in bad : \A m \in bad : n <= m
    BY <1>1, LeastNat
  <1>3. s[n] \in FirstNot(s, known, allowed)
    BY <1>2 DEF FirstNot
  <1>4. QED
    BY <1>3

\* What is found is an element of the list.
LEMMA FoundListed ==
  ASSUME NEW s, NEW known, NEW allowed, NEW r \in FirstNot(s, known, allowed)
  PROVE  r \in Elements(s)
  BY DEF FirstNot, Elements

\* A refused transition is diagnosed and its subject forgotten.
LEMMA InvalidTyped ==
  ASSUME NEW rec \in Records, NEW r \in Resource
  PROVE  /\ Invalid(rec, r) \in Records
         /\ Invalid(rec, r).diagnosed = rec.diagnosed \cup {r}
         /\ \A q \in Resource \ {r} : Invalid(rec, r).states[q] = rec.states[q]
         /\ Invalid(rec, r).states[r] = "unknown"
  BY ModelAssumption, MeaningCertain DEF Records, Invalid

\* A state is recorded, and nothing else changes.
LEMMA PutTyped ==
  ASSUME NEW rec \in Records, NEW r \in Resource, NEW state \in State
  PROVE  /\ Put(rec, r, state) \in Records
         /\ Put(rec, r, state).diagnosed = rec.diagnosed
         /\ Put(rec, r, state).states[r] = state
         /\ \A q \in Resource \ {r} : Put(rec, r, state).states[q] = rec.states[q]
  BY DEF Records, Put

\* The same, resource by resource, for a resource that becomes available.
LEMMA PutAvailable ==
  ASSUME NEW rec \in Records, NEW r \in Resource
  PROVE  \A s \in Resource :
           Put(rec, r, "available").states[s] = IF s = r THEN "available" ELSE rec.states[s]
  <1>1. "available" \in State
    BY DEF State, Certain
  <1>2. QED
    BY <1>1, PutTyped

\* What a transition that is taken leaves: a record with the earlier diagnostics and
\* maybe more, in which nothing but the resources of the transition has changed;
\* only what may be absent stays so.
Leaves(rec, new, t) ==
  /\ new \in Records
  /\ rec.diagnosed \subseteq new.diagnosed
  /\ \A r \in Resource \ Involved(t) : new.states[r] = rec.states[r]
  /\ \A r \in Resource : new.states[r] = OrAbsent["available"] => new.states[r] = rec.states[r]

\* Whatever its kind, a transition that is taken leaves only that.
LEMMA SureTyped ==
  ASSUME NEW t \in Transition, NEW rec \in Records
  PROVE  Leaves(rec, ApplySure(rec, t), t)
  <1>a. /\ t.resource \in Involved(t)
        /\ \A i \in DOMAIN t.others : t.others[i] \in Involved(t)
        /\ Involved(t) \subseteq ResourceId
    BY TransitionAssumption DEF Involved, Elements
  <1>b. /\ "absent-or-available" = OrAbsent["available"]
        /\ "available" \in Certain /\ "split" \in Certain
        /\ "available" # OrAbsent["available"] /\ "unknown" # OrAbsent["available"]
        /\ "split" # OrAbsent["available"]
    BY DEF Certain, OrAbsent
  <1>1. CASE ~(Involved(t) \subseteq Resource)
    <2>1. ApplySure(rec, t) = Undeclared(rec, t)
      BY <1>1 DEF ApplySure
    <2>2. Undeclared(rec, t) \in Records
      BY <1>a, MeaningCertain DEF Undeclared, Records
    <2>3. QED
      BY <1>b, <2>1, <2>2 DEF Undeclared, Leaves
  <1>2. CASE Involved(t) \subseteq Resource
    <2>0. /\ t.resource \in Resource
          /\ \A r \in Elements(t.others) : r \in Resource /\ r \in Involved(t)
      BY <1>2 DEF Involved
    <2>1. \A r \in Involved(t) : Leaves(rec, Invalid(rec, r), t)
      BY <1>2, <1>b, InvalidTyped DEF Leaves
    <2>2. \A r \in Involved(t), state \in State \ {OrAbsent["available"]} : Leaves(rec, Put(rec, r, state), t)
      BY <1>2, PutTyped DEF Leaves
    <2>3. "available" \in State \ {OrAbsent["available"]}
      BY <1>b, MeaningCertain
    <2>4. CASE t.kind = "acquire"
      BY <1>2, <1>a, <2>1, <2>2, <2>3, <2>4 DEF ApplySure, Acquire, Ended
    <2>5. CASE t.kind = "use"
      <3>1. Leaves(rec, rec, t)
        BY DEF Leaves
      <3>2. QED
        BY <1>2, <1>a, <2>1, <2>5, <3>1 DEF ApplySure, Use, Ended
    <2>6. CASE t.kind = "split"
      <3>1. ApplySure(rec, t) = Split(rec, t)
        BY <1>2, <2>6 DEF ApplySure, Ended
      <3> DEFINE occupied == FirstNot(t.others, rec.states, {"absent"})
                 new == [rec EXCEPT !.states = [r \in Resource |->
                           IF r \in Elements(t.others) THEN "available"
                           ELSE IF r = t.resource THEN "split" ELSE @[r]]]
      <3>2. CASE rec.states[t.resource] # "available"
        BY <1>a, <2>1, <3>1, <3>2 DEF Split
      <3>3. CASE rec.states[t.resource] = "available" /\ occupied # {}
        <4>1. (CHOOSE r \in occupied : TRUE) \in Involved(t)
          BY <3>3, <2>0, FoundListed
        <4>2. QED
          BY <2>1, <3>1, <3>3, <4>1 DEF Split
      <3>4. CASE rec.states[t.resource] = "available" /\ occupied = {}
        <4>1. ApplySure(rec, t) = new
          BY <3>1, <3>4 DEF Split
        <4>2. /\ new \in Records /\ new.diagnosed = rec.diagnosed
              /\ new.states = [r \in Resource |->
                   IF r \in Elements(t.others) THEN "available"
                   ELSE IF r = t.resource THEN "split" ELSE rec.states[r]]
          BY <1>b, MeaningCertain DEF Records
        <4> HIDE DEF new
        <4>3. QED
          BY <1>a, <1>b, <2>0, <4>1, <4>2 DEF Leaves
      <3>5. QED
        BY <3>2, <3>3, <3>4
    <2>7. CASE t.kind = "join"
      <3>1. ApplySure(rec, t) = JoinInto(rec, t)
        BY <1>2, <2>7 DEF ApplySure, Ended
      <3> DEFINE unfinished == FirstNot(t.others, rec.states, {"consumed", "released", "transferred"})
      <3>2. CASE unfinished # {}
        <4>1. (CHOOSE r \in unfinished : TRUE) \in Involved(t)
          BY <3>2, <2>0, FoundListed
        <4>2. QED
          BY <2>1, <3>1, <3>2, <4>1 DEF JoinInto
      <3>3. CASE unfinished = {}
        BY <1>a, <2>1, <2>2, <2>3, <3>1, <3>3 DEF JoinInto
      <3>4. QED
        BY <3>2, <3>3
    <2>8. CASE t.kind \in DOMAIN Ended
      <3>1. ApplySure(rec, t) = End(rec, t)
        BY <1>2, <2>8 DEF ApplySure, Ended
      <3>2. /\ Ended[t.kind] \in State \ {OrAbsent["available"]}
            /\ t.kind # "invalidate" => OrAbsent[Ended[t.kind]] \in State \ {OrAbsent["available"]}
        BY <2>8, EndedTyped, MeaningCertain, MeaningOrAbsent DEF Certain, OrAbsent, Ended
      <3>3. CASE rec.states[t.resource] = "absent-or-available" /\ t.kind # "invalidate"
        BY <1>a, <2>2, <3>1, <3>2, <3>3 DEF End
      <3>4. CASE rec.states[t.resource] # "available" /\ ~(rec.states[t.resource] = "absent-or-available" /\ t.kind # "invalidate")
        BY <1>a, <2>1, <3>1, <3>4 DEF End
      <3>5. CASE rec.states[t.resource] = "available"
        <4> DEFINE ended == Put(rec, t.resource, Ended[t.kind])
        <4>1. Leaves(rec, ended, t)
          BY <1>a, <2>2, <3>2
        <4>2. ApplySure(rec, t) = ended \/ (t.others # <<>> /\ ApplySure(rec, t) = Put(ended, t.others[1], "available"))
          BY <3>1, <3>5 DEF End
        <4>3. ASSUME t.others # <<>> PROVE Leaves(rec, Put(ended, t.others[1], "available"), t)
          <5>1. t.others[1] \in Involved(t) /\ t.others[1] \in Resource
            BY <4>3, <1>a, <1>2, TransitionAssumption
          <5>2. /\ Put(ended, t.others[1], "available") \in Records
                /\ Put(ended, t.others[1], "available").diagnosed = ended.diagnosed
                /\ Put(ended, t.others[1], "available").states[t.others[1]] = "available"
                /\ \A q \in Resource \ {t.others[1]} :
                     Put(ended, t.others[1], "available").states[q] = ended.states[q]
            BY <4>1, <5>1, <2>3, PutTyped DEF Leaves
          <5> HIDE DEF ended
          <5>3. QED
            BY <1>b, <4>1, <5>1, <5>2 DEF Leaves
        <4>4. QED
          BY <4>1, <4>2, <4>3
      <3>6. QED
        BY <3>3, <3>4, <3>5
    <2>9. QED
      BY <2>4, <2>5, <2>6, <2>7, <2>8, TransitionAssumption
  <1>3. QED
    BY <1>1, <1>2

\* A record without a diagnostic says that every execution it describes can take the
\* transition or has nothing to end, and the new states describe what follows.
Covers(rec, t, actual) ==
  /\ Allowed(actual, t) \/ Skipped(actual, t)
  /\ Allowed(actual, t) => \A s \in Resource : Happened(actual, t)[s] \in Meaning(rec.states[s])
  /\ Skipped(actual, t) => \A s \in Resource : actual[s] \in Meaning(rec.states[s])

\* A taken transition that adds no diagnostic covers every execution the record
\* describes, unless it transfers a resource that may be absent (finding 1).
LEMMA SureCovers ==
  ASSUME NEW t \in Transition, NEW rec \in Records, NEW x \in Executions, Describes(rec, x),
         ApplySure(rec, t).diagnosed = {},
         t.kind = "transfer" /\ t.others # <<>> => rec.states[t.resource] # OrAbsent["available"]
  PROVE  Covers(ApplySure(rec, t), t, x.actual)
  <1> DEFINE new == ApplySure(rec, t)
             actual == x.actual
  <1>1. Involved(t) \subseteq Resource
    <2>1. SUFFICES ASSUME ~(Involved(t) \subseteq Resource) PROVE FALSE
      OBVIOUS
    <2>2. new.diagnosed = rec.diagnosed \cup (Involved(t) \ Resource)
      BY <2>1 DEF ApplySure, Undeclared
    <2>3. QED
      BY <2>1, <2>2
  <1>2. /\ t.resource \in Resource
        /\ \A r \in Elements(t.others) : r \in Resource
    BY <1>1 DEF Involved
  <1>3. /\ \A s \in Resource : actual[s] \in Certain /\ actual[s] \in Meaning(rec.states[s])
        /\ \A s \in Resource : rec.states[s] \in Certain => actual[s] = rec.states[s]
    BY MeaningCertain DEF Describes, Executions
  <1>4. \A r \in Resource : new # Invalid(rec, r)
    BY InvalidTyped
  <1>5. /\ "available" \in Certain /\ "absent" \in Certain /\ "split" \in Certain
        /\ Meaning("available") = {"available"} /\ Meaning("split") = {"split"}
    BY MeaningCertain DEF Certain
  <1>6. CASE t.kind = "acquire"
    <2>1. rec.states[t.resource] = "absent" /\ new = Put(rec, t.resource, "available")
      BY <1>1, <1>2, <1>4, <1>6 DEF ApplySure, Acquire, Ended
    <2>2. Allowed(actual, t) /\ ~Skipped(actual, t)
      BY <1>1, <1>2, <1>3, <1>5, <1>6, <2>1 DEF Allowed, Skipped, Ended
    <2>3. \A s \in Resource : new.states[s] = IF s = t.resource THEN "available" ELSE rec.states[s]
      BY <1>2, <2>1, PutAvailable
    <2>4. Happened(actual, t) = [s \in Resource |-> IF s = t.resource THEN "available" ELSE actual[s]]
      BY <1>6 DEF Happened, Made
    <2> HIDE DEF new, actual
    <2>5. QED
      BY <1>3, <1>5, <2>2, <2>3, <2>4 DEF Covers, actual, new
  <1>7. CASE t.kind = "use"
    <2>1. rec.states[t.resource] = "available" /\ new = rec
      BY <1>1, <1>2, <1>4, <1>7 DEF ApplySure, Use, Ended
    <2>2. Allowed(actual, t) /\ ~Skipped(actual, t)
      BY <1>1, <1>2, <1>3, <1>5, <1>7, <2>1 DEF Allowed, Skipped, Ended
    <2>3. Happened(actual, t) = [s \in Resource |-> actual[s]]
      BY <1>7 DEF Happened, Made, Left, Ended
    <2>4. QED
      BY <1>3, <2>1, <2>2, <2>3 DEF Covers
  <1>8. CASE t.kind = "split"
    <2> DEFINE occupied == FirstNot(t.others, rec.states, {"absent"})
    <2>1. new = Split(rec, t)
      BY <1>1, <1>8 DEF ApplySure, Ended
    <2>2. rec.states[t.resource] = "available"
      BY <1>2, <1>4, <2>1 DEF Split
    <2>3. occupied = {}
      <3>1. SUFFICES ASSUME occupied # {} PROVE FALSE
        OBVIOUS
      <3>2. (CHOOSE r \in occupied : TRUE) \in Resource
        BY <3>1, <1>2, FoundListed
      <3>3. QED
        BY <1>4, <2>1, <2>2, <3>1, <3>2 DEF Split
    <2>4. \A r \in Elements(t.others) : rec.states[r] = "absent"
      BY <2>3, FirstFound, TransitionAssumption DEF Elements
    <2>5. Allowed(actual, t) /\ ~Skipped(actual, t)
      BY <1>1, <1>2, <1>3, <1>5, <1>8, <2>2, <2>4 DEF Allowed, Skipped, Ended
    <2>6. new.states = [r \in Resource |->
                   IF r \in Elements(t.others) THEN "available"
                   ELSE IF r = t.resource THEN "split" ELSE rec.states[r]]
      BY <2>1, <2>2, <2>3 DEF Split, Records
    <2>7. Happened(actual, t) = [r \in Resource |->
                   IF r \in Elements(t.others) THEN "available"
                   ELSE IF r = t.resource THEN "split" ELSE actual[r]]
      BY <1>8 DEF Happened, Made, Left
    <2> HIDE DEF new, actual
    <2>8. QED
      BY <1>3, <1>5, <2>5, <2>6, <2>7 DEF Covers, actual, new
  <1>9. CASE t.kind = "join"
    <2> DEFINE finished == {"consumed", "released", "transferred"}
               unfinished == FirstNot(t.others, rec.states, finished)
    <2>1. new = JoinInto(rec, t)
      BY <1>1, <1>9 DEF ApplySure, Ended
    <2>2. unfinished = {}
      <3>1. SUFFICES ASSUME unfinished # {} PROVE FALSE
        OBVIOUS
      <3>2. (CHOOSE r \in unfinished : TRUE) \in Resource
        BY <3>1, <1>2, FoundListed
      <3>3. QED
        BY <1>4, <2>1, <3>1, <3>2 DEF JoinInto
    <2>3. rec.states[t.resource] = "absent" /\ new = Put(rec, t.resource, "available")
      BY <1>2, <1>4, <2>1, <2>2 DEF JoinInto
    <2>4. \A r \in Elements(t.others) : rec.states[r] \in finished
      BY <2>2, FirstFound, TransitionAssumption DEF Elements
    <2>5. \A r \in Elements(t.others) : actual[r] \in finished
      BY <1>2, <1>3, <2>4 DEF Certain
    <2>6. Allowed(actual, t) /\ ~Skipped(actual, t)
      BY <1>1, <1>2, <1>3, <1>5, <1>9, <2>3, <2>5 DEF Allowed, Skipped, Ended
    <2>7. \A s \in Resource : new.states[s] = IF s = t.resource THEN "available" ELSE rec.states[s]
      BY <1>2, <2>3, PutAvailable
    <2>8. Happened(actual, t) = [s \in Resource |-> IF s = t.resource THEN "available" ELSE actual[s]]
      BY <1>9 DEF Happened, Made
    <2> HIDE DEF new, actual
    <2>9. QED
      BY <1>3, <1>5, <2>6, <2>7, <2>8 DEF Covers, actual, new
  <1>10. CASE t.kind \in DOMAIN Ended
    <2>1. new = End(rec, t)
      BY <1>1, <1>10 DEF ApplySure, Ended
    <2>2. Involved(t) \subseteq Resource => (Allowed(actual, t) <=> actual[t.resource] = "available")
      BY <1>10 DEF Allowed, Ended
    <2>3. /\ Ended[t.kind] \in Certain /\ Ended[t.kind] \in State /\ Meaning(Ended[t.kind]) = {Ended[t.kind]}
          /\ Left(actual, t) = Ended[t.kind]
          /\ t.kind \notin {"split", "acquire", "join"}
      BY <1>10, EndedTyped, MeaningCertain DEF Left, Ended
    <2>4. CASE rec.states[t.resource] = "absent-or-available" /\ t.kind # "invalidate"
      <3>1. /\ Ended[t.kind] \in DOMAIN OrAbsent
            /\ Meaning(OrAbsent[Ended[t.kind]]) = {"absent", Ended[t.kind]}
            /\ OrAbsent[Ended[t.kind]] \in State
            /\ Meaning("absent-or-available") = {"absent", "available"}
        BY <1>10, <2>4, EndedTyped, MeaningOrAbsent DEF OrAbsent
      <3>2. new = Put(rec, t.resource, OrAbsent[Ended[t.kind]])
        BY <2>1, <2>4 DEF End
      <3>3. \A s \in Resource :
              new.states[s] = IF s = t.resource THEN OrAbsent[Ended[t.kind]] ELSE rec.states[s]
        BY <1>2, <3>1, <3>2, PutTyped
      <3>4. actual[t.resource] \in {"absent", "available"}
        BY <1>2, <1>3, <2>4, <3>1
      <3>5. Allowed(actual, t) \/ Skipped(actual, t)
        BY <1>1, <1>2, <1>10, <2>2, <2>4, <3>4 DEF Skipped
      <3>6. Made(t) = {}
        BY <1>10, <2>3, <2>4 DEF Made, Elements, OrAbsent, Ended
      <3>7. Happened(actual, t) = [s \in Resource |-> IF s = t.resource THEN Ended[t.kind] ELSE actual[s]]
        BY <2>3, <3>6 DEF Happened
      <3>8. Skipped(actual, t) => actual[t.resource] = "absent"
        BY DEF Skipped
      <3> HIDE DEF new, actual
      <3>9. QED
        BY <1>3, <3>1, <3>3, <3>5, <3>7, <3>8 DEF Covers, actual, new
    <2>5. CASE ~(rec.states[t.resource] = "absent-or-available" /\ t.kind # "invalidate")
      <3> DEFINE ended == Put(rec, t.resource, Ended[t.kind])
      <3>1. /\ rec.states[t.resource] = "available"
            /\ new = IF t.kind = "transfer" /\ t.others # <<>> THEN Put(ended, t.others[1], "available") ELSE ended
        BY <1>2, <1>4, <2>1, <2>5 DEF End
      <3>2. /\ ended \in Records
            /\ \A s \in Resource : ended.states[s] = IF s = t.resource THEN Ended[t.kind] ELSE rec.states[s]
        BY <1>2, <2>3, PutTyped
      <3>3. Allowed(actual, t) /\ ~Skipped(actual, t)
        BY <1>1, <1>2, <1>3, <1>5, <2>2, <3>1 DEF Skipped
      <3> HIDE DEF ended
      <3>4. CASE t.kind = "transfer" /\ t.others # <<>>
        <4>1. t.others[1] \in Resource /\ Elements(t.others) = {t.others[1]}
          BY <1>2, <3>4, TransitionAssumption DEF Elements
        <4>2. \A s \in Resource : new.states[s] = IF s = t.others[1] THEN "available" ELSE ended.states[s]
          BY <3>1, <3>2, <3>4, <4>1, PutAvailable
        <4>3. Made(t) = {t.others[1]}
          BY <3>4, <4>1 DEF Made
        <4>4. Happened(actual, t) = [s \in Resource |->
                IF s = t.others[1] THEN "available" ELSE IF s = t.resource THEN Ended[t.kind] ELSE actual[s]]
          BY <2>3, <4>3 DEF Happened
        <4> HIDE DEF new, actual
        <4>5. QED
          BY <1>3, <1>5, <2>3, <3>2, <3>3, <4>2, <4>4 DEF Covers, actual, new
      <3>5. CASE ~(t.kind = "transfer" /\ t.others # <<>>)
        <4>1. Made(t) = {}
          BY <2>3, <3>5 DEF Made, Elements
        <4>2. Happened(actual, t) = [s \in Resource |-> IF s = t.resource THEN Ended[t.kind] ELSE actual[s]]
          BY <2>3, <4>1 DEF Happened
        <4>3. new = ended
          BY <3>1, <3>5
        <4> HIDE DEF new, actual
        <4>4. QED
          BY <1>3, <2>3, <3>2, <3>3, <4>2, <4>3 DEF Covers, actual, new
      <3>6. QED
        BY <3>4, <3>5
    <2>6. QED
      BY <2>4, <2>5
  <1>11. QED
    BY <1>6, <1>7, <1>8, <1>9, <1>10, TransitionAssumption

\* The join of an unsure transition with the path that did not take it.
LEMMA UnsureStates ==
  ASSUME NEW t \in Transition, NEW rec \in Records, t.unsure
  PROVE  /\ Apply(rec, t) \in Records
         /\ Apply(rec, t).diagnosed = ApplySure(rec, t).diagnosed
         /\ \A r \in Resource :
              \/ /\ Apply(rec, t).states[r] = rec.states[r]
                 /\ Apply(rec, t).states[r] = ApplySure(rec, t).states[r]
              \/ Apply(rec, t).states[r] = "unknown"
              \/ /\ Apply(rec, t).states[r] = OrAbsent["available"]
                 /\ t.kind = "acquire" /\ rec.states[r] = "absent"
                 /\ ApplySure(rec, t).states[r] = "available"
                 /\ r \in Involved(t)
  <1> DEFINE taken == ApplySure(rec, t)
             Doubt(r) ==
               IF r \notin Involved(t) \/ rec.states[r] = taken.states[r] THEN taken.states[r]
               ELSE IF t.kind = "acquire" /\ rec.states[r] = "absent" /\ taken.states[r] = "available"
                 THEN "absent-or-available"
               ELSE "unknown"
  <1>1. Leaves(rec, taken, t)
    BY SureTyped
  <1>2. Apply(rec, t) = [taken EXCEPT !.states = [r \in Resource |-> Doubt(r)]]
    BY DEF Apply
  <1>3. /\ "unknown" \in State /\ "absent-or-available" \in State
        /\ OrAbsent["available"] = "absent-or-available"
    BY DEF State, OrAbsent
  <1>4. \A r \in Resource : Doubt(r) \in State
    BY <1>1, <1>3 DEF Leaves, Records
  <1> HIDE DEF Doubt
  <1>5. /\ Apply(rec, t) \in Records
        /\ Apply(rec, t).diagnosed = taken.diagnosed
        /\ Apply(rec, t).states = [r \in Resource |-> Doubt(r)]
    BY <1>1, <1>2, <1>4 DEF Leaves, Records
  <1>6. QED
    BY <1>1, <1>3, <1>5 DEF Doubt, Leaves

\* What may be absent after a transition was so before, or the transition is an
\* unsure acquire of it.
LEMMA ApplyTyped ==
  ASSUME NEW t \in Transition, NEW rec \in Records
  PROVE  /\ Apply(rec, t) \in Records
         /\ rec.diagnosed \subseteq Apply(rec, t).diagnosed
         /\ \A r \in Resource : Apply(rec, t).states[r] = OrAbsent["available"] =>
              \/ rec.states[r] = OrAbsent["available"]
              \/ t.kind = "acquire" /\ t.unsure /\ r \in Involved(t) /\ rec.states[r] = "absent"
                   /\ ApplySure(rec, t).states[r] = "available"
  <1>1. Leaves(rec, ApplySure(rec, t), t)
    BY SureTyped
  <1>2. ~t.unsure => Apply(rec, t) = ApplySure(rec, t)
    BY DEF Apply
  <1>3. "unknown" # OrAbsent["available"]
    BY DEF OrAbsent
  <1>4. QED
    BY <1>1, <1>2, <1>3, UnsureStates DEF Leaves

\* A transition that is not diagnosed names declared resources only.
LEMMA CleanIsDeclared ==
  ASSUME NEW t \in Transition, NEW rec \in Records, Apply(rec, t).diagnosed = {}
  PROVE  t.resource \in Resource
  <1>1. SUFFICES ASSUME t.resource \notin Resource PROVE FALSE
    OBVIOUS
  <1>2. ~(Involved(t) \subseteq Resource)
    BY <1>1 DEF Involved
  <1>3. t.resource \in ApplySure(rec, t).diagnosed
    BY <1>1, <1>2 DEF ApplySure, Undeclared, Involved
  <1>4. ApplySure(rec, t).diagnosed = Apply(rec, t).diagnosed
    BY UnsureStates DEF Apply
  <1>5. QED
    BY <1>3, <1>4

\* One transition more: what it records describes every execution that follows an
\* execution described before.
LEMMA ApplyCovers ==
  ASSUME NEW t \in Transition, NEW rec \in Records, NEW x \in Executions, Describes(rec, x),
         Apply(rec, t).diagnosed = {},
         t.kind = "transfer" /\ t.others # <<>> => rec.states[t.resource] # OrAbsent["available"],
         NEW y \in Outcomes(x, t)
  PROVE  Describes(Apply(rec, t), y)
  <1> DEFINE new == ApplySure(rec, t)
             actual == x.actual
             next == [x EXCEPT !.actual = Happened(actual, t)]
  <1>1. new.diagnosed = {}
    BY UnsureStates DEF Apply
  <1>2. Covers(new, t, actual)
    BY <1>1, SureCovers
  <1>3. \/ y = x /\ (t.unsure \/ Skipped(actual, t))
        \/ y = next /\ Allowed(actual, t)
    BY <1>2 DEF Outcomes, Covers
  <1>4. next.broken = x.broken /\ next.actual = Happened(actual, t)
    BY DEF Executions
  <1> HIDE DEF next, actual
  <1>5. ~y.broken
    BY <1>3, <1>4 DEF Describes
  <1>6. \A s \in Resource :
          \/ y.actual[s] = actual[s] /\ t.unsure
          \/ y.actual[s] \in Meaning(new.states[s])
    BY <1>2, <1>3, <1>4 DEF Covers, actual
  <1>7. ASSUME NEW s \in Resource PROVE y.actual[s] \in Meaning(Apply(rec, t).states[s])
    <2>1. CASE ~t.unsure
      BY <1>6, <2>1 DEF Apply
    <2>2. CASE t.unsure
      <3>1. actual[s] \in Meaning(rec.states[s]) /\ actual[s] \in Certain
        BY DEF Describes, Executions, actual
      <3>2. \A q \in Meaning(new.states[s]) : q \in Certain
        BY DEF Meaning, Certain, OrAbsent
      <3>3. CASE Apply(rec, t).states[s] = rec.states[s] /\ Apply(rec, t).states[s] = new.states[s]
        BY <1>6, <3>1, <3>3
      <3>4. CASE Apply(rec, t).states[s] = "unknown"
        BY <1>6, <3>1, <3>2, <3>4, MeaningCertain
      <3>5. CASE /\ Apply(rec, t).states[s] = OrAbsent["available"]
                 /\ rec.states[s] = "absent" /\ new.states[s] = "available"
        <4>1. /\ Meaning("absent") = {"absent"} /\ Meaning("available") = {"available"}
              /\ Meaning(OrAbsent["available"]) = {"absent", "available"}
          BY DEF Meaning, Certain, OrAbsent
        <4>2. QED
          BY <1>6, <3>1, <3>5, <4>1
      <3>6. QED
        BY <2>2, <3>3, <3>4, <3>5, UnsureStates
    <2>3. QED
      BY <2>1, <2>2
  <1>8. QED
    BY <1>5, <1>7 DEF Describes

\* An acquire makes nothing available but its subject.
LEMMA AcquireIsLocal ==
  ASSUME NEW t \in Transition, NEW rec \in Records, t.kind = "acquire", NEW r \in Resource,
         rec.states[r] = "absent", ApplySure(rec, t).states[r] = "available"
  PROVE  r = t.resource
  <1>1. CASE ~(Involved(t) \subseteq Resource)
    BY <1>1 DEF ApplySure, Undeclared
  <1>2. CASE Involved(t) \subseteq Resource
    <2>1. t.resource \in Resource /\ ApplySure(rec, t) = Acquire(rec, t)
      BY <1>2 DEF ApplySure, Involved, Ended
    <2>2. QED
      BY <2>1, InvalidTyped, PutAvailable DEF Acquire
  <1>3. QED
    BY <1>1, <1>2

\* An execution goes on with certain states.
LEMMA OutcomesTyped ==
  ASSUME NEW t \in Transition, NEW x \in Executions, NEW y \in Outcomes(x, t)
  PROVE  y \in Executions
  <1>1. \A s \in Resource : Happened(x.actual, t)[s] \in Certain
    <2>1. Happened(x.actual, t) = [r \in Resource |->
            IF r \in Made(t) THEN "available" ELSE IF r = t.resource THEN Left(x.actual, t) ELSE x.actual[r]]
      BY DEF Happened
    <2>2. t.resource \in Resource => Left(x.actual, t) \in Certain
      BY EndedTyped DEF Left, Executions, Certain
    <2>3. QED
      BY <2>1, <2>2 DEF Executions, Certain
  <1>2. Happened(x.actual, t) \in [Resource -> Certain]
    BY <1>1 DEF Happened
  <1> DEFINE next == Happened(x.actual, t)
  <1> HIDE DEF next
  <1>3. y \in {x, [x EXCEPT !.actual = next], [x EXCEPT !.broken = TRUE]}
    BY DEF Outcomes, next
  <1>4. QED
    BY <1>2, <1>3 DEF Executions, next

\* Evaluating one more transition keeps the invariant.
LEMMA Invariance ==
  ASSUME SureTransfers
  PROVE  ListSpec => []IInv
  <1>1. ListInit => IInv
    <2> SUFFICES ASSUME ListInit PROVE IInv
      OBVIOUS
    <2>1. PICK duplicate \in SUBSET Resource : record = Initially(duplicate)
      BY DEF ListInit
    <2>2. \A r \in Resource : record.states[r] = IF r \in duplicate THEN "unknown" ELSE Starts[r]
      BY <2>1 DEF Initially
    <2>3. \A r \in Resource : Starts[r] \in {"absent", "available"}
      BY ModelAssumption
    <2>4. \A r \in Resource : record.states[r] \in {"unknown", "absent", "available"}
      BY <2>2, <2>3
    <2>5. \A r \in Resource : record.states[r] \in State /\ record.states[r] # OrAbsent["available"]
      BY <2>4 DEF State, Certain, OrAbsent
    <2>6. TypeOK
      <3>1. record \in [states : [Resource -> State], diagnosed : SUBSET ResourceId]
        BY <2>1, <2>5, ModelAssumption DEF Initially
      <3>2. execution \in [actual : [Resource -> Certain], broken : BOOLEAN]
        BY <2>3, ModelAssumption DEF ListInit, Started, Certain
      <3>3. QED
        BY <3>1, <3>2 DEF ListInit, TypeOK
    <2>7. ASSUME record.diagnosed = {} PROVE Describes(record, execution)
      <3>1. duplicate = {}
        BY <2>1, <2>7 DEF Initially
      <3>2. \A r \in Resource : Meaning(Starts[r]) = {Starts[r]}
        BY <2>3 DEF Meaning, Certain
      <3>3. QED
        BY <2>2, <3>1, <3>2 DEF ListInit, Started, Describes
    <2>8. QED
      BY <2>5, <2>6, <2>7 DEF IInv, DoubtHasCause
  <1>2. IInv /\ [ListNext]_lists => IInv'
    <2> SUFFICES ASSUME IInv, [ListNext]_lists PROVE IInv'
      OBVIOUS
    <2>1. CASE UNCHANGED lists
      BY <2>1 DEF lists, IInv, TypeOK, DoubtHasCause, Describes
    <2>2. CASE ListNext
      <3>1. PICK t \in Transition : Evaluate(t)
        BY <2>2 DEF ListNext
      <3>2. /\ record \in Records /\ execution \in Executions
            /\ record' = Apply(record, t) /\ execution' \in Outcomes(execution, t)
        BY <3>1 DEF Evaluate, IInv, TypeOK, Records, Executions
      <3>3. TypeOK'
        <4>1. record' \in Records
          BY <3>2, ApplyTyped
        <4>2. execution' \in Executions
          BY <3>2, OutcomesTyped
        <4>3. QED
          BY <3>1, <4>1, <4>2 DEF Evaluate, IInv, TypeOK, Records, Executions
      <3>4. DoubtHasCause'
        <4>1. \A r \in Resource : record'.states[r] = OrAbsent["available"] =>
                record.states[r] = OrAbsent["available"] \/ (t.kind = "acquire" /\ t.unsure /\ r = t.resource)
          BY <3>2, ApplyTyped, AcquireIsLocal
        <4>2. QED
          BY <4>1 DEF IInv, DoubtHasCause
      <3>5. ASSUME record'.diagnosed = {} PROVE Describes(record, execution)'
        <4>1. record.diagnosed = {}
          BY <3>2, <3>5, ApplyTyped
        <4>2. t.kind = "transfer" /\ t.others # <<>> => record.states[t.resource] # OrAbsent["available"]
          <5>1. t.resource \in Resource
            BY <3>2, <3>5, CleanIsDeclared
          <5>2. QED
            BY <5>1 DEF IInv, DoubtHasCause, SureTransfers
        <4>3. Describes(record, execution)
          BY <4>1 DEF IInv
        <4>4. Describes(Apply(record, t), execution')
          BY <3>2, <3>5, <4>2, <4>3, ApplyCovers
        <4>5. QED
          BY <3>2, <4>4 DEF Describes
      <3>6. QED
        BY <3>3, <3>4, <3>5 DEF IInv
    <2>3. QED
      BY <2>1, <2>2
  <1>3. QED
    BY <1>1, <1>2, PTL DEF ListSpec

\* The record of a list without a diagnostic describes every execution of the list,
\* whichever unsure transitions happen, and no execution misuses a resource.
THEOREM RecordsCover ==
  ASSUME SureTransfers
  PROVE  ListSpec => []CoversEveryExecution
  <1>1. IInv => CoversEveryExecution
    BY DEF IInv, Describes, CoversEveryExecution
  <1>2. QED
    BY <1>1, Invariance, PTL

\* A list that is accepted has discharged every obligation in every execution.
THEOREM AcceptedIsSafe ==
  ASSUME SureTransfers
  PROVE  ListSpec => []SatisfiedIsSafe
  <1>1. IInv => SatisfiedIsSafe
    <2> SUFFICES ASSUME IInv, TerminalStatus(record) = "satisfied" PROVE Safe(execution)
      BY DEF SatisfiedIsSafe
    <2>1. record.diagnosed = {} /\ \A r \in Obliged : Accepts(r, record.states[r])
      BY DEF TerminalStatus
    <2>2. Describes(record, execution)
      BY <2>1 DEF IInv
    <2>3. QED
      BY <2>1, <2>2 DEF Accepts, Safe, Describes, Obliged
  <1>2. QED
    BY <1>1, Invariance, PTL

-----------------------------------------------------------------------------
\* Joining what two paths recorded.

\* Recorded states that mean the same are the same.
LEMMA MeaningIdentifies ==
  ASSUME NEW l \in State, NEW r \in State, Meaning(l) = Meaning(r)
  PROVE  l = r
  <1>1. \A s \in State :
          \/ s \in Certain /\ Meaning(s) = {s}
          \/ s = "unknown" /\ Meaning(s) = Certain
          \/ \E c \in DOMAIN OrAbsent : s = OrAbsent[c] /\ Meaning(s) = {"absent", c}
    BY MeaningCertain, MeaningOrAbsent DEF State
  <1>2. \A s \in State :
          \/ s \in Certain /\ Meaning(s) = {s}
          \/ s = "unknown" /\ {"absent", "available", "split"} \subseteq Meaning(s)
          \/ \E c \in DOMAIN OrAbsent : c # "absent" /\ c # "split" /\ s = OrAbsent[c] /\ Meaning(s) = {"absent", c}
    BY <1>1 DEF Certain, OrAbsent
  <1>3. QED
    BY <1>2

\* The join of two states means what either means, and no more than any state that
\* does.
LEMMA JoinMeaning ==
  ASSUME NEW l \in State, NEW r \in State
  PROVE  /\ JoinStates(l, r) \in State
         /\ Meaning(l) \cup Meaning(r) \subseteq Meaning(JoinStates(l, r))
         /\ \A u \in State : Meaning(l) \cup Meaning(r) \subseteq Meaning(u)
              => Meaning(JoinStates(l, r)) \subseteq Meaning(u)
  <1> DEFINE both == Meaning(l) \cup Meaning(r)
             fitting == {s \in DOMAIN OrAbsent : both \subseteq {"absent", s}}
             join == JoinStates(l, r)
  <1>1. \A s \in State : Meaning(s) # {} /\ Meaning(s) \subseteq Certain
    BY DEF Meaning, Certain, State, OrAbsent
  <1>2. CASE l = r
    BY <1>2 DEF JoinStates
  <1>3. CASE l # r /\ "unknown" \in {l, r}
    <2>1. join = "unknown"
      BY <1>3 DEF JoinStates
    <2>2. Certain \subseteq both
      BY <1>3, MeaningCertain
    <2>3. QED
      BY <1>1, <2>1, <2>2, MeaningCertain
  <1>4. CASE l # r /\ "unknown" \notin {l, r} /\ fitting = {}
    <2>1. join = "unknown"
      BY <1>4 DEF JoinStates
    <2>2. ASSUME NEW u \in State, both \subseteq Meaning(u) PROVE u = "unknown"
      <3>1. CASE u \in Certain
        BY <1>1, <1>4, <2>2, <3>1, MeaningCertain, MeaningIdentifies
      <3>2. CASE \E s \in DOMAIN OrAbsent : u = OrAbsent[s]
        BY <1>4, <2>2, <3>2, MeaningOrAbsent
      <3>3. QED
        BY <3>1, <3>2 DEF State
    <2>3. QED
      BY <1>1, <2>1, <2>2, MeaningCertain
  <1>5. CASE l # r /\ "unknown" \notin {l, r} /\ fitting # {}
    <2> DEFINE s == CHOOSE c \in fitting : TRUE
    <2>1. s \in DOMAIN OrAbsent /\ both \subseteq {"absent", s}
      BY <1>5
    <2>2. join = OrAbsent[s]
      BY <1>5 DEF JoinStates
    <2> HIDE DEF s
    <2>3. join \in State /\ Meaning(join) = {"absent", s}
      BY <2>1, <2>2, MeaningOrAbsent
    <2>4. both = {"absent", s}
      <3>1. Meaning(l) # Meaning(r)
        BY <1>5, MeaningIdentifies
      <3>2. QED
        BY <1>1, <2>1, <3>1
    <2>5. QED
      BY <2>3, <2>4
  <1>6. QED
    BY <1>2, <1>3, <1>4, <1>5

\* A state absorbs the states that mean no more.
LEMMA StateAbsorbs ==
  ASSUME NEW c \in State, NEW a \in State
  PROVE  JoinStates(c, a) = c <=> Meaning(a) \subseteq Meaning(c)
  <1>1. ASSUME Meaning(a) \subseteq Meaning(c) PROVE JoinStates(c, a) = c
    <2> DEFINE j == JoinStates(c, a)
    <2>1. j \in State /\ Meaning(c) \subseteq Meaning(j)
      BY JoinMeaning
    <2>2. Meaning(c) \cup Meaning(a) \subseteq Meaning(c)
      BY <1>1
    <2>3. Meaning(j) \subseteq Meaning(c)
      BY <2>2, JoinMeaning
    <2> HIDE DEF j
    <2>4. j = c
      BY <2>1, <2>3, MeaningIdentifies
    <2>5. QED
      BY <2>4 DEF j
  <1>2. QED
    BY <1>1, JoinMeaning

\* The order of the lattice: more paths, of which less is known.
Below(a, c) ==
  \/ a = Unreachable
  \/ /\ c # Unreachable
     /\ a.diagnosed \subseteq c.diagnosed
     /\ \A r \in Resource : Meaning(a.states[r]) \subseteq Meaning(c.states[r])

\* Two records are joined resource by resource.
LEMMA RecordsJoin ==
  ASSUME CfgAssumption, NEW a \in FlowState \ {Unreachable}, NEW c \in FlowState \ {Unreachable}
  PROVE  /\ a \in Records /\ c \in Records
         /\ JoinFlow(a, c) \in FlowState \ {Unreachable}
         /\ JoinFlow(a, c).diagnosed = a.diagnosed \cup c.diagnosed
         /\ \A r \in Resource : JoinFlow(a, c).states[r] = JoinStates(a.states[r], c.states[r])
  <1>1. a \in Records /\ c \in Records
    BY DEF FlowState, Records
  <1> DEFINE joined == [r \in Resource |-> JoinStates(a.states[r], c.states[r])]
             new == [states |-> joined, diagnosed |-> a.diagnosed \cup c.diagnosed]
  <1>2. JoinFlow(a, c) = new
    BY DEF JoinFlow
  <1>3. \A r \in Resource : a.states[r] \in State /\ c.states[r] \in State
    BY <1>1 DEF Records
  <1>4. joined \in [Resource -> State]
    BY <1>3, JoinMeaning
  <1>5. \A r \in Resource : joined[r] = JoinStates(a.states[r], c.states[r])
    OBVIOUS
  <1> HIDE DEF joined
  <1>6. new \in Records /\ new.states = joined /\ new.diagnosed = a.diagnosed \cup c.diagnosed
    BY <1>1, <1>4 DEF Records
  <1> HIDE DEF new
  <1>7. new # Unreachable
    BY <1>6 DEF CfgAssumption, Records
  <1>8. QED
    BY <1>1, <1>2, <1>5, <1>6, <1>7 DEF FlowState, Records

\* A record is its states and its diagnostics.
LEMMA RecordsEqual ==
  ASSUME NEW a \in Records, NEW c \in Records, a.diagnosed = c.diagnosed,
         \A r \in Resource : a.states[r] = c.states[r]
  PROVE  a = c
  <1>1. a.states = c.states
    BY DEF Records
  <1>2. QED
    BY <1>1 DEF Records

\* A flow absorbs what is below it.
LEMMA FlowAbsorbs ==
  ASSUME CfgAssumption, NEW a \in FlowState, NEW c \in FlowState
  PROVE  /\ JoinFlow(c, a) \in FlowState
         /\ JoinFlow(c, a) = c <=> Below(a, c)
  <1>1. CASE a = Unreachable \/ c = Unreachable
    BY <1>1 DEF JoinFlow, Below
  <1>2. CASE a # Unreachable /\ c # Unreachable
    <2> DEFINE j == JoinFlow(c, a)
    <2>1. /\ a \in Records /\ c \in Records /\ j \in Records /\ j \in FlowState
          /\ j.diagnosed = c.diagnosed \cup a.diagnosed
          /\ \A r \in Resource : j.states[r] = JoinStates(c.states[r], a.states[r])
      <3>1. j \in FlowState \ {Unreachable}
        BY <1>2, RecordsJoin
      <3>2. QED
        BY <1>2, <3>1, RecordsJoin DEF FlowState, Records
    <2>2. \A r \in Resource : a.states[r] \in State /\ c.states[r] \in State
      BY <2>1 DEF Records
    <2>3. \A r \in Resource : j.states[r] = c.states[r] <=> Meaning(a.states[r]) \subseteq Meaning(c.states[r])
      BY <2>1, <2>2, StateAbsorbs
    <2> HIDE DEF j
    <2>4. j = c <=> a.diagnosed \subseteq c.diagnosed /\ \A r \in Resource : j.states[r] = c.states[r]
      <3>1. ASSUME a.diagnosed \subseteq c.diagnosed, \A r \in Resource : j.states[r] = c.states[r]
            PROVE  j = c
        <4>1. j.diagnosed = c.diagnosed
          BY <2>1, <3>1
        <4>2. QED
          BY <2>1, <3>1, <4>1, RecordsEqual
      <3>2. ASSUME j = c PROVE a.diagnosed \subseteq c.diagnosed
        BY <2>1, <3>2
      <3>3. QED
        BY <3>1, <3>2
    <2>5. QED
      BY <1>2, <2>1, <2>3, <2>4 DEF Below, j
  <1>3. QED
    BY <1>1, <1>2

\* The join is the least flow above both.
LEMMA FlowLeast ==
  ASSUME CfgAssumption, NEW a \in FlowState, NEW b \in FlowState, NEW c \in FlowState
  PROVE  /\ Below(a, JoinFlow(a, b)) /\ Below(b, JoinFlow(a, b))
         /\ Below(a, c) /\ Below(b, c) => Below(JoinFlow(a, b), c)
         /\ Below(a, b) /\ Below(b, c) => Below(a, c)
  <1>1. Below(a, b) /\ Below(b, c) => Below(a, c)
    BY DEF Below
  <1>2. CASE a = Unreachable \/ b = Unreachable
    BY <1>1, <1>2 DEF JoinFlow, Below
  <1>3. CASE a # Unreachable /\ b # Unreachable
    <2> DEFINE j == JoinFlow(a, b)
    <2>1. /\ a \in Records /\ b \in Records /\ j # Unreachable
          /\ j.diagnosed = a.diagnosed \cup b.diagnosed
          /\ \A r \in Resource : j.states[r] = JoinStates(a.states[r], b.states[r])
      BY <1>3, RecordsJoin
    <2>2. \A r \in Resource : a.states[r] \in State /\ b.states[r] \in State
      BY <2>1 DEF Records
    <2>3. \A r \in Resource :
             Meaning(a.states[r]) \subseteq Meaning(j.states[r]) /\ Meaning(b.states[r]) \subseteq Meaning(j.states[r])
      BY <2>1, <2>2, JoinMeaning
    <2>4. ASSUME c # Unreachable, NEW r \in Resource,
                 Meaning(a.states[r]) \subseteq Meaning(c.states[r]), Meaning(b.states[r]) \subseteq Meaning(c.states[r])
          PROVE  Meaning(j.states[r]) \subseteq Meaning(c.states[r])
      <3>1. c.states[r] \in State
        BY <2>4 DEF FlowState, Records
      <3>2. QED
        BY <2>1, <2>2, <2>4, <3>1, JoinMeaning
    <2> HIDE DEF j
    <2>5. Below(a, j) /\ Below(b, j)
      BY <2>1, <2>3 DEF Below
    <2>6. Below(a, c) /\ Below(b, c) => Below(j, c)
      BY <1>3, <2>1, <2>4 DEF Below
    <2>7. QED
      BY <1>1, <2>5, <2>6 DEF j
  <1>4. QED
    BY <1>2, <1>3

-----------------------------------------------------------------------------
\* The instance of the engine.

Proved == INSTANCE FixedPointProofs WITH
  Block <- CfgBlock, Label <- {"normal"}, InvalidLabel <- {}, Value <- FlowState,
  Bottom <- Unreachable,
  Join <- JoinFlow, Program <- Cfg, Declared <- CfgDeclared,
  Edges <- CfgEdges, Entry <- CfgEntry, Initial <- CfgInitial, Limit <- CfgBudget,
  Transfer <- CfgTransfer

\* What paths record is a lattice.
LEMMA FlowsAreLattice ==
  ASSUME CfgAssumption
  PROVE  Proved!NamesAssumption /\ Proved!LatticeAssumption
  <1>1. Proved!NamesAssumption
    BY DEF Proved!NamesAssumption, CfgAssumption, FlowState, Records
  <1>2. Unreachable \in FlowState
    BY DEF FlowState, Records
  <1>3. \A a, b \in FlowState : JoinFlow(a, b) \in FlowState
    BY FlowAbsorbs
  <1>4. \A v \in FlowState : JoinFlow(v, v) = v /\ JoinFlow(Unreachable, v) = v /\ JoinFlow(v, Unreachable) = v
    <2>1. \A v \in FlowState : Below(v, v)
      BY DEF Below
    <2>2. \A v \in FlowState : JoinFlow(v, v) = v
      BY <2>1, FlowAbsorbs
    <2>3. QED
      BY <2>2 DEF JoinFlow
  <1>5. \A a, b \in FlowState : JoinFlow(JoinFlow(a, b), a) = JoinFlow(a, b) /\ JoinFlow(JoinFlow(a, b), b) = JoinFlow(a, b)
    BY <1>3, FlowLeast, FlowAbsorbs
  <1>6. \A a, b, c \in FlowState : JoinFlow(c, b) = c /\ JoinFlow(b, a) = b => JoinFlow(c, a) = c
    BY FlowLeast, FlowAbsorbs
  <1>7. \A a, b, c \in FlowState : JoinFlow(c, a) = c /\ JoinFlow(c, b) = c => JoinFlow(c, JoinFlow(a, b)) = c
    BY <1>3, FlowLeast, FlowAbsorbs
  <1>8. Proved!LatticeAssumption
    <2>1. \A a, b \in FlowState : JoinFlow(a, b) \in FlowState \cup {Conflict}
      BY <1>3
    <2>2. \A a, b \in FlowState : JoinFlow(a, b) \in FlowState =>
            JoinFlow(JoinFlow(a, b), a) = JoinFlow(a, b) /\ JoinFlow(JoinFlow(a, b), b) = JoinFlow(a, b)
      BY <1>5
    <2>3. \A a, b, c \in FlowState : JoinFlow(c, a) = c /\ JoinFlow(c, b) = c =>
            JoinFlow(a, b) \in FlowState /\ JoinFlow(c, JoinFlow(a, b)) = c
      BY <1>3, <1>7
    <2>4. QED
      BY <1>2, <1>4, <1>6, <2>1, <2>2, <2>3, Zenon DEF Proved!LatticeAssumption, Proved!Absorbs
  <1>9. QED
    BY <1>1, <1>8

\* The steps of the engine on control-flow graphs are the steps the theorems are about.
LEMMA SameCfgEngine == CfgSpec => Proved!Spec
  <1>1. CfgEngine!Init => Proved!Init
    BY DEF CfgEngine!Init, Proved!Init
  <1>2. [CfgEngine!Next]_(CfgEngine!vars) => [Proved!Next]_(Proved!vars)
    <2>1. CfgEngine!RejectBudget => Proved!RejectBudget
      BY DEF CfgEngine!RejectBudget, Proved!RejectBudget, CfgEngine!Return, Proved!Return
    <2>2. CfgEngine!RejectGraph => Proved!RejectGraph
      BY DEF CfgEngine!RejectGraph, Proved!RejectGraph, CfgEngine!Return, Proved!Return,
          CfgEngine!WellFormed, Proved!WellFormed, CfgEngine!Distinct, Proved!Distinct,
          CfgEngine!DeclaredBlocks, Proved!DeclaredBlocks, CfgEngine!Successors, Proved!Successors
    <2>3. CfgEngine!ConflictAtEntry => Proved!ConflictAtEntry
      BY DEF CfgEngine!ConflictAtEntry, Proved!ConflictAtEntry, CfgEngine!Return, Proved!Return,
          CfgEngine!WellFormed, Proved!WellFormed, CfgEngine!Distinct, Proved!Distinct,
          CfgEngine!DeclaredBlocks, Proved!DeclaredBlocks, CfgEngine!Successors, Proved!Successors
    <2>4. CfgEngine!Begin => Proved!Begin
      BY DEF CfgEngine!Begin, Proved!Begin, CfgEngine!WellFormed, Proved!WellFormed, CfgEngine!Distinct,
          Proved!Distinct, CfgEngine!DeclaredBlocks, Proved!DeclaredBlocks, CfgEngine!Successors,
          Proved!Successors
    <2>5. CfgEngine!Converge => Proved!Converge
      BY DEF CfgEngine!Converge, Proved!Converge, CfgEngine!Return, Proved!Return
    <2>6. CfgEngine!ExhaustBudget => Proved!ExhaustBudget
      BY DEF CfgEngine!ExhaustBudget, Proved!ExhaustBudget, CfgEngine!Return, Proved!Return
    <2>7. CfgEngine!Visit => Proved!Visit
      BY DEF CfgEngine!Visit, Proved!Visit
    <2>8. CfgEngine!FinishVisit => Proved!FinishVisit
      BY DEF CfgEngine!FinishVisit, Proved!FinishVisit, CfgEngine!InVisit, Proved!InVisit
    <2>9. CfgEngine!UndeclaredTransfer => Proved!UndeclaredTransfer
      BY DEF CfgEngine!UndeclaredTransfer, Proved!UndeclaredTransfer, CfgEngine!Flowing, Proved!Flowing,
          CfgEngine!InVisit, Proved!InVisit, CfgEngine!Successors, Proved!Successors, CfgEngine!Return,
          Proved!Return
    <2>10. CfgEngine!ConflictTransfer => Proved!ConflictTransfer
      BY DEF CfgEngine!ConflictTransfer, Proved!ConflictTransfer, CfgEngine!Flowing, Proved!Flowing,
          CfgEngine!InVisit, Proved!InVisit, CfgEngine!Successors, Proved!Successors, CfgEngine!Return,
          Proved!Return
    <2>11. CfgEngine!NothingNew => Proved!NothingNew
      BY DEF CfgEngine!NothingNew, Proved!NothingNew, CfgEngine!Flowing, Proved!Flowing, CfgEngine!InVisit,
          Proved!InVisit, CfgEngine!Successors, Proved!Successors, CfgEngine!Absorbs, Proved!Absorbs
    <2>12. CfgEngine!Propagate => Proved!Propagate
      BY DEF CfgEngine!Propagate, Proved!Propagate, CfgEngine!Flowing, Proved!Flowing, CfgEngine!InVisit,
          Proved!InVisit, CfgEngine!Successors, Proved!Successors
    <2>13. QED
      BY <2>1, <2>2, <2>3, <2>4, <2>5, <2>6, <2>7, <2>8, <2>9, <2>10, <2>11, <2>12 DEF CfgEngine!Next,
          Proved!Next, CfgEngine!vars, Proved!vars
  <1>3. QED
    BY <1>1, <1>2, PTL DEF CfgSpec, CfgEngine!Spec, Proved!Spec


-----------------------------------------------------------------------------
\* A block.

\* The records of a block entered with one: before its first transition, after it,
\* and so on to the end.
Evaluated(p, b, rec) ==
  LET list == Transitions(p, b)
      after[n \in 0 .. Len(list)] == IF n = 0 THEN rec ELSE Apply(after[n - 1], list[n])
  IN  after

\* The evaluation of a block, transition by transition.
LEMMA BlockSteps ==
  ASSUME CfgAssumption, NEW p \in Cfg, NEW b \in CfgBlock, NEW rec \in Records
  PROVE  /\ Evaluated(p, b, rec) \in [0 .. Len(Transitions(p, b)) -> Records]
         /\ Evaluated(p, b, rec)[0] = rec
         /\ Evaluated(p, b, rec)[Len(Transitions(p, b))] = ApplyBlock(p, b, rec)
         /\ \A n \in 1 .. Len(Transitions(p, b)) :
              Evaluated(p, b, rec)[n] = Apply(Evaluated(p, b, rec)[n - 1], Transitions(p, b)[n])
  <1> DEFINE list == Transitions(p, b)
             last == Len(list)
             g == [s \in (1 .. last) \X Records |-> Apply(s[2], list[s[1]])]
             Recursive(f) == f = [n \in 0 .. last |-> IF n = 0 THEN rec ELSE Apply(f[n - 1], list[n])]
  <1>1. last \in Nat /\ \A n \in 1 .. last : list[n] \in Transition
    BY DEF CfgAssumption
  <1>2. rec # Unreachable
    BY DEF CfgAssumption, Records
  <1>3. /\ Evaluated(p, b, rec) = CHOOSE f : Recursive(f)
        /\ ApplyBlock(p, b, rec) = (CHOOSE f : Recursive(f))[last]
    BY <1>2 DEF Evaluated, ApplyBlock, Folded
  <1> HIDE DEF last, list
  <1>4. g \in [(1 .. last) \X Records -> Records]
    <2>1. \A s \in (1 .. last) \X Records : Apply(s[2], list[s[1]]) \in Records
      BY <1>1, ApplyTyped
    <2>2. QED
      BY <2>1
  <1>5. PICK f \in [0 .. last -> Records] : StepsTo(g, rec, last, f)
    <2>1. last \in Nat /\ rec \in Records /\ g \in [(1 .. last) \X Records -> Records]
      BY <1>1, <1>4
    <2> HIDE DEF g
    <2>2. QED
      BY <2>1, StepsTaken, Zenon
  <1>6. ASSUME NEW n \in 1 .. last PROVE f[n] = Apply(f[n - 1], list[n])
    <2>1. n - 1 \in 0 .. last /\ f[n - 1] \in Records
      BY <1>1
    <2>2. QED
      BY <1>5, <2>1 DEF StepsTo
  <1>7. Recursive(f)
    <2> DEFINE h == [n \in 0 .. last |-> IF n = 0 THEN rec ELSE Apply(f[n - 1], list[n])]
    <2>1. \A n \in 0 .. last : f[n] = h[n]
      BY <1>1, <1>5, <1>6 DEF StepsTo
    <2>2. DOMAIN h = 0 .. last /\ h = [n \in 0 .. last |-> h[n]] /\ f = [n \in 0 .. last |-> f[n]]
      OBVIOUS
    <2> HIDE DEF h
    <2>3. f = h
      BY <2>1, <2>2
    <2>4. QED
      BY <2>3 DEF h
  <1> DEFINE r == CHOOSE k : Recursive(k)
  <1>8. Recursive(r)
    <2> HIDE DEF Recursive
    <2>1. QED
      BY <1>7
  <1> HIDE DEF r
  <1>9. r[0] = rec /\ \A n \in 1 .. last : r[n] = Apply(r[n - 1], list[n])
    BY <1>1, <1>8
  <1>10. \A n \in 0 .. last : r[n] = f[n]
    <2> DEFINE T == {n \in 0 .. last : r[n] # f[n]}
    <2>1. SUFFICES ASSUME T # {} PROVE FALSE
      OBVIOUS
    <2>2. PICK n \in T : \A m \in T : n <= m
      <3>1. T \in SUBSET Nat
        OBVIOUS
      <3> HIDE DEF T
      <3>2. QED
        BY <2>1, <3>1, LeastNat
    <2>3. n # 0
      BY <1>5, <1>9, <2>2 DEF StepsTo
    <2>4. n \in 1 .. last /\ n - 1 \in 0 .. last /\ n - 1 \notin T
      BY <1>1, <2>2, <2>3
    <2>5. QED
      BY <1>6, <1>9, <2>2, <2>4
  <1>11. r = f
    <2>1. DOMAIN r = 0 .. last /\ r = [n \in 0 .. last |-> r[n]] /\ f = [n \in 0 .. last |-> f[n]]
      <3> DEFINE h == [n \in 0 .. last |-> IF n = 0 THEN rec ELSE Apply(r[n - 1], list[n])]
      <3>1. DOMAIN h = 0 .. last /\ h = [n \in 0 .. last |-> h[n]] /\ r = h
        BY <1>8
      <3> HIDE DEF h, Recursive
      <3>2. QED
        BY <3>1
    <2>2. QED
      BY <1>10, <2>1
  <1>12. Evaluated(p, b, rec) = f /\ ApplyBlock(p, b, rec) = f[last]
    BY <1>3, <1>11 DEF r
  <1>13. QED
    BY <1>5, <1>6, <1>12 DEF StepsTo, last, list

\* The executions of a block, transition by transition.
LEMMA ThroughSteps ==
  ASSUME CfgAssumption, NEW p \in Cfg, NEW b \in CfgBlock, NEW x \in Executions
  PROVE  \E f \in [0 .. Len(Transitions(p, b)) -> SUBSET Executions] :
           /\ f[0] = {x}
           /\ f[Len(Transitions(p, b))] = Through(p, b, x)
           /\ \A n \in 1 .. Len(Transitions(p, b)) :
                f[n] = Continued(f[n - 1], Transitions(p, b)[n])
  <1> DEFINE list == Transitions(p, b)
             last == Len(list)
             U == SUBSET Executions
             a == {x}
             g == [s \in (1 .. last) \X U |-> Continued(s[2], list[s[1]])]
             Recursive(f) == f = [n \in 0 .. last |-> IF n = 0 THEN a ELSE Continued(f[n - 1], list[n])]
  <1>1. last \in Nat /\ \A n \in 1 .. last : list[n] \in Transition
    BY DEF CfgAssumption
  <1>2. \A xs \in U, t \in Transition : Continued(xs, t) \in U
    BY OutcomesTyped DEF Continued
  <1>3. Through(p, b, x) = (CHOOSE f : Recursive(f))[last]
    BY DEF Through, Folded
  <1>a. a \in U
    OBVIOUS
  <1> HIDE DEF last, list, U, a
  <1>4. g \in [(1 .. last) \X U -> U]
    <2>1. \A s \in (1 .. last) \X U : Continued(s[2], list[s[1]]) \in U
      BY <1>1, <1>2
    <2>2. QED
      BY <2>1
  <1>5. PICK f \in [0 .. last -> U] : StepsTo(g, a, last, f)
    <2>1. last \in Nat /\ a \in U /\ g \in [(1 .. last) \X U -> U]
      BY <1>a, <1>1, <1>4
    <2> HIDE DEF g
    <2>2. QED
      BY <2>1, StepsTaken, Zenon
  <1>6. ASSUME NEW n \in 1 .. last PROVE f[n] = Continued(f[n - 1], list[n])
    <2>1. n - 1 \in 0 .. last /\ f[n - 1] \in U
      BY <1>1
    <2>2. QED
      BY <1>5, <2>1 DEF StepsTo
  <1>7. Recursive(f)
    <2> DEFINE h == [n \in 0 .. last |-> IF n = 0 THEN a ELSE Continued(f[n - 1], list[n])]
    <2>1. \A n \in 0 .. last : f[n] = h[n]
      BY <1>1, <1>5, <1>6 DEF StepsTo
    <2>2. DOMAIN h = 0 .. last /\ h = [n \in 0 .. last |-> h[n]] /\ f = [n \in 0 .. last |-> f[n]]
      OBVIOUS
    <2> HIDE DEF h
    <2>3. f = h
      BY <2>1, <2>2
    <2>4. QED
      BY <2>3 DEF h
  <1> DEFINE r == CHOOSE k : Recursive(k)
  <1>8. Recursive(r)
    <2> HIDE DEF Recursive
    <2>1. QED
      BY <1>7
  <1> HIDE DEF r
  <1>9. r[0] = a /\ \A n \in 1 .. last : r[n] = Continued(r[n - 1], list[n])
    BY <1>1, <1>8
  <1>10. \A n \in 0 .. last : r[n] = f[n]
    <2> DEFINE T == {n \in 0 .. last : r[n] # f[n]}
    <2>1. SUFFICES ASSUME T # {} PROVE FALSE
      OBVIOUS
    <2>2. PICK n \in T : \A m \in T : n <= m
      <3>1. T \in SUBSET Nat
        OBVIOUS
      <3> HIDE DEF T
      <3>2. QED
        BY <2>1, <3>1, LeastNat
    <2>3. n # 0
      BY <1>5, <1>9, <2>2 DEF StepsTo
    <2>4. n \in 1 .. last /\ n - 1 \in 0 .. last /\ n - 1 \notin T
      BY <1>1, <2>2, <2>3
    <2>5. QED
      BY <1>6, <1>9, <2>2, <2>4
  <1>11. f[last] = Through(p, b, x)
    <2>1. last \in 0 .. last
      BY <1>1
    <2>2. QED
      BY <1>3, <1>10, <2>1 DEF r
  <1>12. QED
    BY <1>5, <1>6, <1>11 DEF StepsTo, last, list, a, U

\* The evaluation of a block transfers nothing that may be absent to a target, which
\* would leave the target as it was (resource-protocol.ts:243-246, finding 1).
SureIn(p, b, rec) ==
  \A n \in 1 .. Len(Transitions(p, b)) :
    LET t == Transitions(p, b)[n]
    IN  t.kind = "transfer" /\ t.others # <<>> /\ t.resource \in Resource
          => Evaluated(p, b, rec)[n - 1].states[t.resource] # OrAbsent["available"]

\* A block records what describes every execution that leaves it, if what it was
\* entered with describes the execution that enters it.
LEMMA BlockCovers ==
  ASSUME CfgAssumption, NEW p \in Cfg, NEW b \in CfgBlock, NEW rec \in FlowState \ {Unreachable}, SureIn(p, b, rec),
         NEW x \in Executions, rec.diagnosed = {} => Describes(rec, x)
  PROVE  /\ Through(p, b, x) \subseteq Executions
         /\ ApplyBlock(p, b, rec).diagnosed = {} =>
              \A y \in Through(p, b, x) : Describes(ApplyBlock(p, b, rec), y)
  <1> DEFINE list == Transitions(p, b)
             last == Len(list)
             f == Evaluated(p, b, rec)
  <1>1. last \in Nat /\ \A n \in 1 .. last : list[n] \in Transition
    BY DEF CfgAssumption
  <1>2. rec \in Records
    BY DEF FlowState, Records
  <1>3. /\ f \in [0 .. last -> Records]
        /\ f[0] = rec
        /\ f[last] = ApplyBlock(p, b, rec)
        /\ \A n \in 1 .. last : f[n] = Apply(f[n - 1], list[n])
    BY <1>2, BlockSteps
  <1>a. ASSUME NEW n \in 1 .. last, list[n].kind = "transfer", list[n].others # <<>>, list[n].resource \in Resource
        PROVE  f[n - 1].states[list[n].resource] # OrAbsent["available"]
    BY <1>a DEF SureIn
  <1>4. PICK h \in [0 .. last -> SUBSET Executions] :
          /\ h[0] = {x}
          /\ h[last] = Through(p, b, x)
          /\ \A n \in 1 .. last : h[n] = Continued(h[n - 1], list[n])
    BY ThroughSteps
  <1> DEFINE Good(n) == f[n].diagnosed = {} => \A y \in h[n] : Describes(f[n], y)
  <1> HIDE DEF list, last, f
  <1>5. Good(0)
    BY <1>3, <1>4
  <1>6. ASSUME NEW n \in 1 .. last, Good(n - 1) PROVE Good(n)
    <2> DEFINE t == list[n]
               low == f[n - 1]
    <2>1. t \in Transition /\ low \in Records /\ h[n - 1] \subseteq Executions
      <3>1. n - 1 \in 0 .. last
        BY <1>1
      <3>2. QED
        BY <1>1, <1>3, <1>4, <3>1
    <2>2. f[n] = Apply(low, t) /\ h[n] = Continued(h[n - 1], t)
      BY <1>3, <1>4
    <2>3. t.kind = "transfer" /\ t.others # <<>> /\ t.resource \in Resource
            => low.states[t.resource] # OrAbsent["available"]
      BY <1>a
    <2>4. low.diagnosed = {} => \A y \in h[n - 1] : Describes(low, y)
      BY <1>6
    <2> HIDE DEF t, low
    <2>5. ASSUME f[n].diagnosed = {}, NEW z \in h[n] PROVE Describes(f[n], z)
      <3>1. PICK y \in h[n - 1] : z \in Outcomes(y, t)
        BY <2>2, <2>5 DEF Continued
      <3>2. Apply(low, t).diagnosed = {} /\ low.diagnosed = {}
        BY <2>1, <2>2, <2>5, ApplyTyped
      <3>3. Describes(low, y) /\ y \in Executions
        BY <2>1, <2>4, <3>1, <3>2
      <3>4. t.kind = "transfer" /\ t.others # <<>> => low.states[t.resource] # OrAbsent["available"]
        BY <2>1, <2>3, <3>2, CleanIsDeclared
      <3>5. Describes(Apply(low, t), z)
        BY <2>1, <3>1, <3>2, <3>3, <3>4, ApplyCovers
      <3>6. QED
        BY <2>2, <3>5
    <2>6. QED
      BY <2>5
  <1> HIDE DEF Good
  <1>7. \A n \in 0 .. last : Good(n)
    <2> DEFINE T == {n \in 0 .. last : ~Good(n)}
    <2>1. SUFFICES ASSUME T # {} PROVE FALSE
      OBVIOUS
    <2>2. PICK n \in T : \A m \in T : n <= m
      <3>1. T \in SUBSET Nat
        OBVIOUS
      <3> HIDE DEF T
      <3>2. QED
        BY <2>1, <3>1, LeastNat
    <2>3. n \in 0 .. last /\ ~Good(n) /\ n # 0
      BY <1>5, <2>2
    <2>4. n \in 1 .. last /\ n - 1 \in 0 .. last /\ n - 1 \notin T
      BY <1>1, <2>2, <2>3
    <2>5. Good(n - 1)
      BY <2>4
    <2>6. QED
      BY <1>6, <2>3, <2>4, <2>5
  <1>8. Good(last) /\ h[last] \subseteq Executions
    <2>1. last \in 0 .. last
      BY <1>1
    <2>2. QED
      BY <1>4, <1>7, <2>1
  <1>9. QED
    BY <1>3, <1>4, <1>8 DEF Good

-----------------------------------------------------------------------------
\* The control-flow graph as an input of the engine.

\* The initial record describes the execution that starts.
LEMMA InitialDescribes ==
  ASSUME CfgAssumption, NEW p \in Cfg
  PROVE  /\ CfgInitial(p) \in FlowState \ {Unreachable}
         /\ Started \in Executions
         /\ Describes(CfgInitial(p), Started)
  <1> DEFINE rec == CfgInitial(p)
  <1>1. /\ \A r \in Resource : Starts[r] \in Certain
        /\ DOMAIN Starts = Resource
        /\ Starts \in [Resource -> {"absent", "available"}]
    BY ModelAssumption DEF Certain
  <1>2. rec = [states |-> [r \in Resource |-> Starts[r]], diagnosed |-> {}]
    BY DEF CfgInitial, Initially
  <1>3. [r \in Resource |-> Starts[r]] \in [Resource -> State]
    BY <1>1, MeaningCertain
  <1>4. rec.diagnosed = {} /\ \A r \in Resource : rec.states[r] = Starts[r]
    BY <1>2
  <1>5. rec \in Records
    BY <1>2, <1>3 DEF Records
  <1> HIDE DEF rec
  <1>6. rec # Unreachable
    BY <1>5 DEF CfgAssumption, Records
  <1>8. Started \in Executions
    BY <1>1 DEF Started, Executions
  <1>9. \A r \in Resource : Started.actual[r] \in Meaning(rec.states[r])
    BY <1>1, <1>4, MeaningCertain DEF Started
  <1>10. ~Started.broken
    BY DEF Started
  <1>11. rec \in FlowState
    BY <1>5 DEF FlowState, Records
  <1>12. QED
    BY <1>6, <1>8, <1>9, <1>10, <1>11 DEF Describes, rec

\* A block sends records.
LEMMA BlockTyped ==
  ASSUME CfgAssumption, NEW p \in Cfg, NEW b \in CfgBlock, NEW v \in FlowState
  PROVE  /\ ApplyBlock(p, b, v) \in FlowState
         /\ v # Unreachable => ApplyBlock(p, b, v) # Unreachable
  <1>1. CASE v = Unreachable
    BY <1>1 DEF ApplyBlock
  <1>2. CASE v # Unreachable
    <2>1. v \in Records
      BY <1>2 DEF FlowState, Records
    <2>2. Len(Transitions(p, b)) \in Nat
      BY DEF CfgAssumption
    <2>3. ApplyBlock(p, b, v) \in Records
      BY <2>1, <2>2, BlockSteps
    <2>4. QED
      BY <2>3 DEF CfgAssumption, FlowState, Records
  <1>3. QED
    BY <1>1, <1>2

\* What a block sends, and to whom.
LEMMA CfgSends ==
  ASSUME CfgAssumption, NEW p \in Cfg, NEW b \in CfgBlock, NEW v \in FlowState
  PROVE  /\ CfgTransfer(p, b, v) \in Seq(Proved!Flow)
         /\ DOMAIN CfgTransfer(p, b, v) = DOMAIN CfgTargets(p, b)
         /\ \A i \in DOMAIN CfgTargets(p, b) :
              /\ CfgTransfer(p, b, v)[i].to = CfgTargets(p, b)[i]
              /\ CfgTransfer(p, b, v)[i].value = ApplyBlock(p, b, v)
  <1> DEFINE list == CfgTargets(p, b)
             sent == ApplyBlock(p, b, v)
  <1>1. list \in Seq(CfgBlock)
    BY DEF CfgAssumption
  <1>2. CfgTransfer(p, b, v) = [i \in DOMAIN list |-> [to |-> list[i], value |-> sent]]
    BY DEF CfgTransfer
  <1>3. sent \in FlowState
    BY BlockTyped
  <1> HIDE DEF list, sent
  <1>4. \A i \in DOMAIN list : [to |-> list[i], value |-> sent] \in Proved!Flow
    BY <1>1, <1>3 DEF Proved!Flow
  <1>5. QED
    BY <1>1, <1>2, <1>4 DEF list, sent

\* The graph gives the engine what it expects.
LEMMA CfgIsProgram ==
  ASSUME CfgAssumption
  PROVE  Proved!ProgramAssumption
  <1> SUFFICES ASSUME NEW p \in Cfg
               PROVE  /\ CfgDeclared(p) \in Seq(CfgBlock)
                      /\ CfgEntry(p) \in CfgBlock
                      /\ CfgInitial(p) \in FlowState
                      /\ CfgBudget(p) \in Int
                      /\ \A b \in CfgBlock :
                           /\ CfgEdges(p, b) \in Seq(Proved!Edge)
                           /\ \A v \in FlowState : CfgTransfer(p, b, v) \in Seq(Proved!Flow)
    BY DEF Proved!ProgramAssumption
  <1>1. CfgDeclared(p) \in Seq(CfgBlock) /\ CfgEntry(p) \in CfgBlock /\ CfgBudget(p) \in Int
    BY DEF CfgDeclared, CfgAssumption
  <1>2. CfgInitial(p) \in FlowState
    BY InitialDescribes
  <1>3. ASSUME NEW b \in CfgBlock PROVE CfgEdges(p, b) \in Seq(Proved!Edge)
    <2> DEFINE list == CfgTargets(p, b)
    <2>1. list \in Seq(CfgBlock)
      BY DEF CfgAssumption
    <2>2. CfgEdges(p, b) = [i \in DOMAIN list |-> [to |-> list[i], label |-> "normal"]]
      BY DEF CfgEdges
    <2> HIDE DEF list
    <2>3. \A i \in DOMAIN list : [to |-> list[i], label |-> "normal"] \in Proved!Edge
      BY <2>1 DEF Proved!Edge
    <2>4. QED
      BY <2>1, <2>2, <2>3
  <1>4. QED
    BY <1>1, <1>2, <1>3, CfgSends

-----------------------------------------------------------------------------
\* Paths.

\* A block and an execution that enters it.
Situations == CfgBlock \X Executions

\* What is recorded for a block tells the truth about an execution that enters it.
Told(recorded, s) ==
  /\ recorded[s[1]] # Unreachable
  /\ recorded[s[1]].diagnosed = {} => Describes(recorded[s[1]], s[2])

\* What is recorded lets no block transfer what may be absent to a target.
SureEverywhere(p, recorded) ==
  \A b \in CfgBlock : recorded[b] # Unreachable => SureIn(p, b, recorded[b])

\* Of a solution: what is told of a situation is told of those that follow.
LEMMA ToldOnward ==
  ASSUME CfgAssumption, NEW p \in Cfg, NEW recorded \in [CfgBlock -> FlowState],
         Proved!IsSolution(p, recorded), SureEverywhere(p, recorded), NEW s \in Situations, Told(recorded, s), NEW z \in Onward(p, s)
  PROVE  z \in Situations /\ Told(recorded, z)
  <1> DEFINE b == s[1]
             x == s[2]
             rec == recorded[b]
             sent == ApplyBlock(p, b, rec)
  <1>1. /\ b \in CfgBlock /\ x \in Executions /\ rec \in FlowState \ {Unreachable}
        /\ rec.diagnosed = {} => Describes(rec, x)
        /\ SureIn(p, b, rec)
    BY DEF Situations, Told, SureEverywhere
  <1>2. PICK i \in DOMAIN CfgTargets(p, b) : z[1] = CfgTargets(p, b)[i] /\ z[2] \in Through(p, b, x) /\ z = <<z[1], z[2]>>
    BY DEF Onward, SuccessorSet
  <1>3. CfgTargets(p, b)[i] \in CfgBlock
    BY <1>1, <1>2 DEF CfgAssumption
  <1>4. JoinFlow(recorded[z[1]], sent) = recorded[z[1]]
    <2>1. Proved!SettledIn(p, recorded, b)
      BY <1>1 DEF Proved!IsSolution, Proved!ReachedIn
    <2>2. Proved!Absorbs(recorded[CfgTransfer(p, b, rec)[i].to], CfgTransfer(p, b, rec)[i].value)
      BY <1>1, <1>2, <2>1, CfgSends DEF Proved!SettledIn
    <2>3. QED
      BY <1>1, <1>2, <2>2, CfgSends DEF Proved!Absorbs
  <1>5. /\ sent \in FlowState \ {Unreachable} /\ Through(p, b, x) \subseteq Executions
        /\ sent.diagnosed = {} => \A y \in Through(p, b, x) : Describes(sent, y)
    BY <1>1, BlockCovers, BlockTyped
  <1>6. recorded[z[1]] \in FlowState /\ Below(sent, recorded[z[1]])
    BY <1>2, <1>3, <1>4, <1>5, FlowAbsorbs
  <1> HIDE DEF sent, rec, b, x
  <1>7. z \in Situations
    BY <1>2, <1>3, <1>5 DEF Situations
  <1>8. recorded[z[1]] # Unreachable
    BY <1>5, <1>6 DEF Below
  <1>9. ASSUME recorded[z[1]].diagnosed = {} PROVE Describes(recorded[z[1]], z[2])
    <2>1. sent.diagnosed = {} /\ \A r \in Resource : Meaning(sent.states[r]) \subseteq Meaning(recorded[z[1]].states[r])
      BY <1>5, <1>6, <1>9 DEF Below
    <2>2. Describes(sent, z[2])
      BY <1>2, <1>5, <2>1
    <2>3. QED
      BY <2>1, <2>2 DEF Describes
  <1>10. QED
    BY <1>7, <1>8, <1>9 DEF Told

\* Of a solution: the truth is told about the start.
LEMMA ToldAtEntry ==
  ASSUME CfgAssumption, NEW p \in Cfg, NEW recorded \in [CfgBlock -> FlowState],
         Proved!IsSolution(p, recorded)
  PROVE  <<CfgEntry(p), Started>> \in Situations /\ Told(recorded, <<CfgEntry(p), Started>>)
  <1> DEFINE entry == CfgEntry(p)
             first == CfgInitial(p)
  <1>1. /\ entry \in CfgBlock /\ recorded[entry] \in FlowState
        /\ first \in FlowState \ {Unreachable} /\ Started \in Executions /\ Describes(first, Started)
        /\ first.diagnosed = {}
    BY InitialDescribes DEF CfgAssumption, CfgInitial, Initially
  <1>2. JoinFlow(recorded[entry], first) = recorded[entry]
    BY DEF Proved!IsSolution, Proved!Absorbs
  <1> HIDE DEF entry, first
  <1>3. Below(first, recorded[entry])
    BY <1>1, <1>2, FlowAbsorbs
  <1>4. recorded[entry] # Unreachable /\ Describes(recorded[entry], Started)
    BY <1>1, <1>3 DEF Below, Describes
  <1>5. QED
    BY <1>1, <1>4 DEF Situations, Told, entry

\* A set of situations no path leaves.
Closed(p, V) == <<CfgEntry(p), Started>> \in V /\ \A s \in V : Onward(p, s) \subseteq V

\* Such a set contains every situation some path meets.
LEMMA EnteredWithin ==
  ASSUME MaxPath \in Nat, NEW p, NEW V, Closed(p, V)
  PROVE  Entered(p) \subseteq V
  <1> DEFINE U == SUBSET V
             a == {<<CfgEntry(p), Started>>}
             more(x) == x \cup UNION {Onward(p, s) : s \in x}
             g == [x \in U |-> more(x)]
             Recursive(f) == f = [n \in Nat |-> IF n = 0 THEN a ELSE more(f[n - 1])]
  <1>1. a \in U
    BY DEF Closed
  <1>2. \A x \in U : more(x) \in U
    BY DEF Closed
  <1>3. WithinEdges(p) = CHOOSE f : Recursive(f)
    BY DEF WithinEdges
  <1>4. MaxPath \in Nat
    OBVIOUS
  <1>5. \A x \in U : x \subseteq V
    OBVIOUS
  <1> HIDE DEF U, a, more
  <1>6. g \in [U -> U]
    BY <1>2
  <1>7. PICK f \in [Nat -> U] : f[0] = a /\ \A n \in Nat : f[n + 1] = g[f[n]]
    <2>1. a \in U /\ g \in [U -> U]
      BY <1>1, <1>6
    <2> HIDE DEF g
    <2>2. QED
      BY <2>1, Iterates, Z3
  <1>8. Recursive(f)
    <2>1. ASSUME NEW n \in Nat, n # 0 PROVE f[n] = more(f[n - 1])
      <3>1. n - 1 \in Nat /\ (n - 1) + 1 = n
        BY <2>1
      <3>2. f[(n - 1) + 1] = g[f[n - 1]] /\ f[n - 1] \in U
        BY <1>7, <3>1
      <3>3. QED
        BY <3>1, <3>2
    <2> DEFINE h == [n \in Nat |-> IF n = 0 THEN a ELSE more(f[n - 1])]
    <2>2. \A n \in Nat : f[n] = h[n]
      BY <1>7, <2>1
    <2>3. DOMAIN h = Nat /\ h = [n \in Nat |-> h[n]] /\ f = [n \in Nat |-> f[n]]
      BY <1>7
    <2> HIDE DEF h
    <2>4. f = h
      BY <2>2, <2>3
    <2>5. QED
      BY <2>4 DEF h
  <1> DEFINE r == CHOOSE k : Recursive(k)
  <1>9. Recursive(r)
    <2> HIDE DEF Recursive
    <2>1. QED
      BY <1>8
  <1> HIDE DEF r
  <1>10. r[0] = a /\ \A n \in Nat \ {0} : r[n] = more(r[n - 1])
    BY <1>9
  <1>11. \A n \in Nat : r[n] \in U
    <2> DEFINE T == {n \in Nat : r[n] \notin U}
    <2>1. SUFFICES ASSUME T # {} PROVE FALSE
      OBVIOUS
    <2>2. PICK n \in T : \A m \in T : n <= m
      <3>1. T \in SUBSET Nat
        OBVIOUS
      <3> HIDE DEF T
      <3>2. QED
        BY <2>1, <3>1, LeastNat
    <2>3. n # 0
      BY <1>1, <1>10, <2>2
    <2>4. n - 1 \in Nat /\ n - 1 \notin T
      BY <2>2, <2>3
    <2>5. QED
      BY <1>2, <1>10, <2>2, <2>3, <2>4
  <1>12. Entered(p) \in U
    BY <1>3, <1>4, <1>11 DEF Entered, r
  <1>13. QED
    BY <1>5, <1>12

\* Of a solution: the truth is told about every situation some path meets.
LEMMA ToldEverywhere ==
  ASSUME CfgAssumption, NEW p \in Cfg, NEW recorded \in [CfgBlock -> FlowState],
         Proved!IsSolution(p, recorded), SureEverywhere(p, recorded)
  PROVE  \A s \in Entered(p) : s \in Situations /\ Told(recorded, s)
  <1> DEFINE V == {s \in Situations : Told(recorded, s)}
  <1>1. Closed(p, V)
    BY ToldAtEntry, ToldOnward DEF Closed
  <1>2. MaxPath \in Nat
    BY DEF CfgAssumption
  <1> HIDE DEF V
  <1>3. Entered(p) \subseteq V
    BY <1>1, <1>2, EnteredWithin
  <1>4. QED
    BY <1>3 DEF V

-----------------------------------------------------------------------------
\* The verdict.

\* The join of a list of flows is above each of them.
LEMMA JoinedAbove ==
  ASSUME CfgAssumption, NEW list \in Seq(FlowState)
  PROVE  /\ Folded(JoinFlow, Unreachable, list) \in FlowState
         /\ \A i \in DOMAIN list : Below(list[i], Folded(JoinFlow, Unreachable, list))
  <1> DEFINE last == Len(list)
             joined == Folded(JoinFlow, Unreachable, list)
             g == [s \in (1 .. last) \X FlowState |-> JoinFlow(s[2], list[s[1]])]
             Recursive(f) == f = [n \in 0 .. last |-> IF n = 0 THEN Unreachable ELSE JoinFlow(f[n - 1], list[n])]
  <1>1. last \in Nat /\ DOMAIN list = 1 .. last /\ \A n \in 1 .. last : list[n] \in FlowState
    OBVIOUS
  <1>2. joined = (CHOOSE f : Recursive(f))[last]
    BY DEF Folded
  <1> HIDE DEF last, joined
  <1>3. Unreachable \in FlowState
    BY DEF FlowState, Records
  <1>4. g \in [(1 .. last) \X FlowState -> FlowState]
    <2>1. \A s \in (1 .. last) \X FlowState : JoinFlow(s[2], list[s[1]]) \in FlowState
      BY <1>1, FlowAbsorbs
    <2>2. QED
      BY <2>1
  <1>5. PICK f \in [0 .. last -> FlowState] : StepsTo(g, Unreachable, last, f)
    <2>1. last \in Nat /\ Unreachable \in FlowState /\ g \in [(1 .. last) \X FlowState -> FlowState]
      BY <1>1, <1>3, <1>4
    <2> HIDE DEF g
    <2>2. QED
      BY <2>1, StepsTaken, Zenon
  <1>6. ASSUME NEW n \in 1 .. last PROVE f[n] = JoinFlow(f[n - 1], list[n])
    <2>1. n - 1 \in 0 .. last /\ f[n - 1] \in FlowState
      BY <1>1
    <2>2. QED
      BY <1>5, <2>1 DEF StepsTo
  <1>7. Recursive(f)
    <2> DEFINE h == [n \in 0 .. last |-> IF n = 0 THEN Unreachable ELSE JoinFlow(f[n - 1], list[n])]
    <2>1. \A n \in 0 .. last : f[n] = h[n]
      BY <1>1, <1>5, <1>6 DEF StepsTo
    <2>2. DOMAIN h = 0 .. last /\ h = [n \in 0 .. last |-> h[n]] /\ f = [n \in 0 .. last |-> f[n]]
      OBVIOUS
    <2> HIDE DEF h
    <2>3. f = h
      BY <2>1, <2>2
    <2>4. QED
      BY <2>3 DEF h
  <1> DEFINE r == CHOOSE k : Recursive(k)
  <1>8. Recursive(r)
    <2> HIDE DEF Recursive
    <2>1. QED
      BY <1>7
  <1> HIDE DEF r
  <1>9. r[0] = Unreachable /\ \A n \in 1 .. last : r[n] = JoinFlow(r[n - 1], list[n])
    BY <1>1, <1>8
  <1> DEFINE Good(n) == r[n] \in FlowState /\ \A i \in 1 .. n : Below(list[i], r[n])
  <1>10. Good(0)
    BY <1>3, <1>9
  <1>11. ASSUME NEW n \in 1 .. last, Good(n - 1) PROVE Good(n)
    <2> DEFINE low == r[n - 1]
               high == r[n]
    <2>1. high = JoinFlow(low, list[n]) /\ low \in FlowState /\ list[n] \in FlowState
      BY <1>1, <1>9, <1>11
    <2>2. \A i \in 1 .. n : i # n => i \in 1 .. n - 1
      BY <1>1
    <2>3. \A i \in 1 .. n : i # n => Below(list[i], low) /\ list[i] \in FlowState
      BY <1>1, <1>11, <2>2
    <2> HIDE DEF low, high
    <2>4. high \in FlowState /\ Below(low, high) /\ Below(list[n], high)
      BY <2>1, FlowAbsorbs, FlowLeast
    <2>5. ASSUME NEW i \in 1 .. n, i # n PROVE Below(list[i], high)
      BY <2>1, <2>3, <2>4, <2>5, FlowLeast
    <2>6. QED
      BY <2>4, <2>5 DEF high
  <1> HIDE DEF Good
  <1>12. \A n \in 0 .. last : Good(n)
    <2> DEFINE T == {n \in 0 .. last : ~Good(n)}
    <2>1. SUFFICES ASSUME T # {} PROVE FALSE
      OBVIOUS
    <2>2. PICK n \in T : \A m \in T : n <= m
      <3>1. T \in SUBSET Nat
        OBVIOUS
      <3> HIDE DEF T
      <3>2. QED
        BY <2>1, <3>1, LeastNat
    <2>3. n \in 0 .. last /\ ~Good(n) /\ n # 0
      BY <1>10, <2>2
    <2>4. n \in 1 .. last /\ n - 1 \in 0 .. last /\ n - 1 \notin T
      BY <1>1, <2>2, <2>3
    <2>5. Good(n - 1)
      BY <2>4
    <2>6. QED
      BY <1>11, <2>3, <2>4, <2>5
  <1>13. Good(last)
    <2>1. last \in 0 .. last
      BY <1>1
    <2>2. QED
      BY <1>12, <2>1
  <1>14. QED
    BY <1>1, <1>2, <1>13 DEF Good, joined, r

\* The verdict is read off a join that is above what leaves each exit.
LEMMA TerminalAbove ==
  ASSUME CfgAssumption, program \in Cfg, states \in [CfgBlock -> FlowState]
  PROVE  /\ Terminal \in FlowState
         /\ \A i \in DOMAIN Exits(program) :
              /\ Exits(program)[i] \in CfgBlock
              /\ Below(ApplyBlock(program, Exits(program)[i], states[Exits(program)[i]]), Terminal)
  <1> DEFINE exits == Exits(program)
             Sent(i) == ApplyBlock(program, exits[i], states[exits[i]])
             list == [i \in DOMAIN exits |-> Sent(i)]
  <1>1. exits \in Seq(CfgBlock)
    BY DEF CfgAssumption
  <1>2. \A i \in DOMAIN exits : exits[i] \in CfgBlock /\ Sent(i) \in FlowState
    BY <1>1, BlockTyped
  <1>3. Terminal = Folded(JoinFlow, Unreachable, list)
    BY DEF Terminal
  <1> HIDE DEF exits, Sent
  <1>4. list \in Seq(FlowState) /\ DOMAIN list = DOMAIN exits /\ \A i \in DOMAIN exits : list[i] = Sent(i)
    BY <1>1, <1>2
  <1> HIDE DEF list
  <1>5. Terminal \in FlowState /\ \A i \in DOMAIN list : Below(list[i], Terminal)
    BY <1>3, <1>4, JoinedAbove
  <1>6. QED
    BY <1>2, <1>4, <1>5 DEF exits, Sent

\* No block of the program, entered with what is recorded for it, transfers what may
\* be absent to a target: all that the theorems leave out of the evaluator (finding 1).
TransfersAreSure == SureEverywhere(program, states)

\* Whatever the visiting order and the paths of the graph: when the engine has
\* converged, what it recorded for a block describes every execution that enters it.
THEOREM EntryStatesCover ==
  ASSUME CfgAssumption
  PROVE  CfgSpec => [](TransfersAreSure => EntryStatesCoverEveryPath)
  <1>1. Proved!NamesAssumption /\ Proved!LatticeAssumption /\ Proved!ProgramAssumption
    BY FlowsAreLattice, CfgIsProgram
  <1>2. Proved!TypeOK /\ Proved!ConvergedIsLeastSolution => (TransfersAreSure => EntryStatesCoverEveryPath)
    <2> SUFFICES ASSUME Proved!TypeOK, Proved!ConvergedIsLeastSolution, TransfersAreSure,
                        status = "converged", program \in Cfg,
                        NEW s \in Entered(program)
                 PROVE  /\ states[s[1]] # Unreachable
                        /\ states[s[1]].diagnosed = {} =>
                             /\ ~s[2].broken
                             /\ \A r \in Resource : s[2].actual[r] \in Meaning(states[s[1]].states[r])
      BY DEF EntryStatesCoverEveryPath
    <2>1. states \in [CfgBlock -> FlowState] /\ Proved!IsSolution(program, states) /\ SureEverywhere(program, states)
      BY DEF Proved!TypeOK, Proved!ConvergedIsLeastSolution, TransfersAreSure
    <2>2. Told(states, s)
      BY <2>1, ToldEverywhere
    <2>3. QED
      BY <2>2 DEF Told, Describes
  <1>3. Proved!Spec => []Proved!TypeOK
    BY <1>1, Proved!TypeCorrect
  <1>4. Proved!Spec => []Proved!ConvergedIsLeastSolution
    BY <1>1, Proved!ConvergenceSound
  <1>5. QED
    BY <1>2, <1>3, <1>4, SameCfgEngine, PTL

\* An accepted graph: every path that ends at an exit has used its resources in
\* order and discharged every obligation.
THEOREM SatisfiedPathsSafe ==
  ASSUME CfgAssumption
  PROVE  CfgSpec => [](TransfersAreSure => SatisfiedPathsAreSafe)
  <1>1. Proved!NamesAssumption /\ Proved!LatticeAssumption /\ Proved!ProgramAssumption
    BY FlowsAreLattice, CfgIsProgram
  <1>2. Proved!TypeOK /\ Proved!ConvergedIsLeastSolution => (TransfersAreSure => SatisfiedPathsAreSafe)
    <2> SUFFICES ASSUME Proved!TypeOK, Proved!ConvergedIsLeastSolution, TransfersAreSure,
                        program \in Cfg, CfgVerdict = "satisfied",
                        NEW s \in Entered(program), NEW i \in DOMAIN Exits(program), s[1] = Exits(program)[i],
                        NEW x \in Through(program, s[1], s[2])
                 PROVE  Safe(x)
      BY DEF SatisfiedPathsAreSafe
    <2>1. status = "converged" /\ Terminal # Unreachable /\ TerminalStatus(Terminal) = "satisfied"
      BY DEF CfgVerdict, Proved!TypeOK
    <2>2. states \in [CfgBlock -> FlowState] /\ Proved!IsSolution(program, states) /\ SureEverywhere(program, states)
      BY <2>1 DEF Proved!TypeOK, Proved!ConvergedIsLeastSolution, TransfersAreSure
    <2>3. s \in Situations /\ Told(states, s)
      BY <2>2, ToldEverywhere
    <2> DEFINE sent == ApplyBlock(program, s[1], states[s[1]])
    <2>4. Terminal \in FlowState /\ Below(sent, Terminal)
      BY <2>2, TerminalAbove
    <2>5. /\ sent # Unreachable
          /\ sent.diagnosed = {} => \A y \in Through(program, s[1], s[2]) : Describes(sent, y)
      <3>1. /\ s[1] \in CfgBlock /\ s[2] \in Executions /\ states[s[1]] \in FlowState \ {Unreachable}
            /\ states[s[1]].diagnosed = {} => Describes(states[s[1]], s[2])
            /\ SureIn(program, s[1], states[s[1]])
        BY <2>2, <2>3 DEF Situations, Told, SureEverywhere
      <3>2. QED
        BY <3>1, BlockCovers, BlockTyped
    <2>6. Terminal.diagnosed = {} /\ \A r \in Obliged : Accepts(r, Terminal.states[r])
      BY <2>1 DEF TerminalStatus
    <2> HIDE DEF sent
    <2>7. Describes(sent, x) /\ \A r \in Resource : Meaning(sent.states[r]) \subseteq Meaning(Terminal.states[r])
      BY <2>4, <2>5, <2>6 DEF Below
    <2>8. QED
      BY <2>6, <2>7 DEF Accepts, Safe, Describes, Obliged
  <1>3. Proved!Spec => []Proved!TypeOK
    BY <1>1, Proved!TypeCorrect
  <1>4. Proved!Spec => []Proved!ConvergedIsLeastSolution
    BY <1>1, Proved!ConvergenceSound
  <1>5. QED
    BY <1>2, <1>3, <1>4, SameCfgEngine, PTL
=============================================================================
