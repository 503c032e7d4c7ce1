--------------------------- MODULE ResourceStates ---------------------------
(***************************************************************************)
(* The states and transitions of the resource protocol IR                  *)
(* (src/resources/resource-protocol.ts): what one transition does to the   *)
(* recorded states, how the states of two paths are joined, and which      *)
(* final states discharge an obligation.  No variables: the straight-line  *)
(* evaluator and the control-flow evaluator share this module.             *)
(*                                                                         *)
(* A transition is [kind, resource, others, unsure]: others lists the      *)
(* target of a transfer, the targets of a split or the sources of a join   *)
(* (whose target is resource); unsure stands for "conditional" and for     *)
(* unknown evidence, which the evaluator treats alike.                     *)
(***************************************************************************)
EXTENDS Naturals, Sequences

CONSTANTS
  ResourceId,  \* ids a transition may name
  Resource,    \* ids the model declares
  Starts,      \* initialState of each declared resource
  Required,    \* requiredTerminalStates of each declared resource; {}: none
  Transition   \* the transitions an input may list

ASSUME ModelAssumption ==
  /\ Resource \subseteq ResourceId
  /\ Starts \in [Resource -> {"absent", "available"}]
  /\ Required \in [Resource -> SUBSET {"consumed", "released", "transferred", "escaped"}]

Certain == {"absent", "available", "consumed", "released", "transferred", "split",
            "escaped", "invalidated"}

\* The state that stands for "absent, or this one".
OrAbsent == [available |-> "absent-or-available", consumed |-> "absent-or-consumed",
             released |-> "absent-or-released", transferred |-> "absent-or-transferred",
             escaped |-> "absent-or-escaped"]

State == Certain \cup {OrAbsent[s] : s \in DOMAIN OrAbsent} \cup {"unknown"}

\* The certain states a recorded state stands for.
Meaning(state) ==
  IF state = "unknown" THEN Certain
  ELSE IF state \in Certain THEN {state}
  ELSE {"absent"} \cup {s \in DOMAIN OrAbsent : OrAbsent[s] = state}

\* What ending operations leave behind.
Ended == [release |-> "released", consume |-> "consumed", transfer |-> "transferred",
          escape |-> "escaped", invalidate |-> "invalidated"]

\* What the front end lists: a subject and further ids, which need not be declared.
ASSUME TransitionAssumption ==
  \A t \in Transition :
    /\ t.kind \in {"acquire", "use", "split", "join"} \cup DOMAIN Ended
    /\ t.resource \in ResourceId
    /\ t.others \in Seq(ResourceId)
    /\ t.kind = "transfer" => Len(t.others) <= 1
    /\ t.unsure \in BOOLEAN

Elements(s) == {s[i] : i \in DOMAIN s}

Involved(t) == {t.resource} \cup Elements(t.others)

-----------------------------------------------------------------------------
\* One transition.  A record holds the state of every declared resource and the
\* ids diagnosed so far; a diagnostic's wording and position are left out.

\* An id the model lists twice is diagnosed at once.
Initially(duplicate) ==
  [states |-> [r \in Resource |-> IF r \in duplicate THEN "unknown" ELSE Starts[r]],
   diagnosed |-> duplicate]

Put(record, r, state) == [record EXCEPT !.states[r] = state]

Invalid(record, r) ==
  [states |-> [record.states EXCEPT ![r] = "unknown"],
   diagnosed |-> record.diagnosed \cup {r}]

\* The first of a list that is in none of the allowed states, or nothing.
FirstNot(s, states, allowed) ==
  LET bad == {i \in DOMAIN s : states[s[i]] \notin allowed}
  IN  {s[i] : i \in {i \in bad : \A j \in bad : i <= j}}

Undeclared(record, t) ==
  [states |-> [r \in Resource |-> IF r \in Involved(t) THEN "unknown" ELSE record.states[r]],
   diagnosed |-> record.diagnosed \cup (Involved(t) \ Resource)]

Acquire(record, t) ==
  IF record.states[t.resource] = "absent" THEN Put(record, t.resource, "available")
  ELSE Invalid(record, t.resource)

Use(record, t) ==
  IF record.states[t.resource] = "available" THEN record ELSE Invalid(record, t.resource)

Split(record, t) ==
  IF record.states[t.resource] # "available" THEN Invalid(record, t.resource)
  ELSE LET occupied == FirstNot(t.others, record.states, {"absent"})
       IN  IF occupied # {} THEN Invalid(record, CHOOSE r \in occupied : TRUE)
           ELSE [record EXCEPT !.states = [r \in Resource |->
                   IF r \in Elements(t.others) THEN "available"
                   ELSE IF r = t.resource THEN "split" ELSE @[r]]]

JoinInto(record, t) ==
  LET unfinished == FirstNot(t.others, record.states, {"consumed", "released", "transferred"})
  IN  IF unfinished # {} THEN Invalid(record, CHOOSE r \in unfinished : TRUE)
      ELSE IF record.states[t.resource] # "absent" THEN Invalid(record, t.resource)
      ELSE Put(record, t.resource, "available")

\* release, consume, transfer, escape, invalidate
End(record, t) ==
  LET state == record.states[t.resource]
      ended == Put(record, t.resource, Ended[t.kind])
  IN  IF state = "absent-or-available" /\ t.kind # "invalidate"
        THEN Put(record, t.resource, OrAbsent[Ended[t.kind]])
      ELSE IF state # "available" THEN Invalid(record, t.resource)
      ELSE IF t.kind = "transfer" /\ t.others # <<>> THEN Put(ended, t.others[1], "available")
      ELSE ended

ApplySure(record, t) ==
  IF ~(Involved(t) \subseteq Resource) THEN Undeclared(record, t)
  ELSE CASE t.kind = "acquire" -> Acquire(record, t)
         [] t.kind = "use" -> Use(record, t)
         [] t.kind = "split" -> Split(record, t)
         [] t.kind = "join" -> JoinInto(record, t)
         [] t.kind \in DOMAIN Ended -> End(record, t)

\* Deliberate fault: an unsure transition is taken for a sure one.
ApplyAsTaken(record, t) == ApplySure(record, t)

\* An unsure transition is joined with the path that did not take it.
Apply(record, t) ==
  LET taken == ApplySure(record, t)
      Doubt(r) ==
        IF r \notin Involved(t) \/ record.states[r] = taken.states[r] THEN taken.states[r]
        ELSE IF t.kind = "acquire" /\ record.states[r] = "absent" /\ taken.states[r] = "available"
          THEN "absent-or-available"
        ELSE "unknown"
  IN  IF t.unsure THEN [taken EXCEPT !.states = [r \in Resource |-> Doubt(r)]] ELSE taken

-----------------------------------------------------------------------------
\* Two paths, and the end of them.

JoinStates(left, right) ==
  IF left = right THEN left
  ELSE IF "unknown" \in {left, right} THEN "unknown"
  ELSE LET both == Meaning(left) \cup Meaning(right)
           fitting == {s \in DOMAIN OrAbsent : both \subseteq {"absent", s}}
       IN  IF fitting = {} THEN "unknown" ELSE OrAbsent[CHOOSE s \in fitting : TRUE]

Obliged == {r \in Resource : Required[r] # {}}

\* Never acquired, or ended as required.
Accepts(r, state) ==
  state # "unknown" /\ state # "absent" /\ Meaning(state) \subseteq {"absent"} \cup Required[r]

\* Deliberate fault: diagnostics of resources without an obligation are ignored.
TerminalOfObliged(record) ==
  IF \E r \in Obliged : record.states[r] = "unknown" THEN "unknown"
  ELSE IF \A r \in Obliged : Accepts(r, record.states[r]) THEN "satisfied" ELSE "unsatisfied"

TerminalStatus(record) ==
  IF record.diagnosed # {} \/ (\E r \in Obliged : record.states[r] = "unknown") THEN "unknown"
  ELSE IF \A r \in Obliged : Accepts(r, record.states[r]) THEN "satisfied" ELSE "unsatisfied"

-----------------------------------------------------------------------------
\* What the recorded states have to describe: one execution of the program, in
\* which every resource is in a certain state and an unsure transition happens
\* or does not.  An operation that ends a resource is skipped when there is
\* nothing to end, as the generated disposal code and optional calls do
\* (docs/resource-protocols.md).

\* An execution is [actual, broken]: the certain state of every resource, and
\* whether an operation was performed that its state does not allow.
Started == [actual |-> Starts, broken |-> FALSE]

Allowed(actual, t) ==
  /\ Involved(t) \subseteq Resource
  /\ CASE t.kind = "acquire" -> actual[t.resource] = "absent"
       [] t.kind = "split" -> /\ actual[t.resource] = "available"
                              /\ \A r \in Elements(t.others) : actual[r] = "absent"
       [] t.kind = "join" -> /\ actual[t.resource] = "absent"
                             /\ \A r \in Elements(t.others) :
                                  actual[r] \in {"consumed", "released", "transferred"}
       [] OTHER -> actual[t.resource] = "available"

\* The resources an operation makes available; what it leaves of its subject.
Made(t) ==
  CASE t.kind \in {"acquire", "join"} -> {t.resource}
    [] t.kind \in {"split", "transfer"} -> Elements(t.others)
    [] OTHER -> {}

Left(actual, t) ==
  IF t.kind = "split" THEN "split"
  ELSE IF t.kind \in DOMAIN Ended THEN Ended[t.kind] ELSE actual[t.resource]

Happened(actual, t) ==
  [r \in Resource |->
    IF r \in Made(t) THEN "available" ELSE IF r = t.resource THEN Left(actual, t) ELSE actual[r]]

\* Nothing was acquired, so there is nothing to end.
Skipped(actual, t) ==
  /\ t.kind \in DOMAIN Ended \ {"invalidate"}
  /\ t.resource \in Resource
  /\ actual[t.resource] = "absent"

Outcomes(execution, t) ==
  LET actual == execution.actual
  IN  (IF t.unsure \/ Skipped(actual, t) THEN {execution} ELSE {})
      \cup (IF Allowed(actual, t) THEN {[execution EXCEPT !.actual = Happened(actual, t)]} ELSE {})
      \cup (IF Allowed(actual, t) \/ Skipped(actual, t) THEN {}
            ELSE {[execution EXCEPT !.broken = TRUE]})

\* No operation was out of order, and every obliged resource was never acquired
\* or has ended as required.
Safe(execution) ==
  /\ ~execution.broken
  /\ \A r \in Obliged : execution.actual[r] \in {"absent"} \cup Required[r]
=============================================================================
