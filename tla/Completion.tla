------------------------------ MODULE Completion ------------------------------
(***************************************************************************)
(* The algebra of completions (src/cfg/completion.ts).  A statement is     *)
(* summarized by the set of ways in which it may complete; a break or a    *)
(* continue keeps its target until the statement that owns it takes it.    *)
(* Two completions are one when kind and target agree, as in               *)
(* completionKey.                                                          *)
(***************************************************************************)

\* A break or continue without a label, and a loop without one.
NoLabel == "none"

NORMAL == [completion |-> "normal", target |-> "none"]
RETURN == [completion |-> "return", target |-> "none"]
THROW == [completion |-> "throw", target |-> "none"]

\* Targets are the name of a label, or one of the two nearest owners.
breakTransferTarget(label) == IF label = NoLabel THEN "nearest-breakable" ELSE label
continueTransferTarget(label) == IF label = NoLabel THEN "nearest-loop" ELSE label

Break(label) == [completion |-> "break", target |-> breakTransferTarget(label)]
Continue(label) == [completion |-> "continue", target |-> continueTransferTarget(label)]

isLoopTransfer(value) == value.completion \in {"break", "continue"}

Abrupt(values) == values \ {NORMAL}

\* The successor counts only if something before it completes normally.
sequenceCompletions(incoming, successor) ==
  Abrupt(incoming) \cup (IF NORMAL \in incoming THEN successor ELSE {})

catchCompletions(incoming, handler) ==
  (incoming \ {THROW}) \cup (IF THROW \in incoming THEN handler ELSE {})

\* Deliberate fault: an abrupt finalizer takes the place of all that came before,
\* although it may also complete normally.
finallyOverrides(incoming, finalizer) ==
  IF Abrupt(finalizer) # {} THEN Abrupt(finalizer) ELSE incoming

\* A finalizer that completes normally keeps what it was entered with.
finallyCompletions(incoming, finalizer) ==
  (IF NORMAL \in finalizer THEN incoming ELSE {}) \cup Abrupt(finalizer)

isTransferOwnedByLoop(value, ownerLabel) ==
  /\ isLoopTransfer(value)
  /\ \/ value.target = "nearest-loop"
     \/ value.completion = "break" /\ value.target = "nearest-breakable"
     \/ ownerLabel # NoLabel /\ value.target = ownerLabel

\* A loop takes its own transfers; a break of its own ends it normally.
consumeLoopCompletions(incoming, ownerLabel) ==
  LET owned == {value \in incoming : isTransferOwnedByLoop(value, ownerLabel)}
  IN (incoming \ owned)
     \cup (IF \E value \in owned : value.completion = "break" THEN {NORMAL} ELSE {})
=============================================================================
