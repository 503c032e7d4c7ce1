---------------------------- MODULE MCFixedPoint ----------------------------
(***************************************************************************)
(* Every graph over three blocks, with five kinds of block, a sufficient   *)
(* and a scarce budget, plus one program per defect the engine rejects.    *)
(* Values are the consistent subsets of three facts, two of which          *)
(* exclude each other, so joins conflict.                                  *)
(***************************************************************************)
EXTENDS FixedPoint

CONSTANTS e, a, b, stray, none

MCBlock == {e, a, b, stray}
Order == <<e, a, b>>

Consistent(v) == ~({"y", "z"} \subseteq v)
MCValue == {{}, {"x"}, {"y"}, {"z"}, {"x", "y"}, {"x", "z"}}
MCJoin(l, r) == IF Consistent(l \cup r) THEN l \cup r ELSE none

\* "pass" forwards its input, "y" and "z" replace the excluded fact, "swap"
\* exchanges x and y, "flip" toggles x and is not monotone.
Apply(op, v) ==
  CASE op = "pass" -> v
    [] op = "y" -> (v \ {"z"}) \cup {"y"}
    [] op = "z" -> (v \ {"y"}) \cup {"z"}
    [] op = "swap" -> {IF f = "x" THEN "y" ELSE "x" : f \in v \ {"z"}}
    [] op = "flip" -> (v \ {"x"}) \cup ({"x"} \ v)

Ops == {"pass", "y", "z", "swap", "flip"}

\* succ[b] lists the positions in Order of b's successors.
MCProgram ==
  [succ : [{e, a, b} -> SUBSET {1, 2, 3}],
   op : {f \in [{e, a, b} -> Ops] : f[e] = "pass" /\ f[a] # "pass" /\ f[b] # "pass"},
   limit : {2, 12}, defect : {"none"}]
  \cup
  [succ : {[x \in {e, a, b} |-> {2, 3}]}, op : {[x \in {e, a, b} |-> "y"]},
   limit : {0, 12},
   defect : {"duplicate block", "missing entry", "missing successor",
             "duplicate edge", "bad span", "undeclared transfer",
             "inadmissible initial value"}]

MCDeclared(p) ==
  CASE p.defect = "duplicate block" -> <<e, a, b, a>>
    [] p.defect = "missing entry" -> <<a, b>>
    [] OTHER -> Order

SuccessorList(p, x) ==
  IF x = stray THEN <<>> ELSE SelectSeq(Order, LAMBDA t : \E i \in p.succ[x] : Order[i] = t)

MCEdges(p, x) ==
  LET plain == [i \in DOMAIN SuccessorList(p, x) |->
                 [to |-> SuccessorList(p, x)[i], label |-> "normal"]]
  IN  CASE p.defect = "missing successor" -> Append(plain, [to |-> stray, label |-> "normal"])
        [] p.defect = "duplicate edge" -> Append(plain, [to |-> a, label |-> "normal"])
        [] p.defect = "bad span" -> Append(plain, [to |-> b, label |-> "reversed"])
        [] OTHER -> plain

MCEntry(p) == e
MCInitial(p) == IF p.defect = "inadmissible initial value" THEN {"y", "z"} ELSE {"x"}
MCLimit(p) == p.limit

MCTransfer(p, x, v) ==
  LET targets == IF p.defect = "undeclared transfer" /\ x = a
                   THEN <<b, e>> ELSE SuccessorList(p, x)
  IN  [i \in DOMAIN targets |-> [to |-> targets[i], value |-> Apply(p.op[x], v)]]
=============================================================================
