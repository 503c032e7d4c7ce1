--------------------------- MODULE ParallelProofs ---------------------------
(***************************************************************************)
(* Proofs about fork/join workflows, for every set of steps and facts and  *)
(* every workflow that satisfies WorkflowAssumption: the configurations    *)
(* keep one thread per branch, a branch that ended blocks its join, they   *)
(* are the threads of ForkJoin, and a verdict covers every interleaving    *)
(* and reports exactly the forks that may never join.                      *)
(***************************************************************************)
EXTENDS ParallelWorkflow, FiniteProofs

\* Owners and parents name a live fork and one of its branches.
ScopeLive(o) ==
  o # NoBranch => o.fork \in ForksOf(activations) /\ o.branch \in NextOf(workflow, o.fork)

\* Every owner owns one token, or is the parent of one activation, or neither.
OwnersDisjoint ==
  /\ \A t, u \in BagToSet(tokens) : t.owner = u.owner => t = u
  /\ \A a, b \in activations : a.fork = b.fork \/ a.parent = b.parent => a = b
  /\ \A t \in BagToSet(tokens), a \in activations : t.owner # a.parent

Single(bag) == \A t \in BagToSet(bag) : bag[t] = 1

\* The inductive invariant of the configurations.
IInv ==
  /\ TypeOK
  /\ IsFiniteSet(activations)
  /\ \A t \in BagToSet(tokens) : ScopeLive(t.owner)
  /\ \A a \in activations : ScopeLive(a.parent)
  /\ Single(tokens)
  /\ OwnersDisjoint

-----------------------------------------------------------------------------
\* Bags in which nothing is repeated.

\* One copy is all there is, so taking it away removes the token.
LEMMA TakeAway ==
  ASSUME NEW bag, Single(bag), NEW t \in BagToSet(bag)
  PROVE  /\ BagToSet(bag (-) One(t)) = BagToSet(bag) \ {t}
         /\ Single(bag (-) One(t))
  BY DEF Single, BagToSet, SetToBag, One, (-)

\* Bags without a common element add up to a bag that repeats nothing.
LEMMA AddApart ==
  ASSUME NEW bag, NEW more, Single(bag), Single(more), BagToSet(bag) \cap BagToSet(more) = {}
  PROVE  /\ BagToSet(bag (+) more) = BagToSet(bag) \cup BagToSet(more)
         /\ Single(bag (+) more)
  BY DEF Single, BagToSet, (+)

\* A set is a bag that repeats nothing.
LEMMA SetsAreSingle ==
  ASSUME NEW set
  PROVE  BagToSet(SetToBag(set)) = set /\ Single(SetToBag(set))
  BY DEF Single, BagToSet, SetToBag

\* Leaving out a set of tokens.
LEMMA LeaveOut ==
  ASSUME NEW bag, Single(bag), NEW set
  PROVE  BagToSet(Without(bag, set)) = BagToSet(bag) \ set /\ Single(Without(bag, set))
  BY DEF Single, BagToSet, Without

-----------------------------------------------------------------------------
\* Scopes and owners.

\* The activation of a live fork is found.
LEMMA ParentFound ==
  ASSUME NEW f \in ForksOf(activations)
  PROVE  \E a \in activations : a.fork = f /\ ParentOf(activations, f) = a.parent
  BY DEF ForksOf, ParentOf

\* The tokens of alternatives: one more token at most, of the same owner.
LEMMA OnwardTokens ==
  ASSUME NEW w, NEW others, Single(others), NEW owner, NEW step,
         \A u \in BagToSet(others) : u.owner # owner,
         NEW bag \in Onward(w, others, owner, step)
  PROVE  /\ Single(bag)
         /\ \/ NextOf(w, step) = {} /\ BagToSet(bag) = BagToSet(others)
            \/ \E to \in NextOf(w, step) :
                 BagToSet(bag) = BagToSet(others) \cup {[step |-> to, owner |-> owner]}
  <1>1. CASE NextOf(w, step) = {}
    BY <1>1 DEF Onward
  <1>2. CASE NextOf(w, step) # {}
    <2>1. PICK to \in NextOf(w, step) : bag = others (+) One([step |-> to, owner |-> owner])
      BY <1>2 DEF Onward
    <2>2. /\ BagToSet(One([step |-> to, owner |-> owner])) = {[step |-> to, owner |-> owner]}
          /\ Single(One([step |-> to, owner |-> owner]))
      BY SetsAreSingle DEF One
    <2>3. QED
      BY <2>1, <2>2, AddApart
  <1>3. QED
    BY <1>1, <1>2

\* The facts stay declared facts.
LEMMA FactsTyped ==
  ASSUME TypeOK, NEW t \in Token, Changed(t)
  PROVE  /\ workflow' \in Workflow
         /\ verdict' \in {"exploring", "invalid-input"}
         /\ facts' \subseteq Fact
  BY WorkflowAssumption DEF TypeOK, Changed, After, Token

\* A token goes on, or its branch ends.
LEMMA ActionKeeps ==
  ASSUME IInv, NEW t \in BagToSet(tokens), ExecuteAction(t)
  PROVE  IInv'
  <1>1. t \in Token
    BY DEF IInv, TypeOK
  <1> DEFINE others == tokens (-) One(t)
  <1>2. BagToSet(others) = BagToSet(tokens) \ {t} /\ Single(others)
    BY TakeAway DEF IInv
  <1>3. \A u \in BagToSet(others) : u.owner # t.owner
    BY <1>2 DEF IInv, OwnersDisjoint
  <1>4. tokens' \in Onward(workflow, others, t.owner, t.step) /\ activations' = activations
    BY DEF ExecuteAction
  <1>5. /\ Single(tokens')
        /\ \/ BagToSet(tokens') = BagToSet(others)
           \/ \E to \in NextOf(workflow, t.step) :
                BagToSet(tokens') = BagToSet(others) \cup {[step |-> to, owner |-> t.owner]}
    <2> HIDE DEF others
    <2>1. /\ Single(tokens')
          /\ \/ NextOf(workflow, t.step) = {} /\ BagToSet(tokens') = BagToSet(others)
             \/ \E to \in NextOf(workflow, t.step) :
                  BagToSet(tokens') = BagToSet(others) \cup {[step |-> to, owner |-> t.owner]}
      BY <1>2, <1>3, <1>4, OnwardTokens
    <2>2. QED
      BY <2>1
  <1> HIDE DEF others
  <1> DEFINE new == BagToSet(tokens') \ BagToSet(others)
  <1>6. /\ BagToSet(tokens') = BagToSet(others) \cup new
        /\ new \subseteq {[step |-> to, owner |-> t.owner] : to \in NextOf(workflow, t.step)}
        /\ \A u, v \in new : u = v
    BY <1>5
  <1> HIDE DEF new
  <1>7. TypeOK'
    <2>1. new \subseteq Token
      BY <1>1, <1>6, WorkflowAssumption DEF IInv, TypeOK, Token
    <2>2. Changed(t)
      BY DEF ExecuteAction
    <2>3. QED
      BY <1>1, <1>2, <1>4, <1>6, <2>1, <2>2, FactsTyped DEF IInv, TypeOK
  <1>8. workflow' = workflow
    BY DEF ExecuteAction, Changed
  <1>9. \A u \in new : u.owner = t.owner
    BY <1>6
  <1>10. QED
    BY <1>2, <1>3, <1>4, <1>5, <1>6, <1>7, <1>8, <1>9 DEF IInv, OwnersDisjoint, ScopeLive

\* A fork that is not live starts scopes nobody else is in.
LEMMA ForkKeeps ==
  ASSUME IInv, NEW t \in BagToSet(tokens), ExecuteFork(t)
  PROVE  IInv'
  <1>1. t \in Token
    BY DEF IInv, TypeOK
  <1> DEFINE others == tokens (-) One(t)
             new == {[step |-> b, owner |-> [fork |-> t.step, branch |-> b]] :
                       b \in NextOf(workflow, t.step)}
             mine == [fork |-> t.step, parent |-> t.owner]
  <1>2. BagToSet(others) = BagToSet(tokens) \ {t} /\ Single(others)
    BY TakeAway DEF IInv
  <1>3. BagToSet(Branches(workflow, t)) = new /\ Single(Branches(workflow, t))
    BY SetsAreSingle DEF Branches
  <1>4. t.step \notin ForksOf(activations)
    BY DEF ExecuteFork, Exploring, Rejected, Reentered
  <1>5. \A u \in new : /\ u.owner.fork = t.step /\ u.owner # NoBranch
                       /\ u.owner \in Branch /\ u.step \in Step
                       /\ u.owner.branch = u.step /\ u.step \in NextOf(workflow, t.step)
                       /\ u \in Token
    BY <1>1, WorkflowAssumption DEF IInv, TypeOK, Token, Branch, Owner
  <1>6. \A u, v \in new : u.owner = v.owner => u = v
    OBVIOUS
  <1>7. \A o : ScopeLive(o) /\ o # NoBranch => o.fork # t.step
    BY <1>4 DEF ScopeLive
  <1>8. /\ \A u \in BagToSet(tokens), v \in new : u.owner # v.owner
        /\ \A a \in activations, v \in new : a.parent # v.owner
    <2> HIDE DEF new
    <2>1. QED
      BY <1>5, <1>7 DEF IInv
  <1>9. BagToSet(tokens') = BagToSet(others) \cup new /\ Single(tokens')
    <2>1. BagToSet(others) \cap new = {}
      BY <1>2, <1>8
    <2>2. tokens' = others (+) Branches(workflow, t)
      BY DEF ExecuteFork
    <2> HIDE DEF others, new
    <2>3. QED
      BY <1>2, <1>3, <2>1, <2>2, AddApart
  <1>10. activations' = activations \cup {mine} /\ workflow' = workflow
    BY DEF ExecuteFork, Changed
  <1>11. t.owner # NoBranch => t.owner.fork \in ForksOf(activations)
                               /\ t.owner.branch \in NextOf(workflow, t.owner.fork)
    BY DEF IInv, ScopeLive
  <1>12. TypeOK'
    <2>1. mine \in Activation
      BY <1>1 DEF Token, Activation
    <2>2. Changed(t)
      BY DEF ExecuteFork
    <2> HIDE DEF mine, others, new
    <2>3. QED
      BY <1>1, <1>2, <1>5, <1>9, <1>10, <2>1, <2>2, FactsTyped DEF IInv, TypeOK
  <1>13. IsFiniteSet(activations')
    BY <1>10, FS_AddElement DEF IInv
  <1>14. mine.fork = t.step /\ mine.parent = t.owner
    OBVIOUS
  <1>15. ForksOf(activations') = ForksOf(activations) \cup {t.step}
    BY <1>10, <1>14 DEF ForksOf
  <1> HIDE DEF others, new, mine
  <1>16. \A u \in BagToSet(tokens') : ScopeLive(u.owner)'
    BY <1>2, <1>5, <1>9, <1>10, <1>15 DEF IInv, ScopeLive
  <1>17. \A a \in activations' : ScopeLive(a.parent)'
    BY <1>10, <1>11, <1>14, <1>15 DEF IInv, ScopeLive
  <1>18. OwnersDisjoint'
    <2>1. \A u, v \in BagToSet(tokens') : u.owner = v.owner => u = v
      BY <1>2, <1>6, <1>8, <1>9 DEF IInv, OwnersDisjoint
    <2>2. \A a, b \in activations' : a.fork = b.fork \/ a.parent = b.parent => a = b
      <3>1. \A a \in activations : a.fork # t.step /\ a.parent # t.owner
        BY <1>4 DEF IInv, OwnersDisjoint, ForksOf
      <3>2. QED
        BY <1>10, <1>14, <3>1 DEF IInv, OwnersDisjoint
    <2>3. \A u \in BagToSet(tokens'), a \in activations' : u.owner # a.parent
      <3>1. \A u \in BagToSet(others) : u.owner # t.owner
        BY <1>2 DEF IInv, OwnersDisjoint
      <3>2. \A u \in new : u.owner # t.owner
        BY <1>8
      <3>3. QED
        BY <1>2, <1>8, <1>9, <1>10, <1>14, <3>1, <3>2 DEF IInv, OwnersDisjoint
    <2>4. QED
      BY <2>1, <2>2, <2>3 DEF OwnersDisjoint
  <1>19. QED
    BY <1>9, <1>12, <1>13, <1>16, <1>17, <1>18 DEF IInv

\* When a join is ready, every token of its fork's branches waits at it, and no
\* fork runs inside one of them.
LEMMA ReadyTakesAll ==
  ASSUME IInv, NEW t \in BagToSet(tokens), Ready(workflow, tokens, t)
  PROVE  /\ \A u \in BagToSet(tokens) :
              u.owner # NoBranch /\ u.owner.fork = ForkOf(workflow, t) => u \in AtJoin(workflow, tokens, t)
         /\ \A a \in activations : a.parent # NoBranch => a.parent.fork # ForkOf(workflow, t)
  <1> DEFINE f == ForkOf(workflow, t)
             arrived == AtJoin(workflow, tokens, t)
  <1>1. \A u \in arrived : /\ u \in BagToSet(tokens) /\ u.owner # NoBranch
                           /\ u.owner \in Branch /\ u.owner.fork = f
    BY DEF IInv, TypeOK, Token, Owner, AtJoin, OwnerFork
  <1>2. \A b \in NextOf(workflow, f) : \E u \in arrived : u.owner.branch = b
    BY DEF Ready, Arrived
  <1> HIDE DEF f, arrived
  <1>3. ASSUME NEW o \in Branch, o.fork = f, o.branch \in NextOf(workflow, f)
        PROVE  \E u \in arrived : u.owner = o
    BY <1>1, <1>2, <1>3 DEF Branch
  <1>4. ASSUME NEW u \in BagToSet(tokens), u.owner # NoBranch, u.owner.fork = f
        PROVE  u \in arrived
    <2>1. u.owner \in Branch /\ u.owner.branch \in NextOf(workflow, f)
      BY <1>4 DEF IInv, TypeOK, Token, Owner, ScopeLive
    <2>2. PICK v \in arrived : v.owner = u.owner
      BY <1>3, <1>4, <2>1
    <2>3. QED
      BY <1>1, <2>2 DEF IInv, OwnersDisjoint
  <1>5. ASSUME NEW a \in activations, a.parent # NoBranch
        PROVE  a.parent.fork # f
    <2>1. SUFFICES ASSUME a.parent.fork = f PROVE FALSE
      OBVIOUS
    <2>2. a.parent \in Branch /\ a.parent.branch \in NextOf(workflow, f)
      BY <1>5, <2>1 DEF IInv, TypeOK, Activation, Owner, ScopeLive
    <2>3. PICK v \in arrived : v.owner = a.parent
      BY <1>3, <2>1, <2>2
    <2>4. QED
      BY <1>1, <2>3 DEF IInv, OwnersDisjoint
  <1>6. QED
    BY <1>4, <1>5 DEF f, arrived

\* A join replaces the threads of its fork's branches by the one that forked.
LEMMA JoinKeeps ==
  ASSUME IInv, NEW t \in BagToSet(tokens), ExecuteJoin(t)
  PROVE  IInv'
  <1>1. t \in Token
    BY DEF IInv, TypeOK
  <1> DEFINE f == ForkOf(workflow, t)
             gone == AtJoin(workflow, tokens, t)
             others == Without(tokens, gone)
             owner == ParentOf(activations, f)
  <1>2. /\ Ready(workflow, tokens, t) /\ Changed(t) /\ workflow' = workflow
        /\ tokens' \in Onward(workflow, others, owner, t.step)
        /\ activations' = {a \in activations : a.fork # f}
    BY DEF ExecuteJoin, Changed
  <1>3. f \in ForksOf(activations) /\ f \in OwnerFork(t.owner)
    BY <1>2 DEF ExecuteJoin, Exploring, Rejected, Unscoped, Ready
  <1>4. PICK mine \in activations : mine.fork = f /\ owner = mine.parent
    BY <1>3, ParentFound
  <1>5. BagToSet(others) = BagToSet(tokens) \ gone /\ Single(others)
    BY LeaveOut DEF IInv
  <1>6. /\ \A u \in BagToSet(others) : u.owner # NoBranch => u.owner.fork # f
        /\ \A a \in activations : a.parent # NoBranch => a.parent.fork # f
    BY <1>2, <1>5, ReadyTakesAll
  <1> HIDE DEF f, gone, others, owner
  <1>7. \A u \in BagToSet(others) : u.owner # owner
    BY <1>4, <1>5 DEF IInv, OwnersDisjoint
  <1>8. /\ Single(tokens')
        /\ \/ BagToSet(tokens') = BagToSet(others)
           \/ \E to \in NextOf(workflow, t.step) :
                BagToSet(tokens') = BagToSet(others) \cup {[step |-> to, owner |-> owner]}
    BY <1>2, <1>5, <1>7, OnwardTokens
  <1> DEFINE new == BagToSet(tokens') \ BagToSet(others)
  <1>9. /\ BagToSet(tokens') = BagToSet(others) \cup new
        /\ new \subseteq {[step |-> to, owner |-> owner] : to \in NextOf(workflow, t.step)}
        /\ \A u, v \in new : u = v
    BY <1>8
  <1> HIDE DEF new
  <1>10. \A u \in new : u.owner = owner
    BY <1>9
  <1>11. owner \in Owner
    BY <1>4 DEF IInv, TypeOK, Activation
  <1>12. TypeOK'
    <2>1. new \subseteq Token
      BY <1>1, <1>9, <1>11, WorkflowAssumption DEF IInv, TypeOK, Token
    <2>2. QED
      BY <1>1, <1>2, <1>5, <1>9, <2>1, FactsTyped DEF IInv, TypeOK
  <1>13. IsFiniteSet(activations')
    <2>1. activations' \in SUBSET activations
      BY <1>2
    <2>2. QED
      BY <2>1, FS_Subset DEF IInv
  <1>14. ForksOf(activations') = ForksOf(activations) \ {f}
    BY <1>2 DEF ForksOf
  <1>15. \A u \in BagToSet(tokens') : ScopeLive(u.owner)'
    BY <1>2, <1>4, <1>5, <1>6, <1>9, <1>10, <1>14 DEF IInv, ScopeLive
  <1>16. \A a \in activations' : ScopeLive(a.parent)'
    BY <1>2, <1>6, <1>14 DEF IInv, ScopeLive
  <1>17. OwnersDisjoint'
    <2>1. \A a \in activations' : a \in activations /\ a.parent # owner
      BY <1>2, <1>4 DEF IInv, OwnersDisjoint
    <2>2. QED
      BY <1>5, <1>7, <1>9, <1>10, <2>1 DEF IInv, OwnersDisjoint
  <1>18. QED
    BY <1>8, <1>12, <1>13, <1>15, <1>16, <1>17 DEF IInv

\* Every action keeps the invariant.
LEMMA Invariance == Spec => []IInv
  <1>1. Init => IInv
    <2> SUFFICES ASSUME Init PROVE IInv
      OBVIOUS
    <2>1. BagToSet(tokens) = {[step |-> Entry(workflow), owner |-> NoBranch]} /\ Single(tokens)
      BY SetsAreSingle DEF Init
    <2>2. TypeOK
      <3>1. Entry(workflow) \in Step /\ Initial(workflow) \subseteq Fact
        BY WorkflowAssumption DEF Init
      <3>2. QED
        BY <2>1, <3>1 DEF Init, TypeOK, Token, Owner
    <2>3. QED
      BY <2>1, <2>2, FS_EmptySet DEF Init, IInv, OwnersDisjoint, ScopeLive
  <1>2. IInv /\ [Next]_vars => IInv'
    <2> SUFFICES ASSUME IInv, [Next]_vars PROVE IInv'
      OBVIOUS
    <2>1. CASE Reject \/ UNCHANGED vars
      BY <2>1 DEF Reject, vars, IInv, TypeOK, OwnersDisjoint, ScopeLive
    <2>2. CASE \E t \in BagToSet(tokens) : ExecuteAction(t) \/ ExecuteFork(t) \/ ExecuteJoin(t)
      BY <2>2, ActionKeeps, ForkKeeps, JoinKeeps
    <2>3. QED
      BY <2>1, <2>2 DEF Next
  <1>3. QED
    BY <1>1, <1>2, PTL DEF Spec

\* The configurations have their types, whatever the steps of the workflow do.
THEOREM TypeCorrect == Spec => []TypeOK
  <1>1. IInv => TypeOK
    BY DEF IInv
  <1>2. QED
    BY <1>1, Invariance, PTL
-----------------------------------------------------------------------------
\* Counting threads.

\* Counting a bag that is empty, or holds one thing once.
LEMMA CountNone ==
  ASSUME NEW bag, DOMAIN bag = {}
  PROVE  BagCardinality(bag) = 0
  <1> DEFINE Is(g) == g = [S \in SUBSET DOMAIN bag |->
                 IF S = {} THEN 0
                 ELSE bag[CHOOSE e \in S : TRUE] + g[S \ {CHOOSE e \in S : TRUE}]]
             sum == CHOOSE g : Is(g)
             zero == [S \in {{}} |-> 0]
  <1>1. BagCardinality(bag) = sum[DOMAIN bag]
    BY DEF BagCardinality
  <1>2. Is(zero)
    OBVIOUS
  <1>3. Is(sum)
    BY <1>2
  <1>4. QED
    BY <1>1, <1>3

\* The sum over the one thing and the empty rest.
LEMMA CountOne ==
  ASSUME NEW bag, NEW t, DOMAIN bag = {t}, bag[t] = 1
  PROVE  BagCardinality(bag) = 1
  <1> DEFINE Is(g) == g = [S \in SUBSET DOMAIN bag |->
                 IF S = {} THEN 0
                 ELSE bag[CHOOSE e \in S : TRUE] + g[S \ {CHOOSE e \in S : TRUE}]]
             sum == CHOOSE g : Is(g)
             sums == [S \in {{}, {t}} |-> IF S = {} THEN 0 ELSE 1]
  <1>1. BagCardinality(bag) = sum[DOMAIN bag]
    BY DEF BagCardinality
  <1>2. Is(sums)
    OBVIOUS
  <1>3. Is(sum)
    BY <1>2
  <1>4. (CHOOSE e \in {t} : TRUE) = t
    OBVIOUS
  <1>5. sum[{}] = 0
    BY <1>3
  <1>6. sum[{t}] = bag[t] + sum[{}]
    <2>1. {t} \ {t} = {} /\ {t} # {} /\ {t} \in SUBSET DOMAIN bag
      OBVIOUS
    <2>2. QED
      BY <1>3, <1>4, <2>1
  <1>7. QED
    BY <1>1, <1>5, <1>6

\* The threads of a branch: its token, or the fork it is inside of, or none.
LEMMA ThreadsCounted ==
  ASSUME IInv, NEW o
  PROVE  /\ ThreadsIn(o) <= 1
         /\ (\E t \in BagToSet(tokens) : t.owner = o) => ThreadsIn(o) = 1
  <1> DEFINE own == {u \in BagToSet(tokens) : u.owner = o}
             bag == [t \in own |-> tokens[t]]
             inside == {a \in activations : a.parent = o}
  <1>1. ThreadsIn(o) = BagCardinality(bag) + Cardinality(inside)
    BY DEF ThreadsIn
  <1>2. \A t, u \in own : t = u
    BY DEF IInv, OwnersDisjoint
  <1>3. \A a, b \in inside : a = b
    BY DEF IInv, OwnersDisjoint
  <1>4. own = {} \/ inside = {}
    BY DEF IInv, OwnersDisjoint
  <1>5. Cardinality(inside) = IF inside = {} THEN 0 ELSE 1
    <2>1. CASE inside = {}
      BY <2>1, FS_EmptySet
    <2>2. ASSUME NEW a \in inside PROVE Cardinality(inside) = 1
      <3>1. inside = {a}
        BY <1>3
      <3> HIDE DEF inside
      <3>2. QED
        BY <3>1, FS_Singleton
    <2>3. QED
      BY <2>1, <2>2
  <1>6. BagCardinality(bag) = IF own = {} THEN 0 ELSE 1
    <2>1. CASE own = {}
      <3>1. DOMAIN bag = {}
        BY <2>1
      <3> HIDE DEF bag
      <3>2. QED
        BY <2>1, <3>1, CountNone
    <2>2. ASSUME NEW t \in own PROVE BagCardinality(bag) = 1
      <3>1. DOMAIN bag = {t} /\ bag[t] = 1
        BY <1>2 DEF IInv, Single
      <3> HIDE DEF bag
      <3>2. QED
        BY <3>1, CountOne
    <2>3. QED
      BY <2>1, <2>2
  <1> HIDE DEF bag, inside
  <1>7. QED
    BY <1>1, <1>4, <1>5, <1>6

\* Different activations are activations of different forks.
LEMMA ForksCounted ==
  ASSUME IInv
  PROVE  Cardinality(activations) = Cardinality(ForksOf(activations))
  <1> DEFINE fork == [a \in activations |-> a.fork]
  <1>1. fork \in Bijection(activations, ForksOf(activations))
    <2>1. fork \in [activations -> ForksOf(activations)]
      BY DEF ForksOf
    <2>2. \A a, b \in activations : fork[a] = fork[b] => a = b
      BY DEF IInv, OwnersDisjoint
    <2>3. \A f \in ForksOf(activations) : \E a \in activations : fork[a] = f
      BY DEF ForksOf
    <2> HIDE DEF fork
    <2>4. QED
      BY <2>1, <2>2, <2>3 DEF Bijection, Injection, Surjection, IsInjective
  <1> HIDE DEF fork
  <1>2. ExistsBijection(activations, ForksOf(activations))
    BY <1>1 DEF ExistsBijection
  <1>3. QED
    BY <1>2, FS_Bijection DEF IInv

\* In every configuration of every workflow, a branch is one thread: no arrival
\* is counted twice and no join leaves a token of its branches behind.
THEOREM BranchesAreThreads == Spec => []OneThreadPerBranch
  <1>1. IInv => OneThreadPerBranch
    BY ThreadsCounted, ForksCounted DEF OneThreadPerBranch
  <1>2. QED
    BY <1>1, Invariance, PTL

\* The activation of a fork one of whose branches has ended stays, whatever step
\* is executed.
LEMMA ActivationStays ==
  ASSUME IInv, [Next]_vars, NEW f \in ForksOf(activations),
         NEW b \in NextOf(workflow, f), ThreadsIn([fork |-> f, branch |-> b]) = 0
  PROVE  \E a \in activations' : a.fork = f
  <1>1. PICK mine \in activations : mine.fork = f
    BY DEF ForksOf
  <1>2. SUFFICES mine \in activations'
    BY <1>1
  <1>3. CASE Reject \/ UNCHANGED vars
    BY <1>3 DEF Reject, vars
  <1>4. ASSUME NEW t \in BagToSet(tokens), ExecuteAction(t) \/ ExecuteFork(t)
        PROVE  mine \in activations'
    BY <1>4 DEF ExecuteAction, ExecuteFork
  <1>5. ASSUME NEW t \in BagToSet(tokens), ExecuteJoin(t)
        PROVE  mine \in activations'
    <2>1. SUFFICES ASSUME ForkOf(workflow, t) = f PROVE FALSE
      BY <1>1, <1>5 DEF ExecuteJoin
    <2>2. PICK u \in AtJoin(workflow, tokens, t) : u.owner.branch = b
      BY <1>5, <2>1 DEF ExecuteJoin, Ready, Arrived
    <2>3. u \in BagToSet(tokens) /\ u.owner = [fork |-> f, branch |-> b]
      BY <2>1, <2>2 DEF IInv, TypeOK, Token, Owner, Branch, AtJoin, OwnerFork
    <2>4. ThreadsIn(u.owner) = 1
      BY <2>3, ThreadsCounted
    <2>5. QED
      BY <2>3, <2>4
  <1>6. QED
    BY <1>3, <1>4, <1>5 DEF Next

\* No step of any workflow turns a branch that ended into an arrival.
THEOREM EndedBranchesBlock == Spec => EndedBranchBlocksItsJoin
  <1>1. IInv /\ [Next]_vars =>
          [\A f \in ForksOf(activations) :
             (\E b \in NextOf(workflow, f) : ThreadsIn([fork |-> f, branch |-> b]) = 0)
               => \E a \in activations' : a.fork = f]_vars
    BY ActivationStays
  <1>2. QED
    BY <1>1, Invariance, PTL DEF Spec, EndedBranchBlocksItsJoin
-----------------------------------------------------------------------------
\* Paths.

\* In every set of activations there is one whose parent is outside of the set: no
\* activation is its own ancestor.
Forest(active) ==
  \A set \in SUBSET active :
    set # {} => \E a \in set : OwnerFork(a.parent) \cap ForksOf(set) = {}

\* What makes paths of owners unique.
Nested(active) ==
  /\ active \subseteq Activation
  /\ IsFiniteSet(active)
  /\ \A a, b \in active : a.fork = b.fork => a = b
  /\ \A a \in active : OwnerFork(a.parent) \subseteq ForksOf(active)
  /\ Forest(active)

\* The owners whose fork is live, and null.
Scopes(active) == {o \in Owner : OwnerFork(o) \subseteq ForksOf(active)}

\* The parent of a scope is a scope.
LEMMA ParentIsScope ==
  ASSUME NEW active, Nested(active), NEW a \in active
  PROVE  /\ ParentOf(active, a.fork) = a.parent
         /\ a.parent \in Scopes(active)
         /\ a.fork \in ForksOf(active)
  <1>1. \E b \in active : b.fork = a.fork
    OBVIOUS
  <1>2. (CHOOSE b \in active : b.fork = a.fork) = a
    BY <1>1 DEF Nested
  <1>3. a.parent \in Owner
    BY DEF Nested, Activation
  <1>4. QED
    BY <1>2, <1>3 DEF ParentOf, Scopes, Nested, ForksOf

\* A scope is null or a branch of a live fork.
LEMMA ScopeCases ==
  ASSUME NEW active, NEW o \in Owner
  PROVE  /\ o = NoBranch => OwnerFork(o) = {} /\ o \in Scopes(active)
         /\ o # NoBranch => o \in Branch /\ OwnerFork(o) = {o.fork}
         /\ o # NoBranch /\ o \in Scopes(active) => \E a \in active : a.fork = o.fork
  BY DEF OwnerFork, Scopes, Owner, ForksOf

\* One more step of every path.
LEMMA PathsStep ==
  ASSUME NEW active, Nested(active)
  PROVE  LET r == Paths(active)
             longer(h) == [o \in Owner |->
                            IF OwnerFork(o) \cap ForksOf(active) = {} THEN <<>>
                            ELSE Append(h[ParentOf(active, o.fork)], o)]
         IN  /\ r[0] = [o \in Owner |-> <<>>]
             /\ \A n \in Nat : r[n] \in [Owner -> Seq(Branch)] /\ r[n + 1] = longer(r[n])
  <1> DEFINE longer(h) == [o \in Owner |->
                            IF OwnerFork(o) \cap ForksOf(active) = {} THEN <<>>
                            ELSE Append(h[ParentOf(active, o.fork)], o)]
             S == [Owner -> Seq(Branch)]
             start == [o \in Owner |-> <<>>]
             g == [h \in S |-> longer(h)]
             body(f, n) == [o \in Owner |->
                             IF n = 0 \/ OwnerFork(o) \cap ForksOf(active) = {} THEN <<>>
                             ELSE Append(f[n - 1][ParentOf(active, o.fork)], o)]
             Recursive(f) == f = [n \in Nat |-> body(f, n)]
  <1>1. \A h \in S : longer(h) \in S
    <2>1. ASSUME NEW h \in S, NEW o \in Owner, OwnerFork(o) \cap ForksOf(active) # {}
          PROVE  Append(h[ParentOf(active, o.fork)], o) \in Seq(Branch)
      <3>1. o \in Branch /\ o.fork \in ForksOf(active)
        BY <2>1 DEF OwnerFork, Owner
      <3>2. PICK a \in active : a.fork = o.fork
        BY <3>1 DEF ForksOf
      <3>3. ParentOf(active, o.fork) \in Owner
        BY <3>2, ParentIsScope DEF Scopes
      <3>4. h[ParentOf(active, o.fork)] \in Seq(Branch)
        BY <3>3
      <3>5. QED
        BY <3>1, <3>4
    <2>2. <<>> \in Seq(Branch)
      OBVIOUS
    <2>3. QED
      BY <2>1, <2>2
  <1>2. start \in S
    OBVIOUS
  <1>3. \A f : body(f, 0) = start
    OBVIOUS
  <1>4. \A f : \A n \in Nat : n # 0 => body(f, n) = longer(f[n - 1])
    OBVIOUS
  <1> HIDE DEF longer, start, body
  <1>5. g \in [S -> S] /\ \A h \in S : g[h] = longer(h)
    BY <1>1
  <1> HIDE DEF S, g
  <1>6. PICK f \in [Nat -> S] : f[0] = start /\ \A n \in Nat : f[n + 1] = g[f[n]]
    <2>1. start \in S /\ g \in [S -> S]
      BY <1>2, <1>5
    <2>2. \E f \in [Nat -> S] : f[0] = start /\ \A n \in Nat : f[n + 1] = g[f[n]]
      BY <2>1, Iterates, Z3
    <2>3. QED
      BY <2>2
  <1>7. Recursive(f)
    <2>1. ASSUME NEW n \in Nat, n # 0 PROVE f[n] = longer(f[n - 1])
      <3>1. n - 1 \in Nat /\ (n - 1) + 1 = n
        BY <2>1
      <3>2. f[(n - 1) + 1] = g[f[n - 1]] /\ f[n - 1] \in S
        BY <1>6, <3>1
      <3>3. QED
        BY <1>5, <3>1, <3>2
    <2> DEFINE h == [n \in Nat |-> body(f, n)]
    <2>2. \A n \in Nat : f[n] = h[n]
      BY <1>3, <1>4, <1>6, <2>1
    <2>3. f = h
      <3>1. DOMAIN h = Nat /\ h = [n \in Nat |-> h[n]] /\ f = [n \in Nat |-> f[n]]
        BY <1>6
      <3> HIDE DEF h
      <3>2. QED
        BY <2>2, <3>1
    <2>4. QED
      BY <2>3
  <1> DEFINE r == Paths(active)
  <1>8. r = CHOOSE x : Recursive(x)
    BY DEF Paths, body
  <1> HIDE DEF r
  <1>9. Recursive(r)
    <2> HIDE DEF Recursive
    <2>1. QED
      BY <1>7, <1>8
  <1>10. r[0] = start
    BY <1>3, <1>9
  <1>11. ASSUME NEW n \in Nat PROVE r[n + 1] = longer(r[n])
    <2>1. n + 1 \in Nat /\ n + 1 # 0 /\ (n + 1) - 1 = n
      OBVIOUS
    <2>2. r[n + 1] = body(r, n + 1)
      BY <1>9, <2>1
    <2>3. QED
      BY <1>4, <2>1, <2>2
  <1>12. \A n \in Nat : r[n] \in S
    <2> DEFINE T == {n \in Nat : r[n] \notin S}
    <2>1. SUFFICES ASSUME T # {} PROVE FALSE
      OBVIOUS
    <2>2. PICK n \in T : \A m \in T : n <= m
      <3>1. T \in SUBSET Nat
        OBVIOUS
      <3> HIDE DEF T
      <3>2. QED
        BY <2>1, <3>1, LeastNat
    <2>3. n # 0
      BY <1>2, <1>10, <2>2
    <2>4. n - 1 \in Nat /\ (n - 1) + 1 = n /\ n - 1 \notin T
      BY <2>2, <2>3
    <2>5. r[n - 1] \in S /\ r[(n - 1) + 1] = longer(r[n - 1])
      BY <1>11, <2>4
    <2>6. QED
      BY <1>1, <2>2, <2>4, <2>5
  <1>13. QED
    BY <1>10, <1>11, <1>12 DEF longer, start, r, S

\* The activations found from the outermost scope inwards, level by level, are all.
LEMMA LevelsReachAll ==
  ASSUME NEW active, Nested(active)
  PROVE  \E k \in [Nat -> SUBSET active] :
           /\ k[0] = {} /\ k[Cardinality(active)] = active
           /\ \A n \in Nat : \A a \in k[n + 1] : OwnerFork(a.parent) \subseteq ForksOf(k[n])
  <1> DEFINE deeper(x) == {a \in active : OwnerFork(a.parent) \subseteq ForksOf(x)}
             U == SUBSET active
             g == [x \in U |-> x \cup deeper(x)]
             closed == {x \in U : \A a \in x : OwnerFork(a.parent) \subseteq ForksOf(x)}
  <1>1. {} \in U /\ g \in [U -> U] /\ \A x \in U : g[x] = x \cup deeper(x)
    OBVIOUS
  <1> HIDE DEF g, deeper
  <1>2. PICK f \in [Nat -> U] : f[0] = {} /\ \A n \in Nat : f[n + 1] = g[f[n]]
    <2> DEFINE start == {}
    <2>1. start \in U /\ g \in [U -> U]
      BY <1>1
    <2> HIDE DEF U, start
    <2>2. \E f \in [Nat -> U] : f[0] = start /\ \A n \in Nat : f[n + 1] = g[f[n]]
      BY <2>1, Iterates, Z3
    <2>3. QED
      BY <2>2 DEF start
  <1> DEFINE N == Cardinality(active)
  <1>3. g[f[N]] = f[N]
    <2>1. /\ g \in [SUBSET active -> SUBSET active] /\ IsFiniteSet(active)
          /\ \A x \in SUBSET active : x \subseteq g[x]
          /\ f \in [Nat -> SUBSET active] /\ \A n \in Nat : f[n + 1] = g[f[n]]
      BY <1>1, <1>2 DEF Nested
    <2>2. QED
      BY <2>1, GrowthEnds
  <1>4. N \in Nat
    BY FS_CardinalityType DEF Nested
  <1> HIDE DEF N
  <1>5. f[N] \subseteq active
    BY <1>2, <1>4
  <1>6. f[N] = active
    <2> DEFINE rest == active \ f[N]
    <2>1. SUFFICES ASSUME rest # {} PROVE FALSE
      BY <1>5
    <2>2. PICK a \in rest : OwnerFork(a.parent) \cap ForksOf(rest) = {}
      BY <2>1 DEF Nested, Forest
    <2>3. OwnerFork(a.parent) \subseteq ForksOf(active)
      BY <2>2 DEF Nested
    <2>4. OwnerFork(a.parent) \subseteq ForksOf(f[N])
      BY <2>2, <2>3 DEF ForksOf
    <2>5. a \in deeper(f[N])
      BY <2>2, <2>4 DEF deeper
    <2>6. QED
      BY <1>1, <1>3, <1>5, <2>2, <2>5
  <1>7. ASSUME NEW n \in Nat
        PROVE  f[n] \subseteq f[n + 1] /\ f[n + 1] = f[n] \cup deeper(f[n])
    BY <1>1, <1>2
  <1>8. \A n \in Nat : f[n] \in closed
    <2> DEFINE T == {n \in Nat : f[n] \notin closed}
    <2>1. SUFFICES ASSUME T # {} PROVE FALSE
      OBVIOUS
    <2>2. PICK n \in T : \A m \in T : n <= m
      <3>1. T \in SUBSET Nat
        OBVIOUS
      <3> HIDE DEF T
      <3>2. QED
        BY <2>1, <3>1, LeastNat
    <2>3. n # 0
      BY <1>2, <2>2
    <2>4. n - 1 \in Nat /\ (n - 1) + 1 = n /\ n - 1 \notin T
      BY <2>2, <2>3
    <2>5. f[n - 1] \in closed /\ f[n - 1] \subseteq f[n] /\ f[n] = f[n - 1] \cup deeper(f[n - 1])
      BY <1>7, <2>4
    <2>6. f[n] \in closed
      BY <1>2, <2>2, <2>5 DEF deeper, ForksOf
    <2>7. QED
      BY <2>2, <2>6
  <1>9. ASSUME NEW n \in Nat, NEW a \in f[n + 1]
        PROVE  OwnerFork(a.parent) \subseteq ForksOf(f[n])
    <2>1. CASE a \in f[n]
      BY <1>8, <2>1
    <2>2. CASE a \in deeper(f[n])
      BY <2>2 DEF deeper
    <2>3. QED
      BY <1>7, <1>9, <2>1, <2>2
  <1>10. QED
    BY <1>2, <1>6, <1>9 DEF N

\* The path of a branch is the path of the scope its fork was started in, and the branch.
LEMMA PathLaw ==
  ASSUME NEW active, Nested(active)
  PROVE  /\ \A o \in Owner : PathIn(active, o) \in Seq(Branch)
         /\ PathIn(active, NoBranch) = <<>>
         /\ \A o \in Scopes(active) :
              o # NoBranch => PathIn(active, o) = Append(PathIn(active, ParentOf(active, o.fork)), o)
  <1> DEFINE r == Paths(active)
             N == Cardinality(active)
             longer(h) == [o \in Owner |->
                            IF OwnerFork(o) \cap ForksOf(active) = {} THEN <<>>
                            ELSE Append(h[ParentOf(active, o.fork)], o)]
  <1>1. /\ r[0] = [o \in Owner |-> <<>>]
        /\ \A n \in Nat : r[n] \in [Owner -> Seq(Branch)] /\ r[n + 1] = longer(r[n])
    BY PathsStep
  <1>2. N \in Nat
    BY FS_CardinalityType DEF Nested
  <1>3. PICK k \in [Nat -> SUBSET active] :
           /\ k[0] = {} /\ k[N] = active
           /\ \A n \in Nat : \A a \in k[n + 1] : OwnerFork(a.parent) \subseteq ForksOf(k[n])
    BY LevelsReachAll
  <1>4. \A o \in Owner : PathIn(active, o) = r[N][o]
    BY DEF PathIn
  <1> HIDE DEF N, r
  <1>5. NoBranch \in Owner /\ OwnerFork(NoBranch) = {}
    BY DEF Owner, OwnerFork
  <1>6. \A n \in Nat : r[n][NoBranch] = <<>>
    <2>1. r[0][NoBranch] = <<>>
      BY <1>1, <1>5
    <2>2. ASSUME NEW n \in Nat PROVE r[n + 1][NoBranch] = <<>>
      BY <1>1, <1>5
    <2>3. ASSUME NEW n \in Nat, n # 0 PROVE n - 1 \in Nat /\ (n - 1) + 1 = n
      BY <2>3
    <2> HIDE DEF longer
    <2>4. QED
      BY <2>1, <2>2, <2>3
  <1>7. ASSUME NEW n \in Nat, NEW o \in Owner, OwnerFork(o) \subseteq ForksOf(active), o # NoBranch
        PROVE  r[n + 1][o] = Append(r[n][ParentOf(active, o.fork)], o)
    <2>1. OwnerFork(o) \cap ForksOf(active) # {}
      BY <1>7, ScopeCases
    <2>2. QED
      BY <1>1, <2>1
  <1> HIDE DEF longer
  <1> DEFINE Stable(n) == \A o \in Owner : OwnerFork(o) \subseteq ForksOf(k[n]) => r[n + 1][o] = r[n][o]
  <1>8. \A n \in Nat : Stable(n)
    <2> DEFINE T == {n \in Nat : ~Stable(n)}
    <2>1. SUFFICES ASSUME T # {} PROVE FALSE
      OBVIOUS
    <2>2. PICK n \in T : \A m \in T : n <= m
      <3>1. T \in SUBSET Nat
        OBVIOUS
      <3> HIDE DEF T
      <3>2. QED
        BY <2>1, <3>1, LeastNat
    <2>3. n # 0
      <3>1. Stable(0)
        <4> SUFFICES ASSUME NEW o \in Owner, OwnerFork(o) \subseteq ForksOf(k[0])
                     PROVE  r[0 + 1][o] = r[0][o]
          OBVIOUS
        <4>1. o = NoBranch
          BY <1>3 DEF ForksOf, OwnerFork
        <4>2. 0 \in Nat /\ 0 + 1 \in Nat
          OBVIOUS
        <4>3. QED
          BY <1>6, <4>1, <4>2
      <3>2. QED
        BY <2>2, <3>1
    <2>4. n - 1 \in Nat /\ (n - 1) + 1 = n /\ n - 1 \notin T
      BY <2>2, <2>3
    <2>5. Stable(n - 1)
      BY <2>4
    <2>6. Stable(n)
      <3> SUFFICES ASSUME NEW o \in Owner, OwnerFork(o) \subseteq ForksOf(k[n])
                   PROVE  r[n + 1][o] = r[n][o]
        OBVIOUS
      <3>1. CASE o = NoBranch
        <4>1. n \in Nat /\ n + 1 \in Nat
          BY <2>2
        <4>2. QED
          BY <1>6, <3>1, <4>1
      <3>2. CASE o # NoBranch
        <4>1. OwnerFork(o) \subseteq ForksOf(active)
          BY <1>3, <2>2 DEF ForksOf
        <4>2. PICK a \in k[n] : a.fork = o.fork
          BY <3>2, ScopeCases DEF ForksOf, OwnerFork
        <4>3. a \in active
          BY <1>3, <2>2
        <4> DEFINE up == ParentOf(active, o.fork)
        <4>4. up = a.parent /\ up \in Owner
          BY <4>2, <4>3, ParentIsScope DEF Scopes
        <4>5. OwnerFork(up) \subseteq ForksOf(k[n - 1])
          BY <1>3, <2>4, <4>2, <4>4
        <4>6. r[n][up] = r[n - 1][up]
          BY <2>4, <2>5, <4>4, <4>5
        <4>7. r[n + 1][o] = Append(r[n][up], o) /\ r[(n - 1) + 1][o] = Append(r[n - 1][up], o)
          BY <1>7, <2>2, <2>4, <3>2, <4>1
        <4> HIDE DEF up
        <4>8. QED
          BY <2>4, <4>6, <4>7
      <3>3. QED
        BY <3>1, <3>2
    <2>7. QED
      BY <2>2, <2>6
  <1>9. ASSUME NEW o \in Scopes(active), o # NoBranch
        PROVE  PathIn(active, o) = Append(PathIn(active, ParentOf(active, o.fork)), o)
    <2>1. o \in Owner /\ OwnerFork(o) \subseteq ForksOf(active)
      BY DEF Scopes
    <2>2. r[N + 1][o] = r[N][o]
      BY <1>2, <1>3, <1>8, <2>1
    <2>3. r[N + 1][o] = Append(r[N][ParentOf(active, o.fork)], o)
      BY <1>2, <1>7, <1>9, <2>1
    <2>4. PICK a \in active : a.fork = o.fork
      BY <1>9, <2>1, ScopeCases
    <2>5. ParentOf(active, o.fork) \in Owner
      BY <2>4, ParentIsScope DEF Scopes
    <2>6. QED
      BY <1>4, <2>1, <2>2, <2>3, <2>5
  <1>10. \A o \in Owner : PathIn(active, o) \in Seq(Branch)
    <2>1. r[N] \in [Owner -> Seq(Branch)]
      BY <1>1, <1>2
    <2>2. QED
      BY <1>4, <2>1
  <1>11. PathIn(active, NoBranch) = <<>>
    BY <1>2, <1>4, <1>5, <1>6
  <1>12. QED
    BY <1>9, <1>10, <1>11

\* Different scopes have different paths.
LEMMA PathsDiffer ==
  ASSUME NEW active, Nested(active), NEW o \in Scopes(active), NEW q \in Scopes(active),
         PathIn(active, o) = PathIn(active, q)
  PROVE  o = q
  <1>1. ASSUME NEW b \in Scopes(active), b # NoBranch
        PROVE  /\ Len(PathIn(active, b)) # 0
               /\ PathIn(active, b)[Len(PathIn(active, b))] = b
    <2>1. b \in Branch
      BY <1>1 DEF Scopes, Owner
    <2>2. PICK a \in active : a.fork = b.fork
      BY <1>1, ScopeCases DEF Scopes
    <2>3. ParentOf(active, b.fork) \in Owner
      BY <2>2, ParentIsScope DEF Scopes
    <2>4. PathIn(active, ParentOf(active, b.fork)) \in Seq(Branch)
      BY <2>3, PathLaw
    <2>5. PathIn(active, b) = Append(PathIn(active, ParentOf(active, b.fork)), b)
      BY <1>1, PathLaw
    <2>6. QED
      BY <2>1, <2>4, <2>5
  <1>2. PathIn(active, NoBranch) = <<>>
    BY PathLaw
  <1>3. QED
    BY <1>1, <1>2

\* A fork that starts, or ends, leaves the paths of the other scopes alone.
LEMMA PathsAgree ==
  ASSUME NEW active, Nested(active), NEW more, Nested(more), active \subseteq more
  PROVE  \A o \in Scopes(active) : PathIn(active, o) = PathIn(more, o)
  <1> DEFINE Same(o) == PathIn(active, o) = PathIn(more, o)
             wrong == {a \in active : \E o \in Owner : o # NoBranch /\ o.fork = a.fork /\ ~Same(o)}
  <1>1. Same(NoBranch)
    BY PathLaw
  <1>2. \A o \in Scopes(active) : o \in Scopes(more)
    BY DEF Scopes, ForksOf
  <1>3. wrong = {}
    <2>1. SUFFICES ASSUME wrong # {} PROVE FALSE
      OBVIOUS
    <2>2. wrong \in SUBSET active
      OBVIOUS
    <2>3. PICK a \in wrong : OwnerFork(a.parent) \cap ForksOf(wrong) = {}
      BY <2>1, <2>2 DEF Nested, Forest
    <2>4. PICK o \in Owner : o # NoBranch /\ o.fork = a.fork /\ ~Same(o)
      BY <2>3
    <2>5. a \in active /\ a \in more
      BY <2>2, <2>3
    <2>6. o \in Scopes(active)
      BY <2>4, <2>5, ScopeCases DEF Scopes, ForksOf
    <2>7. /\ ParentOf(active, o.fork) = a.parent /\ ParentOf(more, o.fork) = a.parent
          /\ a.parent \in Scopes(active)
      BY <2>4, <2>5, ParentIsScope
    <2>8. Same(a.parent)
      <3>1. CASE a.parent = NoBranch
        BY <1>1, <3>1
      <3>2. CASE a.parent # NoBranch
        <4>1. PICK b \in active : b.fork = a.parent.fork
          BY <2>7, <3>2, ScopeCases DEF Scopes
        <4>2. a.parent.fork \notin ForksOf(wrong)
          BY <2>3, <3>2 DEF OwnerFork
        <4>3. b \notin wrong
          BY <4>1, <4>2 DEF ForksOf
        <4>4. a.parent \in Owner
          BY <2>7 DEF Scopes
        <4> HIDE DEF Same
        <4>5. QED
          BY <3>2, <4>1, <4>3, <4>4
      <3>3. QED
        BY <3>1, <3>2
    <2>9. /\ PathIn(active, o) = Append(PathIn(active, a.parent), o)
          /\ PathIn(more, o) = Append(PathIn(more, a.parent), o)
      BY <1>2, <2>4, <2>6, <2>7, PathLaw
    <2>10. QED
      BY <2>4, <2>8, <2>9
  <1>4. ASSUME NEW o \in Scopes(active), o # NoBranch PROVE Same(o)
    <2>1. PICK a \in active : a.fork = o.fork
      BY <1>4, ScopeCases DEF Scopes
    <2> HIDE DEF Same
    <2>2. QED
      BY <1>3, <1>4, <2>1 DEF Scopes
  <1>5. QED
    BY <1>1, <1>4

\* Threads of different tokens differ.
LEMMA ThreadsApart ==
  ASSUME NEW active, Nested(active), NEW set,
         \A t \in set : t.owner \in Scopes(active),
         \A t, u \in set : t.owner = u.owner => t = u,
         NEW some \in SUBSET set
  PROVE  ThreadsOf(set, active) \ ThreadsOf(some, active) = ThreadsOf(set \ some, active)
  <1>1. ASSUME NEW t \in set, NEW u \in set, PathIn(active, t.owner) = PathIn(active, u.owner)
        PROVE  t = u
    BY <1>1, PathsDiffer
  <1>2. QED
    BY <1>1 DEF ThreadsOf

\* One more token is one more thread.
LEMMA OneMoreThread ==
  ASSUME NEW set, NEW active, NEW token
  PROVE  ThreadsOf(set \cup {token}, active) =
           ThreadsOf(set, active) \cup {[path |-> PathIn(active, token.owner), step |-> token.step]}
  BY DEF ThreadsOf

\* The thread of one token.
LEMMA ThreadOfOne ==
  ASSUME NEW active, NEW t
  PROVE  ThreadsOf({t}, active) = {[path |-> PathIn(active, t.owner), step |-> t.step]}
  BY DEF ThreadsOf

-----------------------------------------------------------------------------
\* The configurations keep to paths, and are threads.

FInv == IInv /\ Forest(activations)

\* The activations of a configuration are nested, and its owners are scopes.
LEMMA LiveIsNested ==
  ASSUME FInv
  PROVE  /\ Nested(activations)
         /\ \A t \in BagToSet(tokens) : t.owner \in Scopes(activations)
         /\ \A a \in activations : a.parent \in Scopes(activations)
  BY DEF FInv, IInv, Nested, TypeOK, Token, Activation, OwnersDisjoint, ScopeLive, OwnerFork, Scopes

\* So they are after a step.
LEMMA NextIsNested ==
  ASSUME FInv'
  PROVE  /\ Nested(activations')
         /\ \A t \in BagToSet(tokens') : t.owner \in Scopes(activations')
         /\ \A a \in activations' : a.parent \in Scopes(activations')
  BY DEF FInv, IInv, Nested, TypeOK, Token, Activation, OwnersDisjoint, ScopeLive, OwnerFork, Scopes

\* A fork is started inside of what is live, so it closes no circle.
LEMMA ForestGrows ==
  ASSUME NEW active, Forest(active),
         \A a \in active : OwnerFork(a.parent) \subseteq ForksOf(active),
         NEW f, f \notin ForksOf(active), NEW p, OwnerFork(p) \subseteq ForksOf(active)
  PROVE  Forest(active \cup {[fork |-> f, parent |-> p]})
  <1> DEFINE mine == [fork |-> f, parent |-> p]
  <1>1. mine.fork = f /\ mine.parent = p
    OBVIOUS
  <1> HIDE DEF mine
  <1>2. SUFFICES ASSUME NEW set \in SUBSET (active \cup {mine}), set # {}
                 PROVE  \E a \in set : OwnerFork(a.parent) \cap ForksOf(set) = {}
    BY DEF Forest, mine
  <1>3. CASE set \subseteq active
    BY <1>2, <1>3 DEF Forest
  <1>4. CASE set \ {mine} = {}
    BY <1>1, <1>2, <1>4 DEF ForksOf
  <1>5. CASE set \ {mine} # {}
    <2> DEFINE rest == set \ {mine}
    <2>1. rest \in SUBSET active /\ rest # {}
      BY <1>2, <1>5
    <2>2. PICK a \in rest : OwnerFork(a.parent) \cap ForksOf(rest) = {}
      BY <2>1 DEF Forest
    <2>3. OwnerFork(a.parent) \subseteq ForksOf(active)
      BY <2>1
    <2>4. ForksOf(set) \subseteq ForksOf(rest) \cup {f}
      BY <1>1 DEF ForksOf
    <2>5. f \notin OwnerFork(a.parent) /\ a \in set
      BY <2>3
    <2>6. OwnerFork(a.parent) \cap ForksOf(set) = {}
      BY <2>2, <2>4, <2>5
    <2>7. QED
      BY <2>5, <2>6
  <1>6. QED
    BY <1>3, <1>4, <1>5

LEMMA ForestInvariance == Spec => []FInv
  <1>1. Init => Forest(activations)
    BY DEF Init, Forest
  <1>2. IInv /\ Forest(activations) /\ [Next]_vars => Forest(activations)'
    <2> SUFFICES ASSUME IInv, Forest(activations), [Next]_vars PROVE Forest(activations')
      OBVIOUS
    <2>1. Nested(activations)
      BY LiveIsNested DEF FInv
    <2>2. CASE activations' \subseteq activations
      BY <2>2 DEF Forest
    <2>3. ASSUME NEW t \in BagToSet(tokens), ExecuteFork(t)
          PROVE  Forest(activations')
      <3>1. t.step \notin ForksOf(activations)
        BY <2>3 DEF ExecuteFork, Exploring, Rejected, Reentered
      <3>2. OwnerFork(t.owner) \subseteq ForksOf(activations)
        BY DEF IInv, ScopeLive, OwnerFork
      <3>3. \A a \in activations : OwnerFork(a.parent) \subseteq ForksOf(activations)
        BY <2>1 DEF Nested
      <3>4. activations' = activations \cup {[fork |-> t.step, parent |-> t.owner]}
        BY <2>3 DEF ExecuteFork
      <3>5. QED
        BY <3>1, <3>2, <3>3, <3>4, ForestGrows
    <2>4. ASSUME NEW t \in BagToSet(tokens), ExecuteAction(t) \/ ExecuteJoin(t)
          PROVE  activations' \subseteq activations
      BY <2>4 DEF ExecuteAction, ExecuteJoin
    <2>5. CASE Reject \/ UNCHANGED vars
      BY <2>2, <2>5 DEF Reject, vars
    <2>6. QED
      BY <2>2, <2>3, <2>4, <2>5 DEF Next
  <1>3. QED
    BY <1>1, <1>2, Invariance, PTL DEF Spec, FInv

\* Without some tokens, the threads are those of the other tokens.
LEMMA ThreadsLeave ==
  ASSUME FInv, NEW some \in SUBSET BagToSet(tokens)
  PROVE  ThreadsOf(BagToSet(tokens), activations) \ ThreadsOf(some, activations) =
           ThreadsOf(BagToSet(tokens) \ some, activations)
  <1>1. \A t, u \in BagToSet(tokens) : t.owner = u.owner => t = u
    BY DEF FInv, IInv, OwnersDisjoint
  <1>2. QED
    BY <1>1, LiveIsNested, ThreadsApart

\* What follows a thread follows its token.
LEMMA OnwardContinues ==
  ASSUME NEW others, Single(others), NEW owner, NEW step, NEW path,
         \A u \in BagToSet(others) : u.owner # owner,
         tokens' \in Onward(workflow, others, owner, step),
         path = PathIn(activations', owner)
  PROVE  Threads!Continue(ThreadsOf(BagToSet(others), activations'), path, step)
  <1>1. /\ NextOf(workflow, step) = {} => BagToSet(tokens') = BagToSet(others)
        /\ NextOf(workflow, step) # {} =>
             \E to \in NextOf(workflow, step) :
               BagToSet(tokens') = BagToSet(others) \cup {[step |-> to, owner |-> owner]}
    BY OnwardTokens
  <1>2. CASE NextOf(workflow, step) = {}
    BY <1>1, <1>2 DEF Threads!Continue
  <1>3. CASE NextOf(workflow, step) # {}
    <2>1. PICK to \in NextOf(workflow, step) :
             BagToSet(tokens') = BagToSet(others) \cup {[step |-> to, owner |-> owner]}
      BY <1>1, <1>3
    <2> DEFINE new == [step |-> to, owner |-> owner]
    <2>2. new.step = to /\ new.owner = owner
      OBVIOUS
    <2> HIDE DEF new
    <2>3. ThreadsOf(BagToSet(others) \cup {new}, activations') =
            ThreadsOf(BagToSet(others), activations')
              \cup {[path |-> PathIn(activations', new.owner), step |-> new.step]}
      BY OneMoreThread
    <2>4. ThreadsOf(BagToSet(tokens'), activations') =
            ThreadsOf(BagToSet(others), activations') \cup {[path |-> path, step |-> to]}
      BY <2>1, <2>2, <2>3 DEF new
    <2>5. QED
      BY <1>3, <2>4 DEF Threads!Continue
  <1>4. QED
    BY <1>2, <1>3

\* An action moves one thread.
LEMMA ActionImplements ==
  ASSUME FInv, NEW t \in BagToSet(tokens), ExecuteAction(t)
  PROVE  Threads!Act([path |-> PathIn(activations, t.owner), step |-> t.step])
  <1> DEFINE u == [path |-> PathIn(activations, t.owner), step |-> t.step]
             others == tokens (-) One(t)
  <1>1. u.path = PathIn(activations, t.owner) /\ u.step = t.step
    OBVIOUS
  <1>2. BagToSet(others) = BagToSet(tokens) \ {t} /\ Single(others)
    BY TakeAway DEF FInv, IInv
  <1> HIDE DEF u
  <1>3. ThreadsOf(BagToSet(tokens), activations) \ {u} = ThreadsOf(BagToSet(others), activations)
    BY <1>2, ThreadsLeave, ThreadOfOne DEF u
  <1>4. \A v \in BagToSet(others) : v.owner # t.owner
    BY <1>2 DEF FInv, IInv, OwnersDisjoint
  <1>5. /\ tokens' \in Onward(workflow, others, t.owner, t.step)
        /\ activations' = activations /\ Kind(workflow, t.step) = "action"
    BY DEF ExecuteAction
  <1> HIDE DEF others
  <1>6. Threads!Continue(ThreadsOf(BagToSet(others), activations'), u.path, t.step)
    BY <1>1, <1>2, <1>4, <1>5, OnwardContinues
  <1>7. Threads!Act(u)
    BY <1>1, <1>3, <1>5, <1>6 DEF Threads!Act
  <1>8. QED
    BY <1>7 DEF u

\* A fork replaces one thread by its children.
LEMMA ForkImplements ==
  ASSUME FInv, FInv', NEW t \in BagToSet(tokens), ExecuteFork(t)
  PROVE  Threads!Fork([path |-> PathIn(activations, t.owner), step |-> t.step])
  <1> DEFINE u == [path |-> PathIn(activations, t.owner), step |-> t.step]
             others == tokens (-) One(t)
             branch(b) == [fork |-> t.step, branch |-> b]
             mine == [fork |-> t.step, parent |-> t.owner]
             token(b) == [step |-> b, owner |-> branch(b)]
             new == {token(b) : b \in NextOf(workflow, t.step)}
  <1>1. u.path = PathIn(activations, t.owner) /\ u.step = t.step
    OBVIOUS
  <1>2. BagToSet(others) = BagToSet(tokens) \ {t} /\ Single(others)
    BY TakeAway DEF FInv, IInv
  <1>3. t \in Token
    BY DEF FInv, IInv, TypeOK
  <1>4. /\ Kind(workflow, t.step) = "fork"
        /\ tokens' = others (+) Branches(workflow, t)
        /\ activations' = activations \cup {mine}
    BY DEF ExecuteFork
  <1>5. Nested(activations) /\ Nested(activations') /\ activations \subseteq activations'
    BY <1>4, LiveIsNested, NextIsNested
  <1>6. \A o \in Scopes(activations) : PathIn(activations', o) = PathIn(activations, o)
    BY <1>5, PathsAgree
  <1>7. BagToSet(Branches(workflow, t)) = new /\ Single(Branches(workflow, t))
    BY SetsAreSingle DEF Branches
  <1>8. t.step \notin ForksOf(activations)
    BY DEF ExecuteFork, Exploring, Rejected, Reentered
  <1>9. \A v \in new : v.owner # NoBranch /\ v.owner.fork = t.step
    BY <1>3, WorkflowAssumption DEF FInv, IInv, TypeOK, Token, Branch, Owner
  <1>10. BagToSet(tokens') = BagToSet(others) \cup new
    <2>1. \A v \in BagToSet(tokens) : v.owner # NoBranch => v.owner.fork # t.step
      BY <1>8 DEF FInv, IInv, ScopeLive
    <2> HIDE DEF new, others
    <2>2. BagToSet(others) \cap new = {}
      BY <1>2, <1>9, <2>1
    <2>3. QED
      BY <1>2, <1>4, <1>7, <2>2, AddApart
  <1>11. t.owner \in Scopes(activations)
    BY LiveIsNested
  <1>12. ASSUME NEW b \in NextOf(workflow, t.step)
         PROVE  PathIn(activations', branch(b)) = Append(u.path, branch(b))
    <2>1. b \in Step /\ t.step \in Step
      BY <1>3, WorkflowAssumption DEF FInv, IInv, TypeOK, Token
    <2>2. branch(b) \in Branch /\ branch(b).fork = t.step
      BY <2>1 DEF Branch
    <2> HIDE DEF branch
    <2>3. branch(b) \in Owner /\ branch(b) # NoBranch
      BY <2>2, WorkflowAssumption DEF Owner
    <2>4. mine \in activations' /\ mine.fork = t.step /\ mine.parent = t.owner
      BY <1>4
    <2> HIDE DEF mine
    <2>5. branch(b) \in Scopes(activations')
      BY <2>2, <2>3, <2>4 DEF Scopes, OwnerFork, ForksOf
    <2>6. ParentOf(activations', t.step) = t.owner
      BY <1>5, <2>4, ParentIsScope
    <2>7. PathIn(activations', branch(b)) = Append(PathIn(activations', t.owner), branch(b))
      BY <1>5, <2>2, <2>3, <2>5, <2>6, PathLaw
    <2>8. QED
      BY <1>1, <1>6, <1>11, <2>7
  <1> HIDE DEF branch
  <1>13. \A b : token(b).step = b /\ token(b).owner = branch(b)
    OBVIOUS
  <1> HIDE DEF u, mine, token
  <1>14. ThreadsOf(new, activations') =
           {[path |-> Append(u.path, branch(b)), step |-> b] : b \in NextOf(workflow, t.step)}
    <2>1. /\ \A v \in new : v.step \in NextOf(workflow, t.step) /\ v.owner = branch(v.step)
          /\ \A b \in NextOf(workflow, t.step) : \E v \in new : v.step = b /\ v.owner = branch(b)
      BY <1>13
    <2> HIDE DEF new
    <2>2. \A v \in new : PathIn(activations', v.owner) = Append(u.path, branch(v.step))
      BY <1>12, <2>1
    <2> DEFINE child(b) == [path |-> Append(u.path, branch(b)), step |-> b]
               thread(v) == [path |-> PathIn(activations', v.owner), step |-> v.step]
    <2>3. \A v \in new : thread(v) = child(v.step)
      BY <2>2
    <2>4. ThreadsOf(new, activations') = {thread(v) : v \in new}
      BY DEF ThreadsOf
    <2> HIDE DEF child, thread
    <2>5. {thread(v) : v \in new} = {child(b) : b \in NextOf(workflow, t.step)}
      BY <2>1, <2>3
    <2>6. QED
      BY <2>4, <2>5 DEF child
  <1> HIDE DEF new
  <1>15. ThreadsOf(BagToSet(tokens'), activations') =
           ThreadsOf(BagToSet(others), activations) \cup ThreadsOf(new, activations')
    <2>1. \A v \in BagToSet(others) : PathIn(activations', v.owner) = PathIn(activations, v.owner)
      BY <1>2, <1>6, LiveIsNested
    <2>2. ThreadsOf(BagToSet(others), activations') = ThreadsOf(BagToSet(others), activations)
      BY <2>1 DEF ThreadsOf
    <2>3. ThreadsOf(BagToSet(tokens'), activations') =
            ThreadsOf(BagToSet(others), activations') \cup ThreadsOf(new, activations')
      BY <1>10 DEF ThreadsOf
    <2>4. QED
      BY <2>2, <2>3
  <1>16. ThreadsOf(BagToSet(tokens), activations) \ {u} = ThreadsOf(BagToSet(others), activations)
    BY <1>2, ThreadsLeave, ThreadOfOne DEF u
  <1>17. ForkedIn(activations') = ForkedIn(activations) \cup {[path |-> u.path, fork |-> t.step]}
    <2>1. mine.fork = t.step /\ mine.parent = t.owner
      BY DEF mine
    <2>2. \A a \in activations' : PathIn(activations', a.parent) = PathIn(activations, a.parent)
      BY <1>4, <1>6, <1>11, <2>1, LiveIsNested
    <2>3. QED
      BY <1>1, <1>4, <2>1, <2>2 DEF ForkedIn
  <1>18. Threads!Fork(u)
    BY <1>1, <1>4, <1>14, <1>15, <1>16, <1>17 DEF Threads!Fork, branch
  <1>19. QED
    BY <1>18 DEF u

\* A join replaces the children of one thread by the thread.
LEMMA JoinImplements ==
  ASSUME FInv, FInv', NEW t \in BagToSet(tokens), ExecuteJoin(t)
  PROVE  Threads!Join([path |-> PathIn(activations, t.owner), step |-> t.step])
  <1> DEFINE u == [path |-> PathIn(activations, t.owner), step |-> t.step]
             f == ForkOf(workflow, t)
             gone == AtJoin(workflow, tokens, t)
             others == Without(tokens, gone)
             owner == ParentOf(activations, f)
             branch(b) == [fork |-> f, branch |-> b]
  <1>1. u.path = PathIn(activations, t.owner) /\ u.step = t.step
    OBVIOUS
  <1>2. t \in Token
    BY DEF FInv, IInv, TypeOK
  <1>3. /\ Ready(workflow, tokens, t) /\ Kind(workflow, t.step) = "join"
        /\ tokens' \in Onward(workflow, others, owner, t.step)
        /\ activations' = {a \in activations : a.fork # f}
    BY DEF ExecuteJoin, Ready, Arrival
  <1>4. f \in ForksOf(activations) /\ f \in OwnerFork(t.owner)
    BY <1>3 DEF ExecuteJoin, Exploring, Rejected, Unscoped, Ready
  <1>5. /\ Nested(activations) /\ Nested(activations') /\ activations' \subseteq activations
        /\ \A v \in BagToSet(tokens) : v.owner \in Scopes(activations)
        /\ \A v \in BagToSet(tokens') : v.owner \in Scopes(activations')
        /\ \A a \in activations' : a.parent \in Scopes(activations')
    BY <1>3, LiveIsNested, NextIsNested
  <1>6. \A o \in Scopes(activations') : PathIn(activations', o) = PathIn(activations, o)
    BY <1>5, PathsAgree
  <1>7. PICK mine \in activations : mine.fork = f /\ owner = mine.parent
    BY <1>4, ParentFound
  <1>8. /\ \A v \in gone : /\ v \in BagToSet(tokens) /\ v.step = t.step /\ v.owner # NoBranch
                           /\ v.owner.fork = f
        /\ \A v \in BagToSet(tokens) : v.owner # NoBranch /\ v.owner.fork = f => v \in gone
        /\ \A a \in activations : a.parent # NoBranch => a.parent.fork # f
        /\ \A b \in NextOf(workflow, f) : \E v \in gone : v.owner.branch = b
    <2>1. \A v \in gone : /\ v \in BagToSet(tokens) /\ v.step = t.step /\ v.owner # NoBranch
                          /\ v.owner.fork = f
      BY DEF AtJoin, OwnerFork
    <2>2. \A b \in NextOf(workflow, f) : \E v \in gone : v.owner.branch = b
      BY <1>3 DEF Ready, Arrived
    <2>3. IInv
      BY DEF FInv
    <2> HIDE DEF f, gone
    <2>4. QED
      BY <1>3, <2>1, <2>2, <2>3, ReadyTakesAll DEF f, gone
  <1>9. BagToSet(others) = BagToSet(tokens) \ gone /\ Single(others)
    BY LeaveOut DEF FInv, IInv
  <1>10. t.owner # NoBranch /\ t.owner.fork = f
    BY <1>4 DEF OwnerFork
  <1> HIDE DEF u, f, gone, others, owner, branch
  <1>11. ASSUME NEW v \in gone
         PROVE  /\ v.owner.branch \in NextOf(workflow, f)
                /\ v.owner = branch(v.owner.branch)
                /\ PathIn(activations, v.owner) = Append(PathIn(activations, owner), v.owner)
    <2>1. v \in Token /\ v.owner \in Scopes(activations) /\ ScopeLive(v.owner)
      BY <1>5, <1>8 DEF FInv, IInv, TypeOK
    <2>2. v.owner \in Branch
      BY <1>8, <2>1 DEF Token, Owner
    <2>3. v.owner.branch \in NextOf(workflow, f)
      BY <1>8, <2>1 DEF ScopeLive
    <2>4. v.owner = branch(v.owner.branch)
      BY <1>8, <2>2 DEF Branch, branch
    <2>5. ParentOf(activations, f) = owner
      BY DEF owner
    <2>6. QED
      BY <1>5, <1>8, <2>1, <2>3, <2>4, <2>5, PathLaw
  <1>12. owner \in Owner /\ owner \in Scopes(activations) /\ PathIn(activations, owner) \in Seq(Branch)
    BY <1>5, <1>7, LiveIsNested, PathLaw DEF Scopes
  <1>13. t \in gone
    BY <1>8, <1>10
  <1>14. /\ u.path = Append(PathIn(activations, owner), t.owner)
         /\ u.path # <<>> /\ u.path[Len(u.path)] = t.owner
         /\ Threads!Parent(u.path) = PathIn(activations, owner)
    <2>1. t.owner \in Branch
      BY <1>2, <1>10 DEF Token, Owner
    <2> DEFINE path == PathIn(activations, owner)
    <2>2. u.path = Append(path, t.owner)
      BY <1>1, <1>11, <1>13
    <2>3. path \in Seq(Branch)
      BY <1>12
    <2> HIDE DEF path
    <2>4. Len(u.path) = Len(path) + 1 /\ u.path # <<>> /\ u.path[Len(u.path)] = t.owner
      BY <2>1, <2>2, <2>3
    <2>5. Len(u.path) - 1 = Len(path)
      BY <2>3, <2>4
    <2>6. SubSeq(Append(path, t.owner), 1, Len(path)) = path
      BY <2>1, <2>3
    <2>7. QED
      BY <2>2, <2>4, <2>5, <2>6 DEF Threads!Parent, path
  <1>15. Threads!JoinedAt(u)
    BY <1>1, <1>3, <1>10, <1>14 DEF Threads!JoinedAt, f, ForkOf
  <1>16. Threads!Siblings(u) = ThreadsOf(gone, activations)
    <2> DEFINE path == PathIn(activations, owner)
               child(b) == [path |-> Append(path, branch(b)), step |-> t.step]
               thread(v) == [path |-> PathIn(activations, v.owner), step |-> v.step]
    <2>1. Threads!Siblings(u) = {child(b) : b \in NextOf(workflow, f)}
      BY <1>1, <1>14 DEF Threads!Siblings, f, ForkOf, branch
    <2>2. \A v \in gone : thread(v) = child(v.owner.branch)
      BY <1>8, <1>11
    <2>3. ThreadsOf(gone, activations) = {thread(v) : v \in gone}
      BY DEF ThreadsOf
    <2> HIDE DEF child, thread
    <2>4. {thread(v) : v \in gone} = {child(b) : b \in NextOf(workflow, f)}
      BY <1>8, <1>11, <2>2
    <2>5. QED
      BY <2>1, <2>3, <2>4
  <1>17. /\ Threads!Siblings(u) \subseteq ThreadsOf(BagToSet(tokens), activations)
         /\ ThreadsOf(BagToSet(tokens), activations) \ Threads!Siblings(u) =
              ThreadsOf(BagToSet(others), activations)
    <2>1. gone \in SUBSET BagToSet(tokens)
      BY <1>8
    <2>2. ThreadsOf(gone, activations) \subseteq ThreadsOf(BagToSet(tokens), activations)
      BY <2>1 DEF ThreadsOf
    <2>3. QED
      BY <1>9, <1>16, <2>1, <2>2, ThreadsLeave
  <1>18. /\ \A v \in BagToSet(others) : v.owner \in Scopes(activations') /\ v.owner # owner
         /\ owner \in Scopes(activations')
    <2>1. ForksOf(activations') = ForksOf(activations) \ {f}
      BY <1>3 DEF ForksOf
    <2>2. \A o \in Scopes(activations) : (o # NoBranch => o.fork # f) => o \in Scopes(activations')
      BY <2>1 DEF Scopes, OwnerFork
    <2>3. \A v \in BagToSet(others) : v \in BagToSet(tokens) /\ (v.owner # NoBranch => v.owner.fork # f)
      BY <1>8, <1>9
    <2>4. owner # NoBranch => owner.fork # f
      BY <1>7, <1>8
    <2>5. \A v \in BagToSet(tokens) : v.owner # owner
      BY <1>7 DEF FInv, IInv, OwnersDisjoint
    <2>6. QED
      BY <1>5, <1>12, <2>2, <2>3, <2>4, <2>5
  <1>19. ThreadsOf(BagToSet(others), activations') = ThreadsOf(BagToSet(others), activations)
    BY <1>6, <1>18 DEF ThreadsOf
  <1>20. Threads!Continue(ThreadsOf(BagToSet(others), activations'), Threads!Parent(u.path), t.step)
    BY <1>3, <1>6, <1>9, <1>14, <1>18, OnwardContinues
  <1>21. ForkedIn(activations') =
           ForkedIn(activations) \ {[path |-> Threads!Parent(u.path), fork |-> f]}
    <2> DEFINE pair(active, a) == [path |-> PathIn(active, a.parent), fork |-> a.fork]
               last == [path |-> Threads!Parent(u.path), fork |-> f]
    <2>1. \A a \in activations : a.fork = f => pair(activations, a) = last
      BY <1>5, <1>7, <1>14 DEF Nested
    <2>2. \A a \in activations : pair(activations, a) = last => a.fork = f
      OBVIOUS
    <2>3. \A a \in activations' : pair(activations', a) = pair(activations, a)
      BY <1>5, <1>6
    <2>4. \A active : ForkedIn(active) = {pair(active, a) : a \in active}
      BY DEF ForkedIn
    <2> HIDE DEF pair, last
    <2>5. {pair(activations', a) : a \in activations'} = {pair(activations, a) : a \in activations} \ {last}
      BY <1>3, <2>1, <2>2, <2>3
    <2>6. QED
      BY <2>4, <2>5 DEF last
  <1>22. f = PairOf(workflow, u.step)
    BY <1>1 DEF f, ForkOf
  <1>23. Threads!Join(u)
    BY <1>1, <1>15, <1>17, <1>19, <1>20, <1>21, <1>22 DEF Threads!Join
  <1>24. QED
    BY <1>23 DEF u

\* The flat configurations are the thread semantics of the documentation: nested forks
\* restore their parent branch, a join waits for exactly its own branches and executes
\* once, and arrivals of a finished activation are not reused.
THEOREM Refinement == Spec => ImplementsForkJoin
  <1>1. Init => Threads!Init
    <2> SUFFICES ASSUME Init PROVE Threads!Init
      OBVIOUS
    <2>1. BagToSet(tokens) = {[step |-> Entry(workflow), owner |-> NoBranch]} /\ activations = {}
      BY SetsAreSingle DEF Init
    <2>2. Nested({})
      BY FS_EmptySet DEF Nested, Forest
    <2>3. PathIn({}, NoBranch) = <<>>
      BY <2>2, PathLaw
    <2> DEFINE start == [step |-> Entry(workflow), owner |-> NoBranch]
    <2>4. start.step = Entry(workflow) /\ start.owner = NoBranch /\ BagToSet(tokens) = {start}
      BY <2>1
    <2> HIDE DEF start
    <2>5. ThreadsOf(BagToSet(tokens), activations) = {[path |-> <<>>, step |-> Entry(workflow)]}
      BY <2>1, <2>3, <2>4, ThreadOfOne
    <2>6. ForkedIn(activations) = {}
      BY <2>1 DEF ForkedIn
    <2>7. QED
      BY <2>5, <2>6 DEF Init, Threads!Init
  <1>2. FInv /\ FInv' /\ [Next]_vars =>
          [Threads!Next]_<<workflow, facts, ThreadsOf(BagToSet(tokens), activations), ForkedIn(activations)>>
    <2> SUFFICES ASSUME FInv, FInv', [Next]_vars
                 PROVE  \/ Threads!Next
                        \/ UNCHANGED <<workflow, facts, ThreadsOf(BagToSet(tokens), activations),
                                       ForkedIn(activations)>>
      OBVIOUS
    <2>1. CASE Reject \/ UNCHANGED vars
      BY <2>1 DEF Reject, vars
    <2>2. CASE \E t \in BagToSet(tokens) : ExecuteAction(t) \/ ExecuteFork(t) \/ ExecuteJoin(t)
      <3>1. PICK t \in BagToSet(tokens) : ExecuteAction(t) \/ ExecuteFork(t) \/ ExecuteJoin(t)
        BY <2>2
      <3> DEFINE u == [path |-> PathIn(activations, t.owner), step |-> t.step]
      <3>2. u \in ThreadsOf(BagToSet(tokens), activations) /\ u.step = t.step
        BY DEF ThreadsOf
      <3>3. Threads!Act(u) \/ Threads!Fork(u) \/ Threads!Join(u)
        BY <3>1, ActionImplements, ForkImplements, JoinImplements
      <3>4. facts' = After(workflow, t.step, facts) /\ workflow' = workflow
        BY <3>1 DEF ExecuteAction, ExecuteFork, ExecuteJoin, Changed
      <3> HIDE DEF u
      <3>5. QED
        BY <3>2, <3>3, <3>4 DEF Threads!Next
    <2>3. QED
      BY <2>1, <2>2 DEF Next
  <1>3. QED
    BY <1>1, <1>2, ForestInvariance, PTL DEF Spec, ImplementsForkJoin, Threads!Spec

-----------------------------------------------------------------------------
\* The verdict.  Every step of verifyParallelWorkflow leaves the workflow where it
\* is, and what follows it is a behaviour of the workflow.
LEMMA VerdictRunsWorkflow == VerdictSpec => Spec
  <1>1. VerdictInit => Init
    BY DEF VerdictInit
  <1>2. [VerdictNext]_<<vars, verification>> => [Next]_vars
    BY DEF VerdictNext, Expand, GiveUp, Report, Exhaust, Run, Verifying, vars
  <1>3. QED
    BY <1>1, <1>2, PTL DEF VerdictSpec, Spec

Current == [facts |-> facts, tokens |-> tokens, activations |-> activations]

\* Finitely many tokens, each at a step.
StepsTyped(bag) == IsFiniteSet(BagToSet(bag)) /\ \A t \in BagToSet(bag) : t.step \in Step

Accepted(c) == ~Rejected(workflow, c.tokens, c.activations)

\* The first configurations are explored: none is rejected, and everything that
\* follows one of them has been found.
Explored ==
  /\ Len(graph) <= Len(nodes)
  /\ graph \in Seq({graph[i] : i \in DOMAIN graph})
  /\ \A i \in DOMAIN graph :
       /\ Accepted(nodes[i])
       /\ graph[i] = Executions(workflow, nodes[i])
       /\ \A e \in graph[i] : \E k \in DOMAIN nodes : nodes[k] = e.after

Searching ==
  /\ verdict = "exploring"
  /\ nodes \in Seq({nodes[i] : i \in DOMAIN nodes})
  /\ nodes # <<>> /\ nodes[1] = Current
  /\ \A i \in DOMAIN nodes : StepsTyped(nodes[i].tokens)
  /\ Explored

\* A set of configurations no step leaves, for which the guarantees are right.
Sound(set) ==
  \A c \in set :
    /\ Accepted(c)
    /\ \A e \in Executions(workflow, c) :
         /\ e.after \in set
         /\ e.step \in DOMAIN result.guaranteed
         /\ result.guaranteed[e.step] \subseteq c.facts

VInv ==
  /\ result.status = "open" => Searching
  /\ Reported =>
       /\ verdict = "exploring"
       /\ \E set : Current \in set /\ Sound(set)
       /\ result.status = "valid" =>
            \A id \in DOMAIN result.guaranteed : Requires(workflow, id) \subseteq result.guaranteed[id]

\* SetToSeq lists a finite set.
LEMMA SetListed ==
  ASSUME NEW S, IsFiniteSet(S)
  PROVE  /\ Ext!SetToSeq(S) \in Seq(S)
         /\ Len(Ext!SetToSeq(S)) = Cardinality(S)
         /\ Cardinality(S) \in Nat
         /\ \A x \in S : \E i \in DOMAIN Ext!SetToSeq(S) : Ext!SetToSeq(S)[i] = x
  <1> DEFINE n == Cardinality(S)
             list == Ext!SetToSeq(S)
  <1>1. n \in Nat /\ ExistsBijection(1 .. n, S)
    BY FS_CardinalityType
  <1>2. \E f \in [1 .. n -> S] : Ext!IsInjective(f)
    BY <1>1 DEF ExistsBijection, Bijection, Injection, IsInjective, Ext!IsInjective
  <1>3. list \in [1 .. n -> S] /\ Ext!IsInjective(list)
    <2>1. Ext!Cardinality(S) = Cardinality(S)
      BY DEF Ext!Cardinality, Cardinality
    <2>2. QED
      BY <1>2, <2>1 DEF Ext!SetToSeq
  <1>4. list \in Injection(1 .. n, S)
    BY <1>3 DEF Injection, IsInjective, Ext!IsInjective
  <1>5. Cardinality(1 .. n) = n
    BY <1>1, FS_Interval
  <1> HIDE DEF n, list
  <1>6. list \in Surjection(1 .. n, S)
    BY <1>4, <1>5, FS_Injection DEF n
  <1>7. list \in Seq(S) /\ Len(list) = n
    BY <1>1, <1>3
  <1>8. QED
    BY <1>1, <1>6, <1>7 DEF Surjection, n, list

\* Finitely many alternatives follow, each with finitely many tokens.
LEMMA OnwardFinite ==
  ASSUME NEW w \in Workflow, NEW others, StepsTyped(others), NEW owner, NEW step \in Step
  PROVE  /\ IsFiniteSet(Onward(w, others, owner, step))
         /\ \A bag \in Onward(w, others, owner, step) : StepsTyped(bag)
         /\ Onward(w, others, owner, step) # {}
  <1>1. NextOf(w, step) \subseteq Step /\ IsFiniteSet(NextOf(w, step))
    BY WorkflowAssumption, FS_Subset
  <1>2. CASE NextOf(w, step) = {}
    BY <1>2, FS_Singleton DEF Onward
  <1>3. CASE NextOf(w, step) # {}
    <2> DEFINE token(to) == [step |-> to, owner |-> owner]
               f == [to \in NextOf(w, step) |-> others (+) One(token(to))]
    <2>1. IsFiniteSet({f[to] : to \in NextOf(w, step)})
      <3>1. DOMAIN f = NextOf(w, step)
        OBVIOUS
      <3> HIDE DEF f
      <3>2. QED
        BY <1>1, <3>1, FiniteImage
    <2>2. Onward(w, others, owner, step) = {f[to] : to \in NextOf(w, step)}
      BY <1>3 DEF Onward
    <2>3. ASSUME NEW to \in NextOf(w, step) PROVE StepsTyped(f[to])
      <3>1. BagToSet(f[to]) = BagToSet(others) \cup {token(to)}
        BY DEF BagToSet, (+), One, SetToBag
      <3>2. IsFiniteSet(BagToSet(others) \cup {token(to)})
        BY FS_AddElement DEF StepsTyped
      <3>3. QED
        BY <1>1, <3>1, <3>2 DEF StepsTyped
    <2> HIDE DEF f
    <2>4. QED
      BY <1>3, <2>1, <2>2, <2>3
  <1>4. QED
    BY <1>2, <1>3

\* What a token can do is finite, and leaves finitely many tokens.
LEMMA ExecutionsOfFinite ==
  ASSUME NEW w \in Workflow, NEW c, StepsTyped(c.tokens), NEW t \in BagToSet(c.tokens)
  PROVE  /\ IsFiniteSet(ExecutionsOf(w, c, t))
         /\ \A e \in ExecutionsOf(w, c, t) : StepsTyped(e.after.tokens) /\ e.step = t.step
  <1>1. t.step \in Step /\ IsFiniteSet(BagToSet(c.tokens))
    BY DEF StepsTyped
  <1> DEFINE At(bag, active) ==
               [facts |-> After(w, t.step, c.facts), tokens |-> bag, activations |-> active]
             rest == c.tokens (-) One(t)
             forked == c.activations \cup {[fork |-> t.step, parent |-> t.owner]}
             joined == {a \in c.activations : a.fork # ForkOf(w, t)}
             behind == Onward(w, Without(c.tokens, AtJoin(w, c.tokens, t)),
                              ParentOf(c.activations, ForkOf(w, t)), t.step)
             after ==
               CASE Kind(w, t.step) = "action" ->
                      {At(bag, c.activations) : bag \in Onward(w, rest, t.owner, t.step)}
                 [] Kind(w, t.step) = "fork" -> {At(rest (+) Branches(w, t), forked)}
                 [] Kind(w, t.step) = "join" ->
                      IF ~Ready(w, c.tokens, t) THEN {} ELSE {At(bag, joined) : bag \in behind}
  <1>2. ExecutionsOf(w, c, t) = {[step |-> t.step, after |-> d] : d \in after}
    BY DEF ExecutionsOf
  <1>3. IsFiniteSet(after) /\ \A d \in after : StepsTyped(d.tokens)
    <2>1. Kind(w, t.step) \in {"action", "fork", "join"}
      BY <1>1, WorkflowAssumption
    <2>2. StepsTyped(rest)
      <3>1. BagToSet(rest) \in SUBSET BagToSet(c.tokens)
        BY DEF BagToSet, (-)
      <3> HIDE DEF rest
      <3>2. QED
        BY <1>1, <3>1, FS_Subset DEF StepsTyped
    <2>3. StepsTyped(Without(c.tokens, AtJoin(w, c.tokens, t)))
      <3>1. BagToSet(Without(c.tokens, AtJoin(w, c.tokens, t))) \in SUBSET BagToSet(c.tokens)
        BY DEF BagToSet, Without
      <3>2. QED
        BY <1>1, <3>1, FS_Subset DEF StepsTyped
    <2>4. ASSUME NEW bags, IsFiniteSet(bags), NEW active, \A bag \in bags : StepsTyped(bag)
          PROVE  IsFiniteSet({At(bag, active) : bag \in bags})
                 /\ \A d \in {At(bag, active) : bag \in bags} : StepsTyped(d.tokens)
      <3> DEFINE f == [bag \in bags |-> At(bag, active)]
      <3>1. IsFiniteSet({f[bag] : bag \in bags})
        <4>1. DOMAIN f = bags
          OBVIOUS
        <4> HIDE DEF f
        <4>2. QED
          BY <2>4, <4>1, FiniteImage
      <3>2. QED
        BY <2>4, <3>1
    <2>5. CASE Kind(w, t.step) = "action"
      <3>1. after = {At(bag, c.activations) : bag \in Onward(w, rest, t.owner, t.step)}
        BY <2>5
      <3> HIDE DEF after, rest, At
      <3>2. QED
        BY <1>1, <2>2, <2>4, <3>1, OnwardFinite
    <2>6. CASE Kind(w, t.step) = "fork"
      <3>1. after = {At(rest (+) Branches(w, t), forked)}
        BY <2>6
      <3>2. StepsTyped(rest (+) Branches(w, t))
        <4> DEFINE g == [b \in NextOf(w, t.step) |-> [step |-> b, owner |-> [fork |-> t.step, branch |-> b]]]
                   new == {g[b] : b \in NextOf(w, t.step)}
        <4>1. IsFiniteSet(new) /\ \A u \in new : u.step \in Step
          <5>1. NextOf(w, t.step) \subseteq Step /\ IsFiniteSet(NextOf(w, t.step))
            BY <1>1, WorkflowAssumption, FS_Subset
          <5>2. DOMAIN g = NextOf(w, t.step) /\ \A b \in NextOf(w, t.step) : g[b].step \in Step
            BY <5>1
          <5> HIDE DEF g
          <5>3. QED
            BY <5>1, <5>2, FiniteImage
        <4>2. BagToSet(rest (+) Branches(w, t)) = BagToSet(rest) \cup new
          BY DEF BagToSet, (+), Branches, SetToBag
        <4> HIDE DEF rest, new
        <4>3. QED
          BY <2>2, <4>1, <4>2, FS_Union DEF StepsTyped
      <3>3. after = {At(bag, forked) : bag \in {rest (+) Branches(w, t)}}
        BY <3>1
      <3> DEFINE all == {rest (+) Branches(w, t)}
      <3>4. IsFiniteSet(all) /\ \A bag \in all : StepsTyped(bag)
        BY <3>2, FS_Singleton
      <3>5. after = {At(bag, forked) : bag \in all}
        BY <3>3
      <3> HIDE DEF after, all, forked, At
      <3>6. QED
        BY <2>4, <3>4, <3>5
    <2>7. CASE Kind(w, t.step) = "join"
      <3>1. after = IF ~Ready(w, c.tokens, t) THEN {} ELSE {At(bag, joined) : bag \in behind}
        BY <2>7
      <3>2. IsFiniteSet(behind) /\ \A bag \in behind : StepsTyped(bag)
        BY <1>1, <2>3, OnwardFinite
      <3> HIDE DEF after, behind, joined, At
      <3>3. QED
        BY <2>4, <3>1, <3>2, FS_EmptySet
    <2>8. QED
      BY <2>1, <2>5, <2>6, <2>7
  <1> HIDE DEF after
  <1>4. IsFiniteSet(ExecutionsOf(w, c, t))
    <2> DEFINE f == [d \in after |-> [step |-> t.step, after |-> d]]
    <2>1. DOMAIN f = after
      OBVIOUS
    <2>2. ExecutionsOf(w, c, t) = {f[d] : d \in after}
      BY <1>2
    <2> HIDE DEF f
    <2>3. QED
      BY <1>3, <2>1, <2>2, FiniteImage
  <1>5. QED
    BY <1>2, <1>3, <1>4

\* The same for a whole configuration.
LEMMA ExecutionsFinite ==
  ASSUME NEW w \in Workflow, NEW c, StepsTyped(c.tokens)
  PROVE  /\ IsFiniteSet(Executions(w, c))
         /\ \A e \in Executions(w, c) : StepsTyped(e.after.tokens)
  <1> DEFINE f == [t \in BagToSet(c.tokens) |-> ExecutionsOf(w, c, t)]
             sets == {f[t] : t \in BagToSet(c.tokens)}
  <1>1. Executions(w, c) = UNION sets
    BY DEF Executions
  <1>2. \A t \in BagToSet(c.tokens) : IsFiniteSet(f[t]) /\ \A e \in f[t] : StepsTyped(e.after.tokens)
    BY ExecutionsOfFinite
  <1>3. DOMAIN f = BagToSet(c.tokens)
    OBVIOUS
  <1> HIDE DEF f
  <1>4. IsFiniteSet(sets) /\ \A set \in sets : IsFiniteSet(set)
    BY <1>2, <1>3, FiniteImage DEF StepsTyped
  <1>5. IsFiniteSet(UNION sets)
    <2> HIDE DEF sets
    <2>1. QED
      BY <1>4, FS_UNION
  <1>6. QED
    BY <1>1, <1>2, <1>5
-----------------------------------------------------------------------------
\* The exploration.

\* Whatever a token does in the workflow is one of its executions.
LEMMA StepIsExecution ==
  ASSUME NEW t \in BagToSet(tokens), ExecuteAction(t) \/ ExecuteFork(t) \/ ExecuteJoin(t)
  PROVE  \E e \in Executions(workflow, Current) : e.step = t.step /\ e.after = Current'
  <1> DEFINE e == [step |-> t.step, after |-> Current']
  <1>1. SUFFICES e \in ExecutionsOf(workflow, Current, t)
    BY DEF Executions, Current
  <1>2. facts' = After(workflow, t.step, facts)
    BY DEF ExecuteAction, ExecuteFork, ExecuteJoin, Changed
  <1>3. CASE ExecuteAction(t)
    BY <1>2, <1>3 DEF ExecuteAction, ExecutionsOf, Current
  <1>4. CASE ExecuteFork(t)
    BY <1>2, <1>4 DEF ExecuteFork, ExecutionsOf, Current
  <1>5. CASE ExecuteJoin(t)
    BY <1>2, <1>5 DEF ExecuteJoin, Ready, Arrival, ExecutionsOf, Current
  <1>6. QED
    BY <1>3, <1>4, <1>5

\* Every token that need not wait has an execution.
LEMMA AbleHasExecution ==
  ASSUME IInv, NEW t \in BagToSet(tokens),
         Kind(workflow, t.step) # "join" \/ Ready(workflow, tokens, t)
  PROVE  \E e \in Executions(workflow, Current) : e.step = t.step
  <1>1. t.step \in Step /\ workflow \in Workflow
    BY DEF IInv, TypeOK, Token
  <1>2. Kind(workflow, t.step) \in {"action", "fork", "join"}
    BY <1>1, WorkflowAssumption
  <1>3. \A others, owner : Onward(workflow, others, owner, t.step) # {}
    BY DEF Onward
  <1>4. ExecutionsOf(workflow, Current, t) # {}
    <2>1. CASE Kind(workflow, t.step) = "action"
      BY <1>3, <2>1 DEF ExecutionsOf, Current
    <2>2. CASE Kind(workflow, t.step) = "fork"
      BY <2>2 DEF ExecutionsOf, Current
    <2>3. CASE Kind(workflow, t.step) = "join"
      <3>1. Ready(workflow, Current.tokens, t)
        BY <2>3 DEF Current
      <3>2. PICK bag \in Onward(workflow, Without(Current.tokens, AtJoin(workflow, Current.tokens, t)),
                                ParentOf(Current.activations, ForkOf(workflow, t)), t.step) : TRUE
        BY <1>3
      <3>3. [step |-> t.step,
             after |-> [facts |-> After(workflow, t.step, Current.facts), tokens |-> bag,
                        activations |-> {a \in Current.activations : a.fork # ForkOf(workflow, t)}]]
              \in ExecutionsOf(workflow, Current, t)
        BY <2>3, <3>1, <3>2 DEF ExecutionsOf
      <3>4. QED
        BY <3>3
    <2>4. QED
      BY <1>2, <2>1, <2>2, <2>3
  <1>5. \A e \in ExecutionsOf(workflow, Current, t) : e.step = t.step
    BY DEF ExecutionsOf
  <1>6. QED
    BY <1>4, <1>5 DEF Executions, Current

\* An exploration that goes on finds finitely many configurations.
LEMMA NewFinite ==
  ASSUME workflow \in Workflow, Searching, Len(graph) < Len(nodes)
  PROVE  /\ Len(graph) + 1 \in DOMAIN nodes /\ Found = Executions(workflow, nodes[Len(graph) + 1])
         /\ IsFiniteSet(New) /\ \A c \in New : StepsTyped(c.tokens)
  <1> DEFINE n == Len(graph) + 1
  <1>1. n \in DOMAIN nodes /\ Found = Executions(workflow, nodes[n])
    BY DEF Searching, Explored, Found, Frontier
  <1>2. IsFiniteSet(Found) /\ \A e \in Found : StepsTyped(e.after.tokens)
    <2>1. StepsTyped(nodes[n].tokens)
      BY <1>1 DEF Searching
    <2> HIDE DEF n
    <2>2. QED
      BY <1>1, <2>1, ExecutionsFinite
  <1> DEFINE f == [e \in Found |-> e.after]
  <1>3. New \in SUBSET {f[e] : e \in Found}
    BY DEF New
  <1>4. IsFiniteSet({f[e] : e \in Found})
    <2>1. DOMAIN f = Found
      OBVIOUS
    <2> HIDE DEF f
    <2>2. QED
      BY <1>2, <2>1, FiniteImage
  <1>5. \A c \in New : StepsTyped(c.tokens)
    BY <1>2 DEF New
  <1> HIDE DEF f
  <1>6. QED
    BY <1>1, <1>3, <1>4, <1>5, FS_Subset

\* The nodes are kept, and what is new is listed behind them.
LEMMA NodesGrow ==
  ASSUME workflow \in Workflow, Searching, Expand
  PROVE  /\ Len(nodes') = Len(nodes) + Cardinality(New) /\ Cardinality(New) \in Nat
         /\ DOMAIN nodes' = 1 .. Len(nodes') /\ DOMAIN nodes = 1 .. Len(nodes) /\ Len(nodes) \in Nat
         /\ \A i \in DOMAIN nodes : nodes'[i] = nodes[i]
         /\ \A i \in DOMAIN nodes' : i \notin DOMAIN nodes => nodes'[i] \in New
         /\ \A c \in New : \E i \in DOMAIN nodes' : nodes'[i] = c
         /\ nodes' \in Seq({nodes'[i] : i \in DOMAIN nodes'})
  <1> DEFINE more == Ext!SetToSeq(New)
  <1>1. nodes' = nodes \o more /\ Len(graph) < Len(nodes)
    BY DEF Expand
  <1>2. /\ more \in Seq(New) /\ Len(more) = Cardinality(New) /\ Cardinality(New) \in Nat
        /\ \A c \in New : \E i \in DOMAIN more : more[i] = c
    BY <1>1, NewFinite, SetListed
  <1> HIDE DEF more
  <1>3. nodes \in Seq({nodes[i] : i \in DOMAIN nodes})
    BY DEF Searching
  <1> DEFINE all == {nodes[i] : i \in DOMAIN nodes} \cup New
  <1>4. nodes \in Seq(all) /\ more \in Seq(all)
    BY <1>2, <1>3
  <1> HIDE DEF all
  <1>5. /\ Len(nodes') = Len(nodes) + Len(more) /\ DOMAIN nodes' = 1 .. Len(nodes')
        /\ DOMAIN nodes = 1 .. Len(nodes) /\ Len(nodes) \in Nat
    BY <1>1, <1>4
  <1>6. \A i \in DOMAIN nodes : nodes'[i] = nodes[i]
    BY <1>1, <1>4
  <1>7. ASSUME NEW i \in DOMAIN nodes', i \notin DOMAIN nodes PROVE nodes'[i] \in New
    <2>1. i - Len(nodes) \in DOMAIN more /\ nodes'[i] = more[i - Len(nodes)]
      BY <1>1, <1>4, <1>5, <1>7
    <2>2. QED
      BY <1>2, <2>1
  <1>8. ASSUME NEW c \in New PROVE \E i \in DOMAIN nodes' : nodes'[i] = c
    <2>1. PICK i \in DOMAIN more : more[i] = c
      BY <1>2
    <2>2. Len(nodes) + i \in DOMAIN nodes' /\ nodes'[Len(nodes) + i] = more[i]
      BY <1>1, <1>4
    <2>3. QED
      BY <2>1, <2>2
  <1>9. nodes' \in Seq({nodes'[i] : i \in DOMAIN nodes'})
    <2>1. nodes' \in Seq(all)
      BY <1>1, <1>4
    <2>2. QED
      BY <2>1
  <1>10. QED
    BY <1>2, <1>5, <1>6, <1>7, <1>8, <1>9

\* One more configuration is explored; what follows it is listed behind.
LEMMA ExpandKeeps ==
  ASSUME TypeOK, VInv, Expand
  PROVE  VInv'
  <1>1. result.status = "open" /\ result' = result /\ UNCHANGED vars /\ Searching
    BY DEF Expand, Verifying, VInv
  <1> DEFINE n == Len(graph) + 1
  <1>2. graph' = Append(graph, Found) /\ Len(graph) < Len(nodes) /\ Accepted(nodes[n])
    BY DEF Expand, WithinLimits, Accepted, Frontier
  <1>3. graph \in Seq({graph[i] : i \in DOMAIN graph})
    BY <1>1 DEF Searching, Explored
  <1>4. /\ n \in DOMAIN nodes /\ Found = Executions(workflow, nodes[n])
        /\ \A c \in New : StepsTyped(c.tokens)
    BY <1>1, <1>2, NewFinite DEF TypeOK
  <1>5. /\ \A i \in DOMAIN nodes : i \in DOMAIN nodes' /\ nodes'[i] = nodes[i]
        /\ \A i \in DOMAIN nodes' : i \notin DOMAIN nodes => nodes'[i] \in New
        /\ \A c \in New : \E i \in DOMAIN nodes' : nodes'[i] = c
        /\ nodes' \in Seq({nodes'[i] : i \in DOMAIN nodes'})
        /\ Len(nodes') >= Len(nodes) /\ DOMAIN nodes = 1 .. Len(nodes)
    BY <1>1, NodesGrow DEF TypeOK
  <1>6. \A e \in Found : \E k \in DOMAIN nodes' : nodes'[k] = e.after
    <2>1. \A e \in Found : e.after \in New \/ \E k \in DOMAIN nodes : nodes[k] = e.after
      BY DEF New, Ext!ToSet
    <2>2. QED
      BY <1>5, <2>1
  <1> DEFINE all == {graph[i] : i \in DOMAIN graph} \cup {Found}
  <1>7. /\ Len(graph') = n /\ DOMAIN graph' = 1 .. n /\ graph'[n] = Found
        /\ \A i \in 1 .. Len(graph) : graph'[i] = graph[i] /\ i \in DOMAIN graph
        /\ graph' \in Seq(all)
    <2>1. graph \in Seq(all) /\ Found \in all
      BY <1>3
    <2> HIDE DEF all
    <2>2. /\ graph' \in Seq(all) /\ Len(graph') = n /\ graph'[n] = Found
          /\ \A i \in 1 .. Len(graph) : graph'[i] = graph[i]
      BY <1>2, <2>1
    <2>3. DOMAIN graph' = 1 .. n /\ DOMAIN graph = 1 .. Len(graph)
      BY <2>1, <2>2
    <2>4. QED
      BY <2>2, <2>3
  <1> HIDE DEF all
  <1>8. graph' \in Seq({graph'[i] : i \in DOMAIN graph'})
    BY <1>7
  <1>9. Explored'
    <2>1. Len(graph') <= Len(nodes')
      BY <1>2, <1>3, <1>5, <1>7
    <2>2. ASSUME NEW i \in 1 .. Len(graph)
          PROVE  /\ Accepted(nodes'[i])
                 /\ graph'[i] = Executions(workflow, nodes'[i])
                 /\ \A e \in graph'[i] : \E k \in DOMAIN nodes' : nodes'[k] = e.after
      <3>1. i \in DOMAIN nodes /\ i \in DOMAIN graph /\ graph'[i] = graph[i]
        BY <1>2, <1>3, <1>5, <1>7
      <3>2. nodes'[i] = nodes[i]
        BY <1>5, <3>1
      <3>3. /\ Accepted(nodes[i])
            /\ graph[i] = Executions(workflow, nodes[i])
            /\ \A e \in graph[i] : \E k \in DOMAIN nodes : nodes[k] = e.after
        BY <1>1, <3>1 DEF Searching, Explored
      <3>4. \A e \in graph[i] : \E k \in DOMAIN nodes' : nodes'[k] = e.after
        BY <1>5, <3>3
      <3>5. QED
        BY <3>1, <3>2, <3>3, <3>4
    <2>3. /\ Accepted(nodes'[n])
          /\ graph'[n] = Executions(workflow, nodes'[n])
          /\ \A e \in graph'[n] : \E k \in DOMAIN nodes' : nodes'[k] = e.after
      <3>1. nodes'[n] = nodes[n]
        BY <1>4, <1>5
      <3>2. QED
        BY <1>2, <1>4, <1>6, <1>7, <3>1
    <2>4. \A i \in DOMAIN graph' : i \in 1 .. Len(graph) \/ i = n
      BY <1>3, <1>7
    <2>5. workflow' = workflow
      BY <1>1 DEF vars
    <2> HIDE DEF n
    <2>6. ASSUME NEW i \in DOMAIN graph'
          PROVE  /\ Accepted(nodes'[i])
                 /\ graph'[i] = Executions(workflow, nodes'[i])
                 /\ \A e \in graph'[i] : \E k \in DOMAIN nodes' : nodes'[k] = e.after
      BY <2>2, <2>3, <2>4
    <2>7. ASSUME NEW i \in DOMAIN graph'
          PROVE  /\ ~Rejected(workflow', nodes'[i].tokens, nodes'[i].activations)
                 /\ graph'[i] = Executions(workflow', nodes'[i])
                 /\ \A e \in graph'[i] : \E k \in DOMAIN nodes' : nodes'[k] = e.after
      BY <2>5, <2>6 DEF Accepted
    <2>8. QED
      BY <1>8, <2>1, <2>7 DEF Explored, Accepted
  <1>10. Searching'
    <2>1. ASSUME NEW i \in DOMAIN nodes' PROVE StepsTyped(nodes'[i].tokens)
      BY <1>1, <1>4, <1>5 DEF Searching
    <2>2. nodes' # <<>> /\ nodes'[1] = nodes[1]
      <3>1. nodes \in Seq({nodes[i] : i \in DOMAIN nodes}) /\ nodes # <<>>
        BY <1>1 DEF Searching
      <3>2. 1 \in DOMAIN nodes
        BY <3>1
      <3>3. 1 \in DOMAIN nodes' /\ nodes'[1] = nodes[1]
        BY <1>5, <3>2
      <3>4. QED
        BY <3>3
    <2>3. Current' = Current /\ verdict' = verdict
      BY <1>1 DEF vars, Current
    <2>4. QED
      BY <1>1, <1>5, <1>9, <2>1, <2>2, <2>3 DEF Searching
  <1>11. QED
    BY <1>1, <1>10 DEF VInv, Reported

\* A report is made when everything has been explored.
LEMMA ReportKeeps ==
  ASSUME TypeOK, VInv, Report
  PROVE  VInv'
  <1>1. /\ result.status = "open" /\ UNCHANGED vars /\ Searching
        /\ Len(graph) = Len(nodes)
    BY DEF Report, Verifying, VInv
  <1> DEFINE missing == {id \in DOMAIN Guaranteed : ~(Requires(workflow, id) \subseteq Guaranteed[id])}
  <1> PICK set : set = {nodes[i] : i \in DOMAIN nodes}
    OBVIOUS
  <1>2. result' = [status |-> IF missing \cup Blocked = {} THEN "valid" ELSE "invalid",
                   guaranteed |-> Guaranteed, blocked |-> Blocked]
    BY DEF Report
  <1>3. result'.status \in {"valid", "invalid"} /\ result'.guaranteed = Guaranteed
        /\ (result'.status = "valid" => missing = {})
    BY <1>2
  <1>4. DOMAIN graph = DOMAIN nodes
    BY <1>1 DEF Searching, Explored
  <1>5. Current' = Current /\ verdict' = "exploring" /\ workflow' = workflow
    BY <1>1 DEF vars, Current, Searching
  <1>6. Current \in set
    BY <1>1 DEF Searching
  <1>7. ASSUME NEW i \in DOMAIN graph, NEW e \in graph[i]
        PROVE  e.step \in DOMAIN Guaranteed /\ Guaranteed[e.step] \subseteq nodes[i].facts
    BY DEF Guaranteed, Executed
  <1>8. Sound(set)'
    <2>1. ASSUME NEW i \in DOMAIN nodes
          PROVE  /\ Accepted(nodes[i])
                 /\ \A e \in Executions(workflow, nodes[i]) :
                      /\ e.after \in set
                      /\ e.step \in DOMAIN Guaranteed /\ Guaranteed[e.step] \subseteq nodes[i].facts
      BY <1>1, <1>4, <1>7 DEF Searching, Explored
    <2> SUFFICES ASSUME NEW c \in set
                 PROVE  /\ Accepted(c)'
                        /\ \A e \in Executions(workflow, c)' :
                             /\ e.after \in set
                             /\ e.step \in DOMAIN result'.guaranteed
                             /\ result'.guaranteed[e.step] \subseteq c.facts
      BY DEF Sound
    <2>2. QED
      BY <1>3, <1>5, <2>1 DEF Accepted
  <1> HIDE DEF missing
  <1>9. result'.status = "valid" =>
          \A id \in DOMAIN result'.guaranteed : Requires(workflow', id) \subseteq result'.guaranteed[id]
    BY <1>3, <1>5 DEF missing
  <1>10. QED
    BY <1>3, <1>5, <1>6, <1>8, <1>9 DEF VInv

\* What follows a report is one of the configurations it is about.
LEMMA RunKeeps ==
  ASSUME TypeOK, VInv, Run
  PROVE  VInv'
  <1>1. result.status # "open" /\ result' = result /\ Next
    BY DEF Run, verification
  <1>2. SUFFICES ASSUME Reported PROVE VInv'
    BY <1>1 DEF VInv, Reported
  <1>3. PICK set : Current \in set /\ Sound(set)
    BY <1>2 DEF VInv
  <1>4. ~Rejected(workflow, tokens, activations)
    BY <1>3 DEF Sound, Accepted, Current
  <1>5. PICK t \in BagToSet(tokens) : ExecuteAction(t) \/ ExecuteFork(t) \/ ExecuteJoin(t)
    BY <1>1, <1>4 DEF Next, Reject
  <1>6. workflow' = workflow /\ verdict' = verdict
    BY <1>5 DEF ExecuteAction, ExecuteFork, ExecuteJoin, Changed
  <1>7. PICK e \in Executions(workflow, Current) : e.after = Current'
    BY <1>5, StepIsExecution
  <1>8. Current' \in set
    BY <1>3, <1>7 DEF Sound
  <1>9. Sound(set)'
    BY <1>1, <1>3, <1>6 DEF Sound, Accepted
  <1>10. QED
    BY <1>1, <1>2, <1>6, <1>8, <1>9 DEF VInv, Reported

\* Limits that cut the exploration off leave it without a verdict.
LEMMA VerdictInvariance == VerdictSpec => []VInv
  <1>1. VerdictInit => VInv
    <2> SUFFICES ASSUME VerdictInit PROVE VInv
      OBVIOUS
    <2>1. /\ result = IF Valid(workflow) THEN Open ELSE Unknown
          /\ nodes = <<Start(workflow)>> /\ graph = <<>> /\ Init
      BY DEF VerdictInit
    <2>2. result.status \in {"open", "unknown"} /\ (result.status = "open" => Valid(workflow))
      BY <2>1 DEF Open, Unknown
    <2>3. Start(workflow) = Current
      BY <2>1 DEF Start, Current, Init
    <2>4. StepsTyped(tokens)
      <3>1. BagToSet(tokens) = {[step |-> Entry(workflow), owner |-> NoBranch]}
        BY <2>1, SetsAreSingle DEF Init
      <3>2. Entry(workflow) \in Step
        BY <2>1, WorkflowAssumption DEF Init
      <3>3. IsFiniteSet({[step |-> Entry(workflow), owner |-> NoBranch]})
        BY FS_Singleton
      <3>4. QED
        BY <3>1, <3>2, <3>3 DEF StepsTyped
    <2>5. Searching \/ ~Valid(workflow)
      <3>1. verdict = "exploring" \/ ~Valid(workflow)
        BY <2>1 DEF Init
      <3>2. /\ nodes # <<>> /\ nodes[1] = Current /\ DOMAIN nodes = {1}
            /\ \A i \in DOMAIN nodes : nodes[i] = Current
        BY <2>1, <2>3
      <3>6. nodes \in Seq({nodes[i] : i \in DOMAIN nodes})
        <4>1. Current \in {nodes[i] : i \in DOMAIN nodes}
          BY <3>2
        <4>2. QED
          BY <2>1, <2>3, <4>1
      <3>3. Explored
        BY <2>1 DEF Explored
      <3>4. \A i \in DOMAIN nodes : StepsTyped(nodes[i].tokens)
        BY <2>4, <3>2 DEF Current
      <3>5. QED
        BY <3>1, <3>2, <3>3, <3>4, <3>6 DEF Searching
    <2>6. QED
      BY <2>2, <2>5 DEF VInv, Reported
  <1>2. TypeOK /\ VInv /\ [VerdictNext]_<<vars, verification>> => VInv'
    <2> SUFFICES ASSUME TypeOK, VInv, [VerdictNext]_<<vars, verification>> PROVE VInv'
      OBVIOUS
    <2>1. CASE GiveUp \/ Exhaust
      BY <2>1 DEF GiveUp, Exhaust, Unknown, Open, VInv, Reported
    <2>2. CASE UNCHANGED <<vars, verification>>
      BY <2>2 DEF vars, verification, VInv, Reported, Searching, Explored, Current, Accepted, Sound
    <2>3. QED
      BY <2>1, <2>2, ExpandKeeps, ReportKeeps, RunKeeps DEF VerdictNext
  <1>3. QED
    BY <1>1, <1>2, VerdictRunsWorkflow, TypeCorrect, PTL DEF VerdictSpec

\* Whatever limits cut other explorations off, a workflow that got a verdict never
\* misuses a fork or a join in any interleaving, and every step finds the facts the
\* verdict guarantees for it.
THEOREM VerdictSound == VerdictSpec => []VerdictCoversEveryInterleaving
  <1>1. IInv /\ VInv => VerdictCoversEveryInterleaving
    <2> SUFFICES ASSUME IInv, VInv, Reported
                 PROVE  /\ verdict = "exploring" /\ ~Rejected(workflow, tokens, activations)
                        /\ \A s \in Executing :
                             /\ s \in DOMAIN result.guaranteed
                             /\ result.guaranteed[s] \subseteq facts
                             /\ result.status = "valid" => Requires(workflow, s) \subseteq facts
      BY DEF VerdictCoversEveryInterleaving
    <2>1. PICK set : Current \in set /\ Sound(set)
      BY DEF VInv
    <2>2. verdict = "exploring" /\ ~Rejected(workflow, tokens, activations)
      BY <2>1 DEF VInv, Sound, Accepted, Current
    <2>3. ASSUME NEW s \in Executing
          PROVE  /\ s \in DOMAIN result.guaranteed
                 /\ result.guaranteed[s] \subseteq facts
                 /\ result.status = "valid" => Requires(workflow, s) \subseteq facts
      <3>1. PICK e \in Executions(workflow, Current) : e.step = s
        BY AbleHasExecution DEF Executing
      <3>2. s \in DOMAIN result.guaranteed /\ result.guaranteed[s] \subseteq Current.facts
        BY <2>1, <3>1 DEF Sound
      <3>3. Current.facts = facts
        BY DEF Current
      <3>4. QED
        BY <3>2, <3>3 DEF VInv
    <2>4. QED
      BY <2>2, <2>3
  <1>2. QED
    BY <1>1, VerdictRunsWorkflow, Invariance, VerdictInvariance, PTL

-----------------------------------------------------------------------------
\* Rounds that only add to a set.

\* A function defined by recursion on numbers that starts and stays in a set S.
LEMMA RoundsStay ==
  ASSUME NEW S, NEW a \in S, NEW g \in [S -> S], NEW r, r = [n \in Nat |-> r[n]], r[0] = a,
         \A n \in Nat : r[n] \in S => r[n + 1] = g[r[n]]
  PROVE  r \in [Nat -> S] /\ \A n \in Nat : r[n + 1] = g[r[n]]
  <1>1. \A n \in Nat : r[n] \in S
    <2> DEFINE T == {n \in Nat : r[n] \notin S}
    <2>1. SUFFICES ASSUME T # {} PROVE FALSE
      OBVIOUS
    <2>2. PICK n \in T : \A m \in T : n <= m
      <3>1. T \in SUBSET Nat
        OBVIOUS
      <3> HIDE DEF T
      <3>2. QED
        BY <2>1, <3>1, LeastNat
    <2>3. n \in Nat /\ n # 0
      BY <2>2
    <2>4. n - 1 \in Nat /\ (n - 1) + 1 = n /\ n - 1 \notin T
      BY <2>2, <2>3
    <2>5. r[n - 1] \in S /\ r[n] = g[r[n - 1]]
      BY <2>4
    <2>6. QED
      BY <2>2, <2>5
  <1>2. QED
    BY <1>1

\* After as many rounds as there are elements, nothing is added any more.
LEMMA RoundsEnd ==
  ASSUME NEW U, IsFiniteSet(U), NEW g \in [SUBSET U -> SUBSET U],
         \A x \in SUBSET U : x \subseteq g[x],
         NEW r \in [Nat -> SUBSET U], \A n \in Nat : r[n + 1] = g[r[n]],
         NEW limit \in Nat, Cardinality(U) <= limit
  PROVE  g[r[limit]] = r[limit] /\ r[0] \subseteq r[limit]
  <1> DEFINE N == Cardinality(U)
  <1>1. N \in Nat
    BY FS_CardinalityType
  <1>2. g[r[N]] = r[N]
    BY GrowthEnds
  <1> HIDE DEF N
  <1>3. r[limit] = r[N]
    <2> DEFINE T == {n \in Nat : N <= n /\ r[n] # r[N]}
    <2>1. SUFFICES ASSUME T # {} PROVE FALSE
      BY DEF N
    <2>2. PICK n \in T : \A m \in T : n <= m
      <3>1. T \in SUBSET Nat
        OBVIOUS
      <3> HIDE DEF T
      <3>2. QED
        BY <2>1, <3>1, LeastNat
    <2>3. n \in Nat /\ N <= n /\ n # N
      BY <2>2
    <2>4. n - 1 \in Nat /\ N <= n - 1 /\ (n - 1) + 1 = n /\ n - 1 \notin T
      BY <1>1, <2>2, <2>3
    <2>5. r[n - 1] = r[N] /\ r[n] = g[r[n - 1]]
      BY <2>4
    <2>6. QED
      BY <1>2, <2>2, <2>5
  <1>4. r[0] \subseteq r[limit]
    <2> DEFINE T == {n \in Nat : ~(r[0] \subseteq r[n])}
    <2>1. SUFFICES ASSUME T # {} PROVE FALSE
      OBVIOUS
    <2>2. PICK n \in T : \A m \in T : n <= m
      <3>1. T \in SUBSET Nat
        OBVIOUS
      <3> HIDE DEF T
      <3>2. QED
        BY <2>1, <3>1, LeastNat
    <2>3. n \in Nat /\ n # 0
      BY <2>2
    <2>4. n - 1 \in Nat /\ (n - 1) + 1 = n /\ n - 1 \notin T
      BY <2>2, <2>3
    <2>5. r[0] \subseteq r[n - 1] /\ r[n] = g[r[n - 1]] /\ r[n - 1] \subseteq g[r[n - 1]]
      BY <2>4
    <2>6. QED
      BY <2>2, <2>5
  <1>5. QED
    BY <1>2, <1>3, <1>4

-----------------------------------------------------------------------------
\* The configurations that follow.

\* A set of configurations no execution leaves.
Closed(w, set) == \A c \in set : \A e \in Executions(w, c) : e.after \in set

\* What one round adds to a set.
Extended(w, x) == x \cup {e.after : e \in UNION {Executions(w, c) : c \in x}}

\* `Following` is reached round by round.
LEMMA FollowingRounds ==
  ASSUME NEW w, NEW U, Closed(w, U), NEW from \in SUBSET U
  PROVE  \E r : /\ r[0] = from /\ r = [n \in Nat |-> r[n]]
                /\ \A n \in Nat : r[n + 1] = Extended(w, r[n])
                /\ Following(w, from) = r[limits.maxConfigurations]
  <1> DEFINE more(x) == Extended(w, x)
             S == SUBSET U
             g == [x \in S |-> more(x)]
             body(h, n) == IF n = 0 THEN from ELSE more(h[n - 1])
             Recursive(h) == h = [n \in Nat |-> body(h, n)]
             max == limits.maxConfigurations
  <1>1. \A x \in S : more(x) \in S /\ x \subseteq more(x)
    BY DEF Closed, Extended
  <1>4. \A h : body(h, 0) = from
    OBVIOUS
  <1>5. \A h : \A n \in Nat : n # 0 => body(h, n) = more(h[n - 1])
    OBVIOUS
  <1>6. Following(w, from) = (CHOOSE h : Recursive(h))[max]
    BY DEF Following, Extended
  <1> HIDE DEF more, body
  <1>7. g \in [S -> S] /\ \A x \in S : g[x] = more(x)
    BY <1>1
  <1>8. from \in S
    OBVIOUS
  <1> HIDE DEF S, g, max
  <1>9. \E h : Recursive(h)
    <2>1. PICK f \in [Nat -> S] : f[0] = from /\ \A n \in Nat : f[n + 1] = g[f[n]]
      <3>1. from \in S /\ g \in [S -> S]
        BY <1>7, <1>8
      <3>2. \E f \in [Nat -> S] : f[0] = from /\ \A n \in Nat : f[n + 1] = g[f[n]]
        BY <3>1, Iterates, Z3T(20)
      <3>3. QED
        BY <3>2
    <2>2. ASSUME NEW n \in Nat, n # 0 PROVE f[n] = more(f[n - 1])
      <3>1. n - 1 \in Nat /\ (n - 1) + 1 = n
        BY <2>2
      <3>2. f[(n - 1) + 1] = g[f[n - 1]] /\ f[n - 1] \in S
        BY <2>1, <3>1
      <3>3. QED
        BY <1>7, <3>1, <3>2
    <2> DEFINE h == [n \in Nat |-> body(f, n)]
    <2>3. \A n \in Nat : f[n] = h[n]
      BY <1>4, <1>5, <2>1, <2>2
    <2>4. DOMAIN h = Nat /\ h = [n \in Nat |-> h[n]] /\ f = [n \in Nat |-> f[n]]
      BY <2>1
    <2>5. f = h
      <3> HIDE DEF h
      <3>1. QED
        BY <2>3, <2>4
    <2>6. QED
      BY <2>5
  <1> DEFINE r == CHOOSE h : Recursive(h)
  <1>10. Recursive(r)
    <2> HIDE DEF Recursive
    <2>1. QED
      BY <1>9
  <1> HIDE DEF r
  <1>11. r[0] = from /\ r = [n \in Nat |-> r[n]]
    BY <1>4, <1>10
  <1>12. ASSUME NEW n \in Nat PROVE r[n + 1] = more(r[n])
    <2>1. n + 1 \in Nat /\ n + 1 # 0 /\ (n + 1) - 1 = n
      OBVIOUS
    <2>2. r[n + 1] = body(r, n + 1)
      BY <1>10, <2>1
    <2>3. QED
      BY <1>5, <2>1, <2>2
  <1>13. Following(w, from) = r[max]
    BY <1>6 DEF r
  <1>14. QED
    BY <1>11, <1>12, <1>13 DEF more, max

\* In a finite closed set with no more than maxConfigurations elements, `Following` is the
\* least closed set.
LEMMA FollowingLeast ==
  ASSUME NEW w, NEW U, IsFiniteSet(U), Closed(w, U), limits.maxConfigurations \in Nat,
         Cardinality(U) <= limits.maxConfigurations, NEW from \in SUBSET U
  PROVE  /\ from \subseteq Following(w, from) /\ Following(w, from) \subseteq U
         /\ Closed(w, Following(w, from))
         /\ \A X : from \subseteq X /\ Closed(w, X) => Following(w, from) \subseteq X
  <1> PICK max : max = limits.maxConfigurations
    OBVIOUS
  <1> DEFINE S == SUBSET U
             g == [x \in S |-> Extended(w, x)]
  <1>1. \A x \in S : Extended(w, x) \in S /\ x \subseteq Extended(w, x)
    BY DEF Closed, Extended
  <1>2. \A x : \A c \in x : \A e \in Executions(w, c) : e.after \in Extended(w, x)
    BY DEF Extended
  <1>3. ASSUME NEW X, Closed(w, X), NEW x, x \subseteq X PROVE Extended(w, x) \subseteq X
    BY <1>3 DEF Closed, Extended
  <1>4. PICK r : /\ r[0] = from /\ r = [n \in Nat |-> r[n]]
                 /\ \A n \in Nat : r[n + 1] = Extended(w, r[n])
                 /\ Following(w, from) = r[max]
    BY FollowingRounds
  <1>5. from \in S /\ g \in [S -> S] /\ \A x \in S : g[x] = Extended(w, x)
    BY <1>1
  <1> HIDE DEF S, g
  <1>6. r \in [Nat -> S] /\ \A n \in Nat : r[n + 1] = g[r[n]]
    <2>1. /\ from \in S /\ g \in [S -> S] /\ r = [n \in Nat |-> r[n]] /\ r[0] = from
          /\ \A n \in Nat : r[n] \in S => r[n + 1] = g[r[n]]
      BY <1>4, <1>5
    <2>2. QED
      BY <2>1, RoundsStay
  <1>7. max \in Nat /\ Cardinality(U) <= max
    OBVIOUS
  <1>8. g[r[max]] = r[max] /\ r[0] \subseteq r[max]
    <2>1. /\ IsFiniteSet(U) /\ g \in [SUBSET U -> SUBSET U] /\ r \in [Nat -> SUBSET U]
          /\ \A x \in SUBSET U : x \subseteq g[x]
          /\ \A n \in Nat : r[n + 1] = g[r[n]]
          /\ max \in Nat /\ Cardinality(U) <= max
      BY <1>1, <1>5, <1>6, <1>7 DEF S
    <2>2. QED
      BY ONLY <2>1, RoundsEnd
  <1>9. r[max] \in S /\ Extended(w, r[max]) = r[max]
    BY <1>5, <1>6, <1>7, <1>8
  <1>10. Closed(w, r[max])
    BY <1>2, <1>9 DEF Closed
  <1>11. ASSUME NEW X, from \subseteq X, Closed(w, X) PROVE r[max] \subseteq X
    <2> DEFINE T == {n \in Nat : ~(r[n] \subseteq X)}
    <2>1. SUFFICES ASSUME T # {} PROVE FALSE
      BY <1>7
    <2>2. PICK n \in T : \A m \in T : n <= m
      <3>1. T \in SUBSET Nat
        OBVIOUS
      <3> HIDE DEF T
      <3>2. QED
        BY <2>1, <3>1, LeastNat
    <2>3. n \in Nat /\ n # 0
      BY <1>4, <1>11, <2>2
    <2>4. n - 1 \in Nat /\ (n - 1) + 1 = n /\ n - 1 \notin T
      BY <2>2, <2>3
    <2>5. r[n - 1] \subseteq X /\ r[(n - 1) + 1] = Extended(w, r[n - 1])
      BY <1>4, <2>4
    <2>6. Extended(w, r[n - 1]) \subseteq X
      BY <1>3, <1>11, <2>5
    <2>7. QED
      BY <2>2, <2>4, <2>5, <2>6
  <1>12. QED
    BY <1>4, <1>8, <1>9, <1>10, <1>11 DEF S

-----------------------------------------------------------------------------
\* The forks that can still join.

\* One configuration follows another.
Leads(i, k) == i \in DOMAIN graph /\ k \in DOMAIN nodes /\ \E e \in graph[i] : e.after = nodes[k]

\* The pairs a round of CanJoin adds: what can join from a configuration can join from
\* those it follows.
Joining(known) ==
  known \cup UNION {{<<i, p[2]>> : p \in {q \in known : Leads(i, q[1])}} : i \in DOMAIN graph}

JoinsNow == UNION {{i} \X Goals(i) : i \in DOMAIN graph}

LEMMA CanJoinRounds ==
  \E r : /\ r[0] = JoinsNow /\ \A n \in Nat : r[n + 1] = Joining(r[n])
         /\ CanJoin = r[Len(nodes)]
  <1> DEFINE forks == UNION {Goals(i) : i \in DOMAIN graph}
             all == (DOMAIN graph) \X forks
             edges == UNION {{<<i, k>> : k \in {l \in DOMAIN nodes :
                               \E e \in graph[i] : e.after = nodes[l]}} : i \in DOMAIN graph}
             more(x) == x \cup UNION {{<<e[1], k[2]>> : k \in {j \in x : j[1] = e[2]}} : e \in edges}
             S == SUBSET all
             start == JoinsNow
             g == [x \in S |-> more(x)]
             body(h, n) == IF n = 0 THEN start ELSE more(h[n - 1])
             Recursive(h) == h = [n \in Nat |-> body(h, n)]
             max == Len(nodes)
  <1>1. \A i, k : <<i, k>> \in edges <=> Leads(i, k)
    BY DEF Leads
  <1>2. \A e \in edges : e = <<e[1], e[2]>>
    OBVIOUS
  <1>3. CanJoin = (CHOOSE h : Recursive(h))[max]
    BY DEF CanJoin, JoinsNow
  <1> HIDE DEF edges
  <1>4. ASSUME NEW x PROVE more(x) = Joining(x)
    <2>1. \A p : p \in more(x) <=>
            p \in x \/ \E e \in edges : \E k \in x : k[1] = e[2] /\ p = <<e[1], k[2]>>
      OBVIOUS
    <2>2. \A p : p \in Joining(x) <=>
            p \in x \/ \E i \in DOMAIN graph : \E k \in x : Leads(i, k[1]) /\ p = <<i, k[2]>>
      BY DEF Joining
    <2> HIDE DEF more
    <2>3. ASSUME NEW e \in edges, NEW k \in x, k[1] = e[2]
          PROVE  e[1] \in DOMAIN graph /\ Leads(e[1], k[1])
      <3>1. PICK i, l : e = <<i, l>>
        BY <1>2
      <3>2. Leads(i, l)
        BY <1>1, <3>1
      <3>3. QED
        BY <2>3, <3>1, <3>2 DEF Leads
    <2>4. ASSUME NEW i \in DOMAIN graph, NEW k \in x, Leads(i, k[1])
          PROVE  <<i, k[1]>> \in edges
      BY <1>1, <2>4
    <2>5. \A p : p \in more(x) => p \in Joining(x)
      BY <2>1, <2>2, <2>3
    <2>6. \A p : p \in Joining(x) => p \in more(x)
      <3> SUFFICES ASSUME NEW i \in DOMAIN graph, NEW k \in x, Leads(i, k[1])
                   PROVE  <<i, k[2]>> \in more(x)
        BY <2>1, <2>2
      <3>1. <<i, k[1]>> \in edges
        BY <2>4
      <3>2. QED
        BY <2>1, <3>1
    <2>7. QED
      BY <2>5, <2>6
  <1>5. \A h : body(h, 0) = start
    OBVIOUS
  <1>6. \A h : \A n \in Nat : n # 0 => body(h, n) = more(h[n - 1])
    OBVIOUS
  <1> HIDE DEF more, body
  <1>7. start \in S
    <2> SUFFICES ASSUME NEW p \in JoinsNow PROVE p \in all
      OBVIOUS
    <2>1. PICK i \in DOMAIN graph : p \in {i} \X Goals(i)
      BY DEF JoinsNow
    <2>2. PICK h \in Goals(i) : p = <<i, h>>
      BY <2>1
    <2>3. h \in forks
      OBVIOUS
    <2> HIDE DEF forks
    <2>4. <<i, h>> \in (DOMAIN graph) \X forks
      BY <2>3
    <2>5. QED
      BY <2>2, <2>4
  <1> HIDE DEF forks
  <1>8. \A x \in S : more(x) \in S
    <2> SUFFICES ASSUME NEW x \in S, NEW p \in Joining(x) PROVE p \in all
      BY <1>4
    <2>1. CASE p \in x
      BY <2>1
    <2>2. CASE \E i \in DOMAIN graph : \E k \in x : Leads(i, k[1]) /\ p = <<i, k[2]>>
      <3>1. PICK i \in DOMAIN graph, k \in x : p = <<i, k[2]>>
        BY <2>2
      <3>2. k \in (DOMAIN graph) \X forks
        BY DEF S
      <3>3. k[2] \in forks
        BY <3>2
      <3>4. <<i, k[2]>> \in (DOMAIN graph) \X forks
        BY <3>3
      <3>5. QED
        BY <3>1, <3>4
    <2>3. QED
      BY <2>1, <2>2 DEF Joining
  <1>9. g \in [S -> S] /\ \A x \in S : g[x] = more(x)
    BY <1>8
  <1> HIDE DEF S, g, max, start
  <1>10. \E h : Recursive(h)
    <2>1. PICK f \in [Nat -> S] : f[0] = start /\ \A n \in Nat : f[n + 1] = g[f[n]]
      <3>1. start \in S /\ g \in [S -> S]
        BY <1>7, <1>9
      <3>2. \E f \in [Nat -> S] : f[0] = start /\ \A n \in Nat : f[n + 1] = g[f[n]]
        BY ONLY <3>1, Iterates, Z3T(20)
      <3>3. QED
        BY <3>2
    <2>2. ASSUME NEW n \in Nat, n # 0 PROVE f[n] = more(f[n - 1])
      <3>1. n - 1 \in Nat /\ (n - 1) + 1 = n
        BY <2>2
      <3>2. f[(n - 1) + 1] = g[f[n - 1]] /\ f[n - 1] \in S
        BY <2>1, <3>1
      <3>3. QED
        BY <1>9, <3>1, <3>2
    <2> DEFINE h == [n \in Nat |-> body(f, n)]
    <2>3. \A n \in Nat : f[n] = h[n]
      BY <1>5, <1>6, <2>1, <2>2
    <2>4. DOMAIN h = Nat /\ h = [n \in Nat |-> h[n]] /\ f = [n \in Nat |-> f[n]]
      BY <2>1
    <2>5. f = h
      <3> HIDE DEF h
      <3>1. QED
        BY <2>3, <2>4
    <2>6. QED
      BY <2>5
  <1> DEFINE r == CHOOSE h : Recursive(h)
  <1>11. Recursive(r)
    <2> HIDE DEF Recursive
    <2>1. QED
      BY <1>10
  <1>12. CanJoin = r[max]
    BY <1>3
  <1> HIDE DEF r
  <1>13. r[0] = start
    BY <1>5, <1>11
  <1>14. ASSUME NEW n \in Nat PROVE r[n + 1] = Joining(r[n])
    <2>1. n + 1 \in Nat /\ n + 1 # 0 /\ (n + 1) - 1 = n
      OBVIOUS
    <2>2. r[n + 1] = body(r, n + 1)
      BY <1>11, <2>1
    <2>3. QED
      BY <1>4, <1>6, <2>1, <2>2
  <1>15. QED
    BY <1>12, <1>13, <1>14 DEF start, max

\* CanJoin is the least set of pairs with the joins that execute that is closed under
\* going back along an edge.
LEMMA CanJoinLeast ==
  ASSUME nodes \in Seq({nodes[i] : i \in DOMAIN nodes}),
         graph \in Seq({graph[i] : i \in DOMAIN graph}), Len(graph) = Len(nodes)
  PROVE  /\ \A i \in DOMAIN graph : \A f \in Goals(i) : <<i, f>> \in CanJoin
         /\ \A i, k, f : Leads(i, k) /\ <<k, f>> \in CanJoin => <<i, f>> \in CanJoin
         /\ \A X : JoinsNow \subseteq X /\ Joining(X) \subseteq X => CanJoin \subseteq X
  <1> DEFINE max == Len(nodes)
             U == DOMAIN nodes
  <1>1. PICK r : /\ r[0] = JoinsNow /\ \A n \in Nat : r[n + 1] = Joining(r[n])
                 /\ CanJoin = r[max]
    BY CanJoinRounds
  <1>2. max \in Nat /\ U = 1 .. max /\ IsFiniteSet(U) /\ Cardinality(U) <= max /\ DOMAIN graph = U
    BY FS_Interval
  <1> HIDE DEF max, U
  <1>3. ASSUME NEW X, JoinsNow \subseteq X, Joining(X) \subseteq X PROVE r[max] \subseteq X
    <2> DEFINE T == {n \in Nat : ~(r[n] \subseteq X)}
    <2>1. SUFFICES ASSUME T # {} PROVE FALSE
      BY <1>2
    <2>2. PICK n \in T : \A m \in T : n <= m
      <3>1. T \in SUBSET Nat
        OBVIOUS
      <3> HIDE DEF T
      <3>2. QED
        BY <2>1, <3>1, LeastNat
    <2>3. n \in Nat /\ n # 0
      BY <1>1, <1>3, <2>2
    <2>4. n - 1 \in Nat /\ (n - 1) + 1 = n /\ n - 1 \notin T
      BY <2>2, <2>3
    <2>5. r[n - 1] \subseteq X /\ r[(n - 1) + 1] = Joining(r[n - 1])
      BY <1>1, <2>4
    <2>6. Joining(r[n - 1]) \subseteq Joining(X)
      BY <2>5 DEF Joining
    <2>7. QED
      BY <1>3, <2>2, <2>4, <2>5, <2>6
  <1>4. ASSUME NEW f
        PROVE  /\ \A i \in U : <<i, f>> \in r[0] => <<i, f>> \in r[max]
               /\ \A i, k : Leads(i, k) /\ <<k, f>> \in r[max] => <<i, f>> \in r[max]
    <2> DEFINE with(x) == {i \in U : <<i, f>> \in x}
               back(y) == y \cup {i \in U : \E k \in y : Leads(i, k)}
               g == [y \in SUBSET U |-> back(y)]
               q == [n \in Nat |-> with(r[n])]
    <2>1. ASSUME NEW x, \A p \in x : \E k, h : p = <<k, h>> /\ k \in U
          PROVE  with(Joining(x)) = back(with(x)) /\ \A p \in Joining(x) : \E k, h : p = <<k, h>> /\ k \in U
      <3>1. \A p : p \in Joining(x) <=>
              p \in x \/ \E i \in DOMAIN graph : \E k \in x : Leads(i, k[1]) /\ p = <<i, k[2]>>
        BY DEF Joining
      <3>2. ASSUME NEW i \in U PROVE <<i, f>> \in Joining(x) <=> i \in back(with(x))
        <4>1. ASSUME NEW l \in DOMAIN graph, NEW k \in x, Leads(l, k[1]), <<i, f>> = <<l, k[2]>>
              PROVE  \E m \in with(x) : Leads(i, m)
          <5>1. PICK m, h : k = <<m, h>> /\ m \in U
            BY <2>1
          <5>2. QED
            BY <4>1, <5>1
        <4>2. ASSUME NEW m \in with(x), Leads(i, m) PROVE <<i, f>> \in Joining(x)
          <5>1. <<m, f>> \in x /\ i \in DOMAIN graph
            BY <1>2, <4>2
          <5>2. QED
            BY <3>1, <4>2, <5>1
        <4>3. QED
          BY <3>1, <4>1, <4>2
      <3>3. with(Joining(x)) = back(with(x))
        BY <3>2
      <3>4. \A p \in Joining(x) : \E k, h : p = <<k, h>> /\ k \in U
        BY <1>2, <2>1, <3>1
      <3>5. QED
        BY <3>3, <3>4
    <2>2. \A n \in Nat : \A p \in r[n] : \E k, h : p = <<k, h>> /\ k \in U
      <3> DEFINE T == {n \in Nat : ~(\A p \in r[n] : \E k, h : p = <<k, h>> /\ k \in U)}
      <3>1. SUFFICES ASSUME T # {} PROVE FALSE
        OBVIOUS
      <3>2. PICK n \in T : \A m \in T : n <= m
        <4>1. T \in SUBSET Nat
          OBVIOUS
        <4> HIDE DEF T
        <4>2. QED
          BY <3>1, <4>1, LeastNat
      <3>3. n \in Nat /\ n # 0
        <4>1. \A p \in r[0] : \E k, h : p = <<k, h>> /\ k \in U
          <5> SUFFICES ASSUME NEW p \in JoinsNow PROVE \E k, h : p = <<k, h>> /\ k \in U
            BY <1>1
          <5>1. PICK i \in DOMAIN graph : p \in {i} \X Goals(i)
            BY DEF JoinsNow
          <5>2. QED
            BY <1>2, <5>1
        <4>2. QED
          BY <3>2, <4>1
      <3>4. n - 1 \in Nat /\ (n - 1) + 1 = n /\ n - 1 \notin T
        BY <3>2, <3>3
      <3>5. /\ \A p \in r[n - 1] : \E k, h : p = <<k, h>> /\ k \in U
            /\ r[(n - 1) + 1] = Joining(r[n - 1])
        BY <1>1, <3>4
      <3>6. \A p \in Joining(r[n - 1]) : \E k, h : p = <<k, h>> /\ k \in U
        BY <2>1, <3>5
      <3>7. QED
        BY <3>2, <3>4, <3>5, <3>6
    <2>3. /\ g \in [SUBSET U -> SUBSET U] /\ q \in [Nat -> SUBSET U]
          /\ \A y \in SUBSET U : y \subseteq g[y]
      OBVIOUS
    <2>4. ASSUME NEW n \in Nat PROVE q[n + 1] = g[q[n]]
      <3>1. q[n + 1] = with(Joining(r[n])) /\ q[n] = with(r[n])
        <4>1. n + 1 \in Nat /\ r[n + 1] = Joining(r[n])
          BY <1>1
        <4> HIDE DEF with
        <4>2. q[n + 1] = with(r[n + 1]) /\ q[n] = with(r[n])
          BY <4>1
        <4>3. QED
          BY <4>1, <4>2
      <3>2. with(Joining(r[n])) = back(with(r[n]))
        BY <2>1, <2>2
      <3>3. with(r[n]) \in SUBSET U
        OBVIOUS
      <3> HIDE DEF with, back, q
      <3>4. QED
        BY <3>1, <3>2, <3>3
    <2>5. \A i : i \in q[0] <=> i \in U /\ <<i, f>> \in r[0]
      OBVIOUS
    <2>6. \A i : i \in q[max] <=> i \in U /\ <<i, f>> \in r[max]
      BY <1>2
    <2>7. \A y \in SUBSET U : \A k \in y : \A i : Leads(i, k) => i \in g[y]
      BY <1>2 DEF Leads
    <2> HIDE DEF g, q
    <2>8. g[q[max]] = q[max] /\ q[0] \subseteq q[max]
      <3>1. /\ IsFiniteSet(U) /\ g \in [SUBSET U -> SUBSET U] /\ q \in [Nat -> SUBSET U]
            /\ \A y \in SUBSET U : y \subseteq g[y]
            /\ \A n \in Nat : q[n + 1] = g[q[n]]
            /\ max \in Nat /\ Cardinality(U) <= max
        BY <1>2, <2>3, <2>4
      <3>2. QED
        BY ONLY <3>1, RoundsEnd
    <2>9. \A i \in U : <<i, f>> \in r[0] => <<i, f>> \in r[max]
      BY <2>5, <2>6, <2>8
    <2>10. ASSUME NEW i, NEW k, Leads(i, k), <<k, f>> \in r[max] PROVE <<i, f>> \in r[max]
      <3>1. k \in U
        BY <1>2, <2>2, <2>10
      <3>2. k \in q[max] /\ q[max] \in SUBSET U
        BY <1>2, <2>3, <2>6, <2>10, <3>1
      <3>3. i \in g[q[max]]
        BY <2>7, <2>10, <3>2
      <3>4. QED
        BY <2>6, <2>8, <3>3
    <2>11. QED
      BY <2>9, <2>10
  <1>5. \A i \in DOMAIN graph : \A f \in Goals(i) : <<i, f>> \in r[0] /\ i \in U
    BY <1>1, <1>2 DEF JoinsNow
  <1>6. QED
    BY <1>1, <1>3, <1>4, <1>5

-----------------------------------------------------------------------------
\* The verdict about the forks.

OnlyForks(c) == \A a \in c.activations : Kind(workflow, a.fork) = "fork"

\* Every configuration but the first follows an earlier one, and once one is explored
\* there are no more than the limit.
Traced ==
  /\ Valid(workflow)
  /\ nodes[1] = Start(workflow)
  /\ \A i \in DOMAIN nodes \ {1} :
       \E k \in DOMAIN nodes : k < i /\ \E e \in Executions(workflow, nodes[k]) : e.after = nodes[i]
  /\ \A i \in DOMAIN nodes : OnlyForks(nodes[i])
  /\ graph # <<>> => Len(nodes) <= limits.maxConfigurations

BInv ==
  /\ limits \in Limits
  /\ result.status = "open" => Traced
  /\ Reported => result.blocked = NeverJoining(workflow)

\* A step executed is a step, and a join executed is the join of its fork.
LEMMA JoinsOfForks ==
  ASSUME Valid(workflow), NEW c, StepsTyped(c.tokens), NEW f \in Step, Kind(workflow, f) = "fork",
         NEW e \in Executions(workflow, c)
  PROVE  e.step = PairOf(workflow, f) <=>
           Kind(workflow, e.step) = "join" /\ PairOf(workflow, e.step) = f
  <1>1. PICK t \in BagToSet(c.tokens) : e \in ExecutionsOf(workflow, c, t)
    BY DEF Executions
  <1>2. e.step = t.step /\ t.step \in Step
    BY <1>1 DEF ExecutionsOf, StepsTyped
  <1>3. QED
    BY <1>2 DEF Valid

\* An execution starts forks only at forks.
LEMMA ForksStayForks ==
  ASSUME NEW c, OnlyForks(c), NEW e \in Executions(workflow, c), workflow \in Workflow,
         StepsTyped(c.tokens)
  PROVE  OnlyForks(e.after)
  <1>1. PICK t \in BagToSet(c.tokens) : e \in ExecutionsOf(workflow, c, t)
    BY DEF Executions
  <1>2. Kind(workflow, t.step) \in {"action", "fork", "join"}
    BY WorkflowAssumption DEF StepsTyped
  <1>3. \/ e.after.activations = c.activations
        \/ /\ Kind(workflow, t.step) = "fork"
           /\ e.after.activations = c.activations \cup {[fork |-> t.step, parent |-> t.owner]}
        \/ e.after.activations = {a \in c.activations : a.fork # ForkOf(workflow, t)}
    <2>1. CASE Kind(workflow, t.step) = "action"
      BY <1>1, <2>1 DEF ExecutionsOf
    <2>2. CASE Kind(workflow, t.step) = "fork"
      BY <1>1, <2>2 DEF ExecutionsOf
    <2>3. CASE Kind(workflow, t.step) = "join"
      BY <1>1, <2>3 DEF ExecutionsOf
    <2>4. QED
      BY <1>2, <2>1, <2>2, <2>3
  <1>4. QED
    BY <1>3 DEF OnlyForks

\* When everything is explored, the forks the engine's solution blocks are those an
\* execution leaves without a join for good.
LEMMA BlockedExact ==
  ASSUME workflow \in Workflow, limits \in Limits, Searching, Traced, Len(graph) = Len(nodes)
  PROVE  Blocked = NeverJoining(workflow)
  <1> DEFINE N == {nodes[i] : i \in DOMAIN nodes}
             F(i) == Following(workflow, {nodes[i]})
  <1>1. Len(nodes) \in Nat /\ DOMAIN nodes = 1 .. Len(nodes) /\ 1 \in DOMAIN nodes /\ DOMAIN graph = DOMAIN nodes
        /\ graph # <<>>
    BY DEF Searching, Explored
  <1>2. limits.maxConfigurations \in Nat /\ Len(nodes) <= limits.maxConfigurations
    BY <1>1, LimitsAssumption DEF Traced
  <1>3. IsFiniteSet(N) /\ Cardinality(N) <= limits.maxConfigurations
    <2> DEFINE n == Len(nodes)
               D == 1 .. n
               f == [i \in D |-> nodes[i]]
    <2>1. IsFiniteSet(D) /\ Cardinality(D) = n
      <3>1. n \in Nat
        BY <1>1
      <3> HIDE DEF n
      <3>2. QED
        BY <3>1, FS_Interval
    <2>2. f \in Surjection(D, N)
      BY <1>1 DEF Surjection
    <2> HIDE DEF N, D, f
    <2>3. IsFiniteSet(N) /\ Cardinality(N) <= Cardinality(D)
      BY <2>1, <2>2, FS_Surjection
    <2>4. Cardinality(N) \in Nat
      BY <2>3, FS_CardinalityType
    <2>5. QED
      BY <1>1, <1>2, <2>1, <2>3, <2>4
  <1>4. ASSUME NEW i \in DOMAIN nodes, NEW e \in Executions(workflow, nodes[i])
        PROVE  \E k \in DOMAIN nodes : nodes[k] = e.after /\ Leads(i, k)
    BY <1>1 DEF Searching, Explored, Leads
  <1>5. Closed(workflow, N)
    BY <1>4 DEF Closed
  <1> HIDE DEF N
  <1>6. ASSUME NEW from \in SUBSET N
        PROVE  /\ from \subseteq Following(workflow, from) /\ Following(workflow, from) \subseteq N
               /\ Closed(workflow, Following(workflow, from))
               /\ \A X : from \subseteq X /\ Closed(workflow, X) => Following(workflow, from) \subseteq X
    <2>1. QED
      BY <1>2, <1>3, <1>5, FollowingLeast
  <1>7. \A i \in DOMAIN nodes : {nodes[i]} \in SUBSET N
    BY DEF N
  <1>8. Following(workflow, {Start(workflow)}) = N
    <2> DEFINE all == Following(workflow, {Start(workflow)})
               T == {i \in DOMAIN nodes : nodes[i] \notin all}
    <2>1. nodes[1] \in all /\ all \subseteq N /\ Closed(workflow, all)
      BY <1>1, <1>6, <1>7 DEF Traced
    <2> HIDE DEF all
    <2>2. T = {}
      <3>1. SUFFICES ASSUME T # {} PROVE FALSE
        OBVIOUS
      <3>2. PICK i \in T : \A m \in T : i <= m
        <4>1. T \in SUBSET Nat
          BY <1>1
        <4> HIDE DEF T
        <4>2. QED
          BY <3>1, <4>1, LeastNat
      <3>3. i \in DOMAIN nodes \ {1}
        BY <2>1, <3>2
      <3>4. PICK k \in DOMAIN nodes : k < i /\ \E e \in Executions(workflow, nodes[k]) : e.after = nodes[i]
        BY <3>3 DEF Traced
      <3>5. nodes[k] \in all
        BY <1>1, <3>2, <3>3, <3>4
      <3>6. nodes[i] \in all
        BY <2>1, <3>4, <3>5 DEF Closed
      <3>7. QED
        BY <3>2, <3>6
    <2>3. QED
      BY <2>1, <2>2 DEF N, all
  <1>9. /\ \A i \in DOMAIN graph : \A f \in Goals(i) : <<i, f>> \in CanJoin
        /\ \A i, k, f : Leads(i, k) /\ <<k, f>> \in CanJoin => <<i, f>> \in CanJoin
        /\ \A X : JoinsNow \subseteq X /\ Joining(X) \subseteq X => CanJoin \subseteq X
    BY CanJoinLeast DEF Searching, Explored
  <1>10. \A i \in DOMAIN nodes : \A f :
           f \in Goals(i) <=> \E e \in Executions(workflow, nodes[i]) :
                                Kind(workflow, e.step) = "join" /\ PairOf(workflow, e.step) = f
    BY <1>1 DEF Goals, Executed, Searching, Explored
  <1>11. ASSUME NEW f, NEW i \in DOMAIN nodes
         PROVE  <<i, f>> \in CanJoin <=>
                  \E d \in F(i) : \E e \in Executions(workflow, d) :
                    Kind(workflow, e.step) = "join" /\ PairOf(workflow, e.step) = f
    <2> DEFINE Joins(d, h) == \E e \in Executions(workflow, d) :
                 Kind(workflow, e.step) = "join" /\ PairOf(workflow, e.step) = h
               forks == UNION {Goals(k) : k \in DOMAIN graph}
               X == {p \in (DOMAIN nodes) \X forks : \E d \in F(p[1]) : Joins(d, p[2])}
    <2>1. ASSUME NEW k \in DOMAIN nodes, NEW h \in Goals(k) PROVE \E d \in F(k) : Joins(d, h)
      <3>1. Joins(nodes[k], h)
        BY <1>10
      <3>2. nodes[k] \in F(k)
        BY <1>6, <1>7
      <3>3. QED
        BY <3>1, <3>2
    <2>2. ASSUME NEW k, NEW l, Leads(k, l) PROVE F(l) \subseteq F(k)
      <3>1. k \in DOMAIN nodes /\ l \in DOMAIN nodes
        BY <1>1, <2>2 DEF Leads
      <3>2. nodes[l] \in F(k)
        <4>1. PICK e \in Executions(workflow, nodes[k]) : e.after = nodes[l]
          BY <2>2, <3>1 DEF Leads, Searching, Explored
        <4>2. nodes[k] \in F(k) /\ Closed(workflow, F(k))
          BY <1>6, <1>7, <3>1
        <4>3. QED
          BY <4>1, <4>2 DEF Closed
      <3>3. {nodes[l]} \subseteq F(k) /\ Closed(workflow, F(k))
        BY <1>6, <1>7, <3>1, <3>2
      <3>4. QED
        BY <1>6, <1>7, <3>1, <3>3
    <2> HIDE DEF F, Joins
    <2>3. JoinsNow \subseteq X
      <3> SUFFICES ASSUME NEW k \in DOMAIN graph, NEW h \in Goals(k) PROVE <<k, h>> \in X
        BY DEF JoinsNow
      <3>1. k \in DOMAIN nodes /\ h \in forks
        BY <1>1
      <3> HIDE DEF forks
      <3>2. QED
        BY <2>1, <3>1
    <2> HIDE DEF forks
    <2>4. Joining(X) \subseteq X
      <3>1. \A x : \A p : p \in Joining(x) <=>
              p \in x \/ \E k \in DOMAIN graph : \E l \in x : Leads(k, l[1]) /\ p = <<k, l[2]>>
        BY DEF Joining
      <3>2. ASSUME NEW k \in DOMAIN graph, NEW l \in X, Leads(k, l[1])
            PROVE  <<k, l[2]>> \in X
        <4>1. PICK d \in F(l[1]) : Joins(d, l[2])
          OBVIOUS
        <4>2. F(l[1]) \subseteq F(k)
          BY <2>2, <3>2
        <4>3. l[2] \in forks /\ k \in DOMAIN nodes
          BY <1>1
        <4>4. QED
          BY <4>1, <4>2, <4>3
      <3> HIDE DEF X
      <3>3. QED
        BY <3>1, <3>2
    <2>5. ASSUME <<i, f>> \in CanJoin PROVE \E d \in F(i) : Joins(d, f)
      BY <1>9, <2>3, <2>4, <2>5
    <2>6. ASSUME <<i, f>> \notin CanJoin, NEW d \in F(i), Joins(d, f) PROVE FALSE
      <3> DEFINE B == {nodes[k] : k \in {l \in DOMAIN nodes : <<l, f>> \notin CanJoin}}
      <3>1. Closed(workflow, B)
        BY <1>4, <1>9 DEF Closed
      <3>2. {nodes[i]} \subseteq B
        BY <2>6
      <3> HIDE DEF B
      <3>3. F(i) \subseteq B
        BY <1>6, <1>7, <3>1, <3>2 DEF F
      <3>4. PICK k \in DOMAIN nodes : <<k, f>> \notin CanJoin /\ nodes[k] = d
        BY <2>6, <3>3 DEF B
      <3>5. f \in Goals(k)
        BY <1>10, <2>6, <3>4 DEF Joins
      <3>6. QED
        BY <1>1, <1>9, <3>4, <3>5
    <2>7. QED
      BY <2>5, <2>6 DEF Joins
  <1>12. ASSUME NEW f \in Step, NEW i \in DOMAIN nodes, NEW a \in nodes[i].activations, a.fork = f
         PROVE  <<i, f>> \notin CanJoin <=>
                  \A d \in F(i) : \A e \in Executions(workflow, d) : e.step # PairOf(workflow, f)
    <2>1. Kind(workflow, f) = "fork"
      BY <1>12 DEF Traced, OnlyForks
    <2>2. ASSUME NEW d \in F(i), NEW e \in Executions(workflow, d)
          PROVE  e.step = PairOf(workflow, f) <=>
                   Kind(workflow, e.step) = "join" /\ PairOf(workflow, e.step) = f
      <3>1. d \in N
        BY <1>6, <1>7
      <3>2. StepsTyped(d.tokens)
        BY <3>1 DEF N, Searching
      <3>3. QED
        BY <2>1, <3>2, JoinsOfForks DEF Traced
    <2> HIDE DEF F
    <2>3. QED
      BY <1>11, <2>2
  <1>13. ASSUME NEW f \in Step
         PROVE  f \in Blocked <=> f \in NeverJoining(workflow)
    <2>1. f \in Blocked <=>
            \E i \in DOMAIN nodes : \E a \in nodes[i].activations : a.fork = f /\ <<i, f>> \notin CanJoin
      BY DEF Blocked
    <2>2. f \in NeverJoining(workflow) <=>
            \E c \in N : \E a \in c.activations :
              a.fork = f /\ \A d \in Following(workflow, {c}) :
                              \A e \in Executions(workflow, d) : e.step # PairOf(workflow, f)
      BY <1>8 DEF NeverJoining
    <2>3. \A c : c \in N <=> \E i \in DOMAIN nodes : c = nodes[i]
      BY DEF N
    <2>4. \A i \in DOMAIN nodes : F(i) = Following(workflow, {nodes[i]})
      OBVIOUS
    <2> HIDE DEF F
    <2>5. ASSUME f \in Blocked PROVE f \in NeverJoining(workflow)
      <3>1. PICK i \in DOMAIN nodes :
              \E a \in nodes[i].activations : a.fork = f /\ <<i, f>> \notin CanJoin
        BY <2>1, <2>5
      <3>2. \A d \in F(i) : \A e \in Executions(workflow, d) : e.step # PairOf(workflow, f)
        BY <1>12, <3>1
      <3>3. QED
        BY <2>2, <2>3, <2>4, <3>1, <3>2
    <2>6. ASSUME f \in NeverJoining(workflow) PROVE f \in Blocked
      <3>1. PICK c \in N : \E a \in c.activations :
              a.fork = f /\ \A d \in Following(workflow, {c}) :
                              \A e \in Executions(workflow, d) : e.step # PairOf(workflow, f)
        BY <2>2, <2>6
      <3>2. PICK i \in DOMAIN nodes : c = nodes[i]
        BY <2>3
      <3>3. PICK a \in nodes[i].activations :
              a.fork = f /\ \A d \in F(i) : \A e \in Executions(workflow, d) : e.step # PairOf(workflow, f)
        BY <2>4, <3>1, <3>2
      <3>4. <<i, f>> \notin CanJoin
        BY <1>12, <3>3
      <3>5. QED
        BY <2>1, <3>3, <3>4
    <2>7. QED
      BY <2>5, <2>6
  <1>14. QED
    BY <1>13 DEF Blocked, NeverJoining

\* What is new follows a configuration listed before.
LEMMA ExpandTraces ==
  ASSUME TypeOK, VInv, BInv, Expand
  PROVE  BInv'
  <1>1. /\ result.status = "open" /\ result' = result /\ UNCHANGED <<vars, limits>>
        /\ workflow \in Workflow /\ Searching /\ Traced
    BY DEF Expand, Verifying, VInv, BInv, TypeOK
  <1>2. workflow' = workflow
    BY <1>1 DEF vars
  <1> DEFINE n == Len(graph) + 1
  <1>3. /\ n \in DOMAIN nodes /\ Found = Executions(workflow, nodes[n])
        /\ Len(graph) < Len(nodes) /\ WithinLimits
    BY <1>1, NewFinite DEF Expand
  <1>4. /\ Len(nodes') = Len(nodes) + Cardinality(New) /\ Cardinality(New) \in Nat
        /\ DOMAIN nodes' = 1 .. Len(nodes') /\ DOMAIN nodes = 1 .. Len(nodes) /\ Len(nodes) \in Nat
        /\ \A i \in DOMAIN nodes : nodes'[i] = nodes[i]
        /\ \A i \in DOMAIN nodes' : i \notin DOMAIN nodes => nodes'[i] \in New
    BY <1>1, NodesGrow
  <1> HIDE DEF n
  <1>5. \A c \in New : \E e \in Executions(workflow, nodes[n]) : e.after = c
    BY <1>3 DEF New
  <1>6. Len(nodes') <= limits'.maxConfigurations
    BY <1>1, <1>4 , <1>3 DEF WithinLimits
  <1>7. ASSUME NEW i \in DOMAIN nodes' \ {1}
        PROVE  \E k \in DOMAIN nodes' : k < i /\ \E e \in Executions(workflow', nodes'[k]) : e.after = nodes'[i]
    <2>1. CASE i \in DOMAIN nodes
      <3>1. PICK k \in DOMAIN nodes : k < i /\ \E e \in Executions(workflow, nodes[k]) : e.after = nodes[i]
        BY <1>1, <1>7, <2>1 DEF Traced
      <3>2. k \in DOMAIN nodes' /\ nodes'[k] = nodes[k] /\ nodes'[i] = nodes[i]
        BY <1>4, <2>1
      <3>3. QED
        BY <1>2, <3>1, <3>2
    <2>2. CASE i \notin DOMAIN nodes
      <3>1. n \in DOMAIN nodes' /\ n < i /\ nodes'[n] = nodes[n]
        BY <1>3, <1>4, <2>2
      <3>2. \E e \in Executions(workflow, nodes[n]) : e.after = nodes'[i]
        BY <1>4, <1>5, <2>2
      <3>3. QED
        BY <1>2, <3>1, <3>2
    <2>3. QED
      BY <2>1, <2>2
  <1>8. ASSUME NEW i \in DOMAIN nodes'
        PROVE  \A a \in nodes'[i].activations : Kind(workflow', a.fork) = "fork"
    <2>1. OnlyForks(nodes'[i])
      <3>1. CASE i \in DOMAIN nodes
        BY <1>1, <1>4, <3>1 DEF Traced
      <3>2. CASE i \notin DOMAIN nodes
        <4>1. PICK e \in Executions(workflow, nodes[n]) : e.after = nodes'[i]
          BY <1>4, <1>5, <3>2
        <4>2. OnlyForks(nodes[n]) /\ StepsTyped(nodes[n].tokens)
          BY <1>1, <1>3 DEF Traced, Searching
        <4>3. OnlyForks(e.after)
          BY <1>1, <4>2, ForksStayForks
        <4>4. QED
          BY <4>1, <4>3
      <3>3. QED
        BY <3>1, <3>2
    <2>2. QED
      BY <1>2, <2>1 DEF OnlyForks
  <1>9. nodes'[1] = Start(workflow') /\ Valid(workflow')
    <2>1. 1 \in DOMAIN nodes
      BY <1>1, <1>3, <1>4 DEF Searching
    <2>2. QED
      BY <1>1, <1>2, <1>4, <2>1 DEF Traced
  <1>10. Traced'
    BY <1>6, <1>7, <1>8, <1>9 DEF Traced, OnlyForks
  <1>11. QED
    BY <1>1, <1>10 DEF BInv, Reported

LEMMA BlockedInvariance == VerdictSpec => []BInv
  <1>1. VerdictInit => BInv
    <2> SUFFICES ASSUME VerdictInit PROVE BInv
      OBVIOUS
    <2>1. /\ result = IF Valid(workflow) THEN Open ELSE Unknown
          /\ nodes = <<Start(workflow)>> /\ graph = <<>> /\ limits \in Limits
      BY DEF VerdictInit
    <2>2. result.status \in {"open", "unknown"} /\ (result.status = "open" => Valid(workflow))
      BY <2>1 DEF Open, Unknown
    <2>3. nodes[1] = Start(workflow) /\ DOMAIN nodes = {1} /\ DOMAIN nodes \ {1} = {}
      BY <2>1
    <2>4. OnlyForks(Start(workflow))
      BY DEF OnlyForks, Start
    <2>5. \A i \in DOMAIN nodes : OnlyForks(nodes[i])
      BY <2>3, <2>4
    <2>6. QED
      BY <2>1, <2>2, <2>3, <2>5 DEF BInv, Traced, Reported
  <1>2. TypeOK /\ VInv /\ BInv /\ [VerdictNext]_<<vars, verification>> => BInv'
    <2> SUFFICES ASSUME TypeOK, VInv, BInv, [VerdictNext]_<<vars, verification>> PROVE BInv'
      OBVIOUS
    <2>1. CASE Expand
      BY <2>1, ExpandTraces
    <2>2. CASE GiveUp \/ Exhaust
      BY <2>2 DEF GiveUp, Exhaust, Verifying, Unknown, Open, BInv, Reported
    <2>3. CASE Report
      <3>1. /\ result.status = "open" /\ UNCHANGED <<vars, limits>> /\ Len(graph) = Len(nodes)
            /\ result'.status \in {"valid", "invalid"} /\ result'.blocked = Blocked
        BY <2>3 DEF Report, Verifying
      <3>2. Blocked = NeverJoining(workflow)
        BY <3>1, BlockedExact DEF BInv, VInv, TypeOK
      <3>3. workflow' = workflow /\ limits' = limits
        BY <3>1 DEF vars
      <3>4. NeverJoining(workflow)' = NeverJoining(workflow)
        BY <3>3 DEF NeverJoining, Following
      <3>5. QED
        BY <3>1, <3>2, <3>3, <3>4 DEF BInv
    <2>4. ASSUME result' = result, result.status # "open", workflow' = workflow, limits' = limits
          PROVE  BInv'
      <3>1. NeverJoining(workflow)' = NeverJoining(workflow)
        BY <2>4 DEF NeverJoining, Following
      <3>2. QED
        BY <2>4, <3>1 DEF BInv, Reported
    <2>5. CASE Run
      <3>1. workflow' = workflow
        BY <2>5 DEF Run, Next, Reject, ExecuteAction, ExecuteFork, ExecuteJoin, Changed
      <3>2. QED
        BY <2>4, <2>5, <3>1 DEF Run, verification
    <2>6. CASE UNCHANGED <<vars, verification>>
      <3>1. workflow' = workflow /\ limits' = limits /\ result' = result /\ nodes' = nodes /\ graph' = graph
        BY <2>6 DEF vars, verification
      <3>2. CASE result.status # "open"
        BY <2>4, <3>1, <3>2
      <3>3. CASE result.status = "open"
        BY <3>1, <3>3 DEF BInv, Traced, OnlyForks, Reported
      <3>4. QED
        BY <3>2, <3>3
    <2>7. QED
      BY <2>1, <2>2, <2>3, <2>5, <2>6 DEF VerdictNext
  <1>3. QED
    BY <1>1, <1>2, VerdictRunsWorkflow, TypeCorrect, VerdictInvariance, PTL DEF VerdictSpec

\* The forks a verdict calls blocked are those that some execution makes active and then
\* can never join; the solution of the reverse problem misses none and adds none.
THEOREM BlockedForksExact == VerdictSpec => []BlockedForksNeverJoin
  <1>1. BInv => BlockedForksNeverJoin
    BY DEF BInv, BlockedForksNeverJoin
  <1>2. QED
    BY <1>1, BlockedInvariance, PTL
=============================================================================
