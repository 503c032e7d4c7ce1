--------------------------- MODULE NodeLoopProofs ---------------------------
(***************************************************************************)
(* Proofs about the generated Node event loop, for every program: the      *)
(* variables kept for a repeated registration agree, no later phase passes *)
(* a timer that is due, and no registration is lost.                       *)
(***************************************************************************)
EXTENDS NodeEventLoop, TLAPS

-----------------------------------------------------------------------------
\* The shape of a program.

\* What ProgramAssumption says of the jobs of the program at hand.
LEMMA ProgramShape ==
  ASSUME program \in Program
  PROVE  /\ program.jobs \in Seq(Job)
         /\ program.chains \in Seq(Chain)
         /\ Len(program.jobs) <= MaxJobs
         /\ Jobs = 1 .. Len(program.jobs)
         /\ Chains = 1 .. Len(program.chains)
         /\ \A i \in Jobs : i \in Nat \ {0} /\ J(i) \in Job
         /\ \A c \in Chains : C(c) \in Chain
  BY ProgramAssumption DEF Jobs, Chains, J, C

\* The fields of a job, one by one.
LEMMA JobShape ==
  ASSUME program \in Program, NEW i \in Jobs
  PROVE  /\ J(i).queue \in {"next-tick", "microtask", "timer", "poll", "check", "close"}
         /\ J(i).parent \in Nat /\ J(i).parent < i
         /\ J(i).parent # 0 => J(i).parent \in Jobs
         /\ J(i).delay \in Nat /\ J(i).repeats \in BOOLEAN
         /\ J(i).abort => J(i).parent = 0
         /\ External(i) => J(i).delay = 0
<1>1. /\ J(i) \in Job /\ Jobs = 1 .. Len(program.jobs) /\ i \in Nat
      /\ program.jobs \in Seq(Job)
  BY ProgramShape
<1>2. /\ J(i).queue \in {"next-tick", "microtask", "timer", "poll", "check", "close"}
      /\ J(i).parent \in Nat /\ J(i).delay \in Nat /\ J(i).repeats \in BOOLEAN
  BY <1>1, BoundsAssumption DEF Job
<1>3. /\ J(i).parent < i
      /\ J(i).abort => J(i).parent = 0
      /\ External(i) => J(i).delay = 0
  BY ProgramAssumption DEF Jobs, J, External
<1>4. QED
  BY <1>1, <1>2, <1>3

\* Delays are natural numbers, and a timer a callback registers is never due at once.
LEMMA DelayShape ==
  ASSUME program \in Program, NEW i \in Jobs
  PROVE  /\ NodeDelay(i) \in Nat
         /\ J(i).queue = "timer" /\ J(i).parent # 0 => NodeDelay(i) > 0
         /\ J(i).queue = "timer" /\ J(i).repeats => NodeDelay(i) > 0 \/ J(i).abort
  BY JobShape, BoundsAssumption DEF NodeDelay

-----------------------------------------------------------------------------
\* The variables of a repeated registration.

TypeOK ==
  /\ program \in Program
  /\ phase \in 0 .. 4 /\ resume \in 1 .. 4
  /\ pending \subseteq Callbacks(Jobs) \cup Reactions
  /\ wait \in [Jobs -> Nat]
  /\ instances \in [Jobs -> 0 .. MaxInstances]
  /\ dueTimes \in [Jobs -> Seq(Nat)]
  /\ registered \in [Jobs -> 0 .. MaxInstances]
  /\ fired \subseteq Jobs
  /\ decided \subseteq Divergent /\ blocked \in BOOLEAN

\* The due times of job i are in order, and the last is the delay at most.
InOrder(i) ==
  /\ \A n \in DOMAIN dueTimes[i] : dueTimes[i][n] <= NodeDelay(i)
  /\ \A m, n \in DOMAIN dueTimes[i] : m < n => dueTimes[i][m] <= dueTimes[i][n]

\* Counted also holds of a handle that may be cleared; Waits does not, since
\* clearing the handle leaves the instances as they are.
Counted(i) ==
  /\ Len(dueTimes[i]) = instances[i]
  /\ Callback(i) \in pending => instances[i] > 0

Waits(i) == instances[i] > 0 => Callback(i) \in pending /\ wait[i] = dueTimes[i][1]

Agrees(i) == Counted(i) /\ InOrder(i) /\ (i \notin program.cancellable => Waits(i))

InstancesInv == \A i \in Jobs : MultiInstance(i) => Agrees(i)

\* The inductive invariant.
IInv == TypeOK /\ InstancesInv

\* Callbacks and reactions are told apart by their keys.
LEMMA KeysDiffer ==
  ASSUME program \in Program
  PROVE  /\ \A i, j : Callback(i) = Callback(j) <=> i = j
         /\ \A i, js : Callback(i) \in Callbacks(js) <=> i \in js
         /\ \A i : Callback(i) \notin Reactions
         /\ \A c \in Chains : \A s, i : <<c, s>> # Callback(i)
<1>1. \A i, j : Callback(i) = Callback(j) <=> i = j
  BY DEF Callback
<1>2. \A i, js : Callback(i) \in Callbacks(js) <=> i \in js
  BY <1>1 DEF Callbacks
<1>3. \A c \in Chains : c # 0
  BY ProgramShape
<1>4. QED
  BY <1>1, <1>2, <1>3 DEF Callback, Reactions

\* A job is not registered by itself.
LEMMA ChildrenDiffer ==
  ASSUME program \in Program, NEW i \in Jobs, NEW a
  PROVE  /\ Children(i, a) \subseteq Jobs /\ i \notin Children(i, a)
         /\ \A j \in Children(i, a) : J(j).parent = i /\ J(j).parent # 0
  BY JobShape, ProgramShape DEF Children

\* What running job i does to the variables of any job j.
RanResult(i, a, again, ownWait, ownInstances, ownDueTimes) ==
  /\ program' = program /\ decided' = decided /\ blocked' = blocked
  /\ fired' = fired \cup {i}
  /\ pending' \subseteq pending \cup Callbacks(Jobs)
  /\ pending \ Callbacks(Jobs) \subseteq pending'
  /\ DOMAIN wait' = Jobs /\ DOMAIN instances' = Jobs
  /\ DOMAIN dueTimes' = Jobs /\ DOMAIN registered' = Jobs
  /\ wait' = [j \in Jobs |-> wait'[j]] /\ instances' = [j \in Jobs |-> instances'[j]]
  /\ dueTimes' = [j \in Jobs |-> dueTimes'[j]]
  /\ registered' = [j \in Jobs |-> registered'[j]]
  /\ /\ Callback(i) \in pending' <=> again
     /\ wait'[i] = ownWait /\ instances'[i] = ownInstances /\ dueTimes'[i] = ownDueTimes
     /\ registered'[i] = registered[i]
  /\ \A j \in Jobs \ {i} :
       /\ Callback(j) \in pending' <=>
            Callback(j) \in pending \/ (j \in Children(i, a) /\ ~External(j))
       /\ wait'[j] = IF j \in Children(i, a) /\ J(j).queue \in {"timer", "check"}
                     THEN NewWait(j, wait[j]) ELSE wait[j]
       /\ instances'[j] = IF j \in Children(i, a) /\ MultiInstance(j)
                          THEN Bounded(instances[j]) ELSE instances[j]
       /\ dueTimes'[j] = IF j \in Children(i, a) /\ MultiInstance(j)
                         THEN AppendBounded(dueTimes[j], NodeDelay(j)) ELSE dueTimes[j]
       /\ registered'[j] = IF j \in Children(i, a) /\ External(j)
                           THEN Bounded(registered[j]) ELSE registered[j]

LEMMA RanFacts ==
  ASSUME program \in Program, NEW i \in Jobs, NEW a, NEW again \in BOOLEAN,
         NEW ownWait, NEW ownInstances, NEW ownDueTimes,
         Ran(i, a, again, ownWait, ownInstances, ownDueTimes)
  PROVE  RanResult(i, a, again, ownWait, ownInstances, ownDueTimes)
<1> USE DEF Ran
<1>1. i \notin Children(i, a) /\ Children(i, a) \subseteq Jobs
  BY ChildrenDiffer
<1>2. /\ \A j, k : Callback(j) = Callback(k) <=> j = k
      /\ \A j, js : Callback(j) \in Callbacks(js) <=> j \in js
  BY KeysDiffer
<1>3. /\ program' = program /\ decided' = decided /\ blocked' = blocked
      /\ fired' = fired \cup {i}
      /\ DOMAIN wait' = Jobs /\ DOMAIN instances' = Jobs
      /\ DOMAIN dueTimes' = Jobs /\ DOMAIN registered' = Jobs
      /\ wait' = [j \in Jobs |-> wait'[j]] /\ instances' = [j \in Jobs |-> instances'[j]]
      /\ dueTimes' = [j \in Jobs |-> dueTimes'[j]]
      /\ registered' = [j \in Jobs |-> registered'[j]]
  OBVIOUS
<1>4. /\ wait'[i] = ownWait /\ instances'[i] = ownInstances /\ dueTimes'[i] = ownDueTimes
      /\ registered'[i] = registered[i]
  BY <1>1
<1>5. ASSUME NEW j \in Jobs \ {i}
      PROVE  /\ wait'[j] = IF j \in Children(i, a) /\ J(j).queue \in {"timer", "check"}
                            THEN NewWait(j, wait[j]) ELSE wait[j]
             /\ instances'[j] = IF j \in Children(i, a) /\ MultiInstance(j)
                                THEN Bounded(instances[j]) ELSE instances[j]
             /\ dueTimes'[j] = IF j \in Children(i, a) /\ MultiInstance(j)
                               THEN AppendBounded(dueTimes[j], NodeDelay(j)) ELSE dueTimes[j]
             /\ registered'[j] = IF j \in Children(i, a) /\ External(j)
                                 THEN Bounded(registered[j]) ELSE registered[j]
  OBVIOUS
<1>6. DEFINE Added == {j \in Children(i, a) : ~External(j)} \cup (IF again THEN {i} ELSE {})
<1>7. pending' = (pending \ {Callback(i)}) \cup Callbacks(Added)
  OBVIOUS
<1>8. /\ \A j : j \in Added <=> (j \in Children(i, a) /\ ~External(j)) \/ (again /\ j = i)
      /\ Callbacks(Added) \subseteq Callbacks(Jobs)
  BY <1>1 DEF Callbacks
<1>9. Callback(i) \in Callbacks(Jobs)
  BY <1>2
<1> HIDE DEF Added, Ran
<1>10. /\ Callback(i) \in pending' <=> again
       /\ \A j \in Jobs \ {i} : Callback(j) \in pending' <=>
            Callback(j) \in pending \/ (j \in Children(i, a) /\ ~External(j))
       /\ pending' \subseteq pending \cup Callbacks(Jobs)
       /\ pending \ Callbacks(Jobs) \subseteq pending'
  BY <1>1, <1>2, <1>7, <1>8, <1>9
<1>11. QED
  BY <1>3, <1>4, <1>5, <1>10 DEF RanResult

\* The part of the type invariant that running a job changes.
RegistersTyped ==
  /\ pending \subseteq Callbacks(Jobs) \cup Reactions
  /\ wait \in [Jobs -> Nat]
  /\ instances \in [Jobs -> 0 .. MaxInstances]
  /\ dueTimes \in [Jobs -> Seq(Nat)]
  /\ registered \in [Jobs -> 0 .. MaxInstances]
  /\ fired \subseteq Jobs

\* A registration more keeps the variables of a job in agreement.
LEMMA OneMoreAgrees ==
  ASSUME NEW s \in Seq(Nat), NEW n \in 0 .. MaxInstances, NEW d \in Nat, Len(s) = n,
         \A m \in DOMAIN s : s[m] <= d,
         \A l, m \in DOMAIN s : l < m => s[l] <= s[m]
  PROVE  /\ Bounded(n) \in 0 .. MaxInstances /\ Bounded(n) > 0
         /\ AppendBounded(s, d) \in Seq(Nat)
         /\ Len(AppendBounded(s, d)) = Bounded(n)
         /\ \A m \in DOMAIN AppendBounded(s, d) : AppendBounded(s, d)[m] <= d
         /\ \A l, m \in DOMAIN AppendBounded(s, d) :
              l < m => AppendBounded(s, d)[l] <= AppendBounded(s, d)[m]
         /\ AppendBounded(s, d)[1] = IF n = 0 THEN d ELSE s[1]
<1>1. /\ MaxInstances \in Nat /\ MaxInstances > 0
  BY BoundsAssumption
<1>2. CASE n < MaxInstances
  <2>1. AppendBounded(s, d) = Append(s, d) /\ Bounded(n) = n + 1
    BY <1>2 DEF AppendBounded, Bounded
  <2>2. /\ Append(s, d) \in Seq(Nat) /\ Len(Append(s, d)) = n + 1
        /\ DOMAIN Append(s, d) = 1 .. n + 1 /\ DOMAIN s = 1 .. n
        /\ \A m \in 1 .. n : Append(s, d)[m] = s[m]
        /\ Append(s, d)[n + 1] = d
    OBVIOUS
  <2>3. \A l, m \in 1 .. n + 1 : l < m => Append(s, d)[l] <= Append(s, d)[m]
    BY <2>2
  <2>4. \A m \in 1 .. n + 1 : Append(s, d)[m] <= d
    BY <2>2
  <2>5. QED
    BY <1>1, <1>2, <2>1, <2>2, <2>3, <2>4
<1>3. CASE ~(n < MaxInstances)
  <2>1. AppendBounded(s, d) = s /\ Bounded(n) = n /\ n > 0
    BY <1>1, <1>3 DEF AppendBounded, Bounded
  <2>2. QED
    BY <2>1
<1>4. QED
  BY <1>2, <1>3

\* The jobs that do not run themselves stay in agreement when another job runs.
LEMMA OthersAgree ==
  ASSUME IInv, NEW i \in Jobs, NEW a, NEW again \in BOOLEAN,
         NEW ownWait, NEW ownInstances, NEW ownDueTimes,
         Ran(i, a, again, ownWait, ownInstances, ownDueTimes),
         NEW j \in Jobs \ {i}, MultiInstance(j)
  PROVE  Agrees(j)'
<1>0. RanResult(i, a, again, ownWait, ownInstances, ownDueTimes)
  BY RanFacts DEF IInv, TypeOK
<1>1. program' = program
  BY <1>0 DEF RanResult
<1>2. /\ Callback(j) \in pending' <=>
           Callback(j) \in pending \/ (j \in Children(i, a) /\ ~External(j))
      /\ wait'[j] = IF j \in Children(i, a) /\ J(j).queue \in {"timer", "check"}
                    THEN NewWait(j, wait[j]) ELSE wait[j]
      /\ instances'[j] = IF j \in Children(i, a) /\ MultiInstance(j)
                         THEN Bounded(instances[j]) ELSE instances[j]
      /\ dueTimes'[j] = IF j \in Children(i, a) /\ MultiInstance(j)
                        THEN AppendBounded(dueTimes[j], NodeDelay(j)) ELSE dueTimes[j]
  BY <1>0 DEF RanResult
<1>3. /\ J(j).queue = "timer" /\ ~External(j) /\ NodeDelay(j) \in Nat
      /\ Agrees(j) /\ instances[j] \in 0 .. MaxInstances /\ dueTimes[j] \in Seq(Nat)
  BY DelayShape DEF IInv, TypeOK, InstancesInv, MultiInstance, External
<1>4. NodeDelay(j)' = NodeDelay(j)
  BY <1>1 DEF NodeDelay, J
<1>5. CASE j \notin Children(i, a)
  <2>1. /\ Callback(j) \in pending' <=> Callback(j) \in pending
        /\ wait'[j] = wait[j] /\ instances'[j] = instances[j] /\ dueTimes'[j] = dueTimes[j]
    BY <1>2, <1>5
  <2>2. QED
    BY <1>1, <1>3, <1>4, <2>1 DEF Agrees, Counted, InOrder, Waits, Callback
<1>6. CASE j \in Children(i, a)
  <2> DEFINE w == NewWait(j, wait[j])
             s == AppendBounded(dueTimes[j], NodeDelay(j))
             n == Bounded(instances[j])
  <2>1. /\ Callback(j) \in pending'
        /\ wait'[j] = w /\ instances'[j] = n /\ dueTimes'[j] = s
    BY <1>2, <1>3, <1>6
  <2>2. w = IF Callback(j) \in pending THEN wait[j] ELSE NodeDelay(j)
    BY <1>3 DEF NewWait
  <2>3. /\ n \in 0 .. MaxInstances /\ n > 0 /\ s \in Seq(Nat) /\ Len(s) = n
        /\ \A m \in DOMAIN s : s[m] <= NodeDelay(j)
        /\ \A l, m \in DOMAIN s : l < m => s[l] <= s[m]
        /\ s[1] = IF instances[j] = 0 THEN NodeDelay(j) ELSE dueTimes[j][1]
    BY <1>3, OneMoreAgrees DEF Agrees, Counted, InOrder
  <2> HIDE DEF w, s, n
  <2>4. Counted(j)'
    BY <2>1, <2>3 DEF Counted
  <2>5. InOrder(j)'
    BY <1>4, <2>1, <2>3 DEF InOrder
  <2>6. (j \notin program.cancellable)' => Waits(j)'
    BY <1>1, <1>3, <2>1, <2>2, <2>3 DEF Agrees, Counted, Waits, Callback
  <2>7. QED
    BY <2>4, <2>5, <2>6 DEF Agrees
<1>7. QED
  BY <1>5, <1>6

\* Running a job keeps the types of what it changes, its own values being of them.
LEMMA RanTyped ==
  ASSUME IInv, NEW i \in Jobs, NEW a, NEW again \in BOOLEAN,
         NEW ownWait, NEW ownInstances, NEW ownDueTimes,
         Ran(i, a, again, ownWait, ownInstances, ownDueTimes),
         ownWait \in Nat, ownInstances \in 0 .. MaxInstances, ownDueTimes \in Seq(Nat)
  PROVE  RegistersTyped' /\ program' = program /\ decided' = decided /\ blocked' = blocked
<1>1. program \in Program /\ RegistersTyped
  BY DEF IInv, TypeOK, RegistersTyped
<1>0. RanResult(i, a, again, ownWait, ownInstances, ownDueTimes)
  BY <1>1, RanFacts
<1>2. program' = program /\ Jobs' = Jobs /\ Callbacks(Jobs)' = Callbacks(Jobs)
      /\ Reactions' = Reactions
  BY <1>0 DEF RanResult, Jobs, Callbacks, Callback, Reactions, Chains, C
<1>3. \A n \in 0 .. MaxInstances : Bounded(n) \in 0 .. MaxInstances
  BY BoundsAssumption DEF Bounded
<1>4. ASSUME NEW s \in Seq(Nat), NEW d \in Nat PROVE AppendBounded(s, d) \in Seq(Nat)
  BY DEF AppendBounded
<1>5. \A j \in Jobs : NodeDelay(j) \in Nat /\ NewWait(j, wait[j]) \in Nat
  BY <1>1, DelayShape DEF NewWait, RegistersTyped
<1>6. ASSUME NEW j \in Jobs
      PROVE  /\ wait'[j] \in Nat /\ instances'[j] \in 0 .. MaxInstances
             /\ dueTimes'[j] \in Seq(Nat) /\ registered'[j] \in 0 .. MaxInstances
  <2>1. /\ wait[j] \in Nat /\ instances[j] \in 0 .. MaxInstances
        /\ dueTimes[j] \in Seq(Nat) /\ registered[j] \in 0 .. MaxInstances
    BY <1>1 DEF RegistersTyped
  <2>2. CASE j = i
    BY <1>0, <2>1, <2>2 DEF RanResult
  <2>3. CASE j # i
    <3>1. /\ wait'[j] = IF j \in Children(i, a) /\ J(j).queue \in {"timer", "check"}
                        THEN NewWait(j, wait[j]) ELSE wait[j]
          /\ instances'[j] = IF j \in Children(i, a) /\ MultiInstance(j)
                             THEN Bounded(instances[j]) ELSE instances[j]
          /\ dueTimes'[j] = IF j \in Children(i, a) /\ MultiInstance(j)
                            THEN AppendBounded(dueTimes[j], NodeDelay(j)) ELSE dueTimes[j]
          /\ registered'[j] = IF j \in Children(i, a) /\ External(j)
                              THEN Bounded(registered[j]) ELSE registered[j]
      BY <1>0, <2>3 DEF RanResult
    <3>2. QED
      BY <1>3, <1>4, <1>5, <2>1, <3>1
  <2>4. QED
    BY <2>2, <2>3
<1>7. /\ wait' = [j \in Jobs |-> wait'[j]] /\ instances' = [j \in Jobs |-> instances'[j]]
      /\ dueTimes' = [j \in Jobs |-> dueTimes'[j]]
      /\ registered' = [j \in Jobs |-> registered'[j]]
      /\ pending' \subseteq pending \cup Callbacks(Jobs) /\ fired' = fired \cup {i}
      /\ decided' = decided /\ blocked' = blocked
  BY <1>0 DEF RanResult
<1>8. /\ pending' \subseteq Callbacks(Jobs) \cup Reactions /\ fired' \subseteq Jobs
  BY <1>1, <1>7 DEF RegistersTyped
<1>9. wait' \in [Jobs -> Nat] /\ instances' \in [Jobs -> 0 .. MaxInstances]
  BY <1>6, <1>7
<1>10. dueTimes' \in [Jobs -> Seq(Nat)] /\ registered' \in [Jobs -> 0 .. MaxInstances]
  BY <1>6, <1>7
<1>11. QED
  BY <1>2, <1>7, <1>8, <1>9, <1>10 DEF RegistersTyped

\* A job that runs in its phase keeps its own variables in agreement.
LEMMA OwnAgrees ==
  ASSUME IInv, NEW i \in Jobs, Due(i)
  PROVE  /\ Again(i) \in BOOLEAN /\ WaitAfter(i) \in Nat
         /\ InstancesAfter(i) \in 0 .. MaxInstances /\ DueTimesAfter(i) \in Seq(Nat)
         /\ MultiInstance(i) =>
              /\ Len(DueTimesAfter(i)) = InstancesAfter(i)
              /\ Again(i) <=> InstancesAfter(i) > 0
              /\ \A n \in DOMAIN DueTimesAfter(i) : DueTimesAfter(i)[n] <= NodeDelay(i)
              /\ \A m, n \in DOMAIN DueTimesAfter(i) :
                   m < n => DueTimesAfter(i)[m] <= DueTimesAfter(i)[n]
              /\ InstancesAfter(i) > 0 => WaitAfter(i) = DueTimesAfter(i)[1]
<1> DEFINE s == dueTimes[i]
           n == instances[i]
           d == NodeDelay(i)
<1>1. /\ J(i).repeats \in BOOLEAN /\ d \in Nat /\ wait[i] \in Nat
      /\ n \in 0 .. MaxInstances /\ s \in Seq(Nat)
      /\ External(i) \in BOOLEAN /\ MultiInstance(i) \in BOOLEAN
      /\ MaxInstances \in Nat /\ n \in Nat
  BY BoundsAssumption, JobShape, DelayShape DEF IInv, TypeOK, External, MultiInstance
<1>2. CASE ~MultiInstance(i)
  BY <1>1, <1>2 DEF Again, WaitAfter, InstancesAfter, DueTimesAfter
<1>3. CASE MultiInstance(i)
  <2>1. /\ ~External(i) /\ Len(s) = n /\ n > 0
        /\ \A m \in DOMAIN s : s[m] <= d
        /\ \A l, m \in DOMAIN s : l < m => s[l] <= s[m]
    BY <1>3 DEF IInv, InstancesInv, Agrees, Counted, InOrder, Due, External, MultiInstance
  <2> HIDE DEF s, n, d
  <2>2. /\ Tail(s) \in Seq(Nat) /\ Len(Tail(s)) = n - 1
        /\ DOMAIN s = 1 .. n /\ DOMAIN Tail(s) = 1 .. n - 1
        /\ \A m \in 1 .. n - 1 : Tail(s)[m] = s[m + 1]
    BY <1>1, <2>1
  <2>3. \A m \in 1 .. n - 1 : Tail(s)[m] \in Nat /\ Tail(s)[m] <= d
    BY <1>1, <2>1, <2>2
  <2>4. \A l, m \in 1 .. n - 1 : l < m => Tail(s)[l] <= Tail(s)[m]
    BY <1>1, <2>1, <2>2
  <2>5. FollowingDue(i, d) = IF n > 1 THEN s[2] ELSE d
    BY DEF FollowingDue, s, n, d
  <2>6. CASE J(i).repeats
    <3>1. /\ Again(i) = TRUE /\ InstancesAfter(i) = n
          /\ WaitAfter(i) = (IF n > 1 THEN s[2] ELSE d)
          /\ DueTimesAfter(i) = Append(Tail(s), d)
      BY <1>3, <2>1, <2>5, <2>6 DEF Again, WaitAfter, InstancesAfter, DueTimesAfter, s, n, d
    <3> DEFINE t == Append(Tail(s), d)
    <3>2. /\ t \in Seq(Nat) /\ Len(t) = n /\ DOMAIN t = 1 .. n
          /\ \A m \in 1 .. n - 1 : t[m] = Tail(s)[m]
          /\ t[n] = d
      BY <1>1, <2>1, <2>2
    <3> HIDE DEF t
    <3>3. \A m \in 1 .. n : t[m] <= d
      BY <1>1, <2>1, <2>3, <3>2
    <3>4. ASSUME NEW l \in 1 .. n, NEW m \in 1 .. n, l < m
          PROVE  t[l] <= t[m]
      <4>1. CASE m = n
        BY <2>1, <2>3, <3>2, <3>4, <4>1
      <4>2. CASE m # n
        <5>1. l \in 1 .. n - 1 /\ m \in 1 .. n - 1
          BY <1>1, <2>1, <3>4, <4>2
        <5>2. QED
          BY <2>4, <3>2, <3>4, <5>1
      <4>3. QED
        BY <4>1, <4>2
    <3>5. t[1] = (IF n > 1 THEN s[2] ELSE d) /\ (IF n > 1 THEN s[2] ELSE d) \in Nat
      BY <1>1, <2>1, <2>2, <2>3, <3>2
    <3>6. QED
      BY <1>1, <2>1, <3>1, <3>2, <3>3, <3>4, <3>5 DEF t, d
  <2>7. CASE ~J(i).repeats
    <3>1. /\ Again(i) \in BOOLEAN /\ (Again(i) <=> n > 1) /\ InstancesAfter(i) = n - 1
          /\ WaitAfter(i) = (IF n > 1 THEN s[2] ELSE wait[i])
          /\ DueTimesAfter(i) = Tail(s)
      BY <1>3, <2>1, <2>7 DEF Again, WaitAfter, InstancesAfter, DueTimesAfter, FollowingDue, s, n, d
    <3>2. ASSUME n > 1 PROVE Tail(s)[1] = s[2]
      BY <1>1, <2>1, <2>2, <3>2
    <3>3. (IF n > 1 THEN s[2] ELSE wait[i]) \in Nat
      BY <1>1, <2>1, <2>2, <2>3
    <3>4. /\ Again(i) \in BOOLEAN /\ WaitAfter(i) \in Nat
          /\ InstancesAfter(i) \in 0 .. MaxInstances /\ DueTimesAfter(i) \in Seq(Nat)
      BY <1>1, <2>1, <2>2, <3>1, <3>3
    <3>5. /\ Len(DueTimesAfter(i)) = InstancesAfter(i)
          /\ Again(i) <=> InstancesAfter(i) > 0
          /\ DOMAIN DueTimesAfter(i) = 1 .. n - 1
      BY <1>1, <2>1, <2>2, <3>1
    <3>6. \A m \in DOMAIN DueTimesAfter(i) : DueTimesAfter(i)[m] <= NodeDelay(i)
      BY <2>3, <3>1, <3>5 DEF d
    <3>7. \A l, m \in DOMAIN DueTimesAfter(i) :
            l < m => DueTimesAfter(i)[l] <= DueTimesAfter(i)[m]
      BY <2>4, <3>1, <3>5
    <3>8. ASSUME InstancesAfter(i) > 0 PROVE WaitAfter(i) = DueTimesAfter(i)[1]
      <4>1. n > 1
        BY <1>1, <3>1, <3>8
      <4>2. QED
        BY <3>1, <3>2, <4>1
    <3>9. QED
      BY <3>4, <3>5, <3>6, <3>7, <3>8
  <2>8. QED
    BY <1>1, <2>6, <2>7
<1>4. QED
  BY <1>1, <1>2, <1>3

\* Running a job, in a checkpoint or in its phase, keeps the invariant's parts.
LEMMA RunsKeepAgreement ==
  ASSUME IInv, NEW i \in Jobs, NEW a, RunsAlternative(i, a)
  PROVE  RegistersTyped' /\ InstancesInv' /\ program' = program
         /\ decided' = decided /\ blocked' = blocked
<1>1. CASE DrainsJob(i, a)
  <2>1. /\ Ran(i, a, FALSE, wait[i], instances[i], dueTimes[i])
        /\ J(i).queue \in {"next-tick", "microtask"}
    BY <1>1 DEF DrainsJob, DrainNextTick, DrainMicrotask, Drain, Of
  <2>2. /\ wait[i] \in Nat /\ instances[i] \in 0 .. MaxInstances /\ dueTimes[i] \in Seq(Nat)
        /\ ~MultiInstance(i)
    BY <2>1 DEF IInv, TypeOK, MultiInstance
  <2>3. RegistersTyped' /\ program' = program /\ decided' = decided /\ blocked' = blocked
    BY <2>1, <2>2, RanTyped
  <2>4. ASSUME NEW j \in Jobs, MultiInstance(j) PROVE Agrees(j)'
    BY <2>1, <2>2, <2>4, OthersAgree
  <2>5. QED
    BY <2>3, <2>4 DEF InstancesInv, MultiInstance, Jobs, J
<1>2. CASE RunsInPhase(i, a)
  <2>1. /\ Ran(i, a, Again(i), WaitAfter(i), InstancesAfter(i), DueTimesAfter(i))
        /\ Due(i)
    BY <1>2 DEF RunsInPhase, RunTimer, RunPoll, RunCheck, RunClose, RunMacro
  <2>2. /\ Again(i) \in BOOLEAN /\ WaitAfter(i) \in Nat
        /\ InstancesAfter(i) \in 0 .. MaxInstances /\ DueTimesAfter(i) \in Seq(Nat)
    BY <2>1, OwnAgrees
  <2>3. RegistersTyped' /\ program' = program /\ decided' = decided /\ blocked' = blocked
    BY <2>1, <2>2, RanTyped
  <2>4. ASSUME NEW j \in Jobs \ {i}, MultiInstance(j) PROVE Agrees(j)'
    BY <2>1, <2>2, <2>4, OthersAgree
  <2>5. ASSUME MultiInstance(i) PROVE Agrees(i)'
    <3>1. /\ Callback(i) \in pending' <=> Again(i)
          /\ wait'[i] = WaitAfter(i) /\ instances'[i] = InstancesAfter(i)
          /\ dueTimes'[i] = DueTimesAfter(i)
      <4>1. RanResult(i, a, Again(i), WaitAfter(i), InstancesAfter(i), DueTimesAfter(i))
        BY <2>1, <2>2, RanFacts DEF IInv, TypeOK
      <4>2. QED
        BY <4>1 DEF RanResult
    <3>2. /\ Len(DueTimesAfter(i)) = InstancesAfter(i)
          /\ Again(i) <=> InstancesAfter(i) > 0
          /\ \A n \in DOMAIN DueTimesAfter(i) : DueTimesAfter(i)[n] <= NodeDelay(i)
          /\ \A m, n \in DOMAIN DueTimesAfter(i) :
               m < n => DueTimesAfter(i)[m] <= DueTimesAfter(i)[n]
          /\ InstancesAfter(i) > 0 => WaitAfter(i) = DueTimesAfter(i)[1]
      BY <2>1, <2>5, OwnAgrees
    <3>3. NodeDelay(i)' = NodeDelay(i)
      BY <2>3 DEF NodeDelay, J
    <3>4. Counted(i)'
      BY <3>1, <3>2 DEF Counted, Callback
    <3>5. InOrder(i)'
      BY <3>1, <3>2, <3>3 DEF InOrder
    <3>6. Waits(i)'
      BY <3>1, <3>2 DEF Waits, Callback
    <3>7. QED
      BY <3>4, <3>5, <3>6 DEF Agrees
  <2>6. \A j \in Jobs : MultiInstance(j) => Agrees(j)'
    BY <2>4, <2>5
  <2>7. QED
    BY <2>3, <2>6 DEF InstancesInv, MultiInstance, Jobs, J
<1>3. QED
  BY <1>1, <1>2 DEF RunsAlternative

\* A step that leaves every counter and due time as it is, adds only flags that do
\* not belong to repeated registrations, and takes away those of reactions,
\* or of handles that may be cleared, keeps the agreement.
LEMMA FlagsKeepAgreement ==
  ASSUME IInv, program' = program, wait' = wait, instances' = instances, dueTimes' = dueTimes,
         \A i \in Jobs : MultiInstance(i) =>
           /\ Callback(i) \in pending' => Callback(i) \in pending
           /\ Callback(i) \in pending => Callback(i) \in pending' \/ i \in program.cancellable
  PROVE  InstancesInv'
<1>1. ASSUME NEW i \in Jobs, MultiInstance(i) PROVE Agrees(i)'
  <2>1. Agrees(i)
    BY <1>1 DEF IInv, InstancesInv
  <2>2. NodeDelay(i)' = NodeDelay(i)
    BY DEF NodeDelay, J
  <2>3. Counted(i)' /\ InOrder(i)'
    BY <1>1, <2>1, <2>2 DEF Agrees, Counted, InOrder, Callback
  <2>4. (i \notin program.cancellable)' => Waits(i)'
    BY <1>1, <2>1 DEF Agrees, Waits, Callback
  <2>5. QED
    BY <2>3, <2>4 DEF Agrees
<1>2. QED
  BY <1>1 DEF InstancesInv, MultiInstance, Jobs, J

\* A tick of the clock moves a due time and the list it comes from alike.
LEMMA TickKeepsAgreement ==
  ASSUME IInv, AdvanceCloseToNextIteration
  PROVE  /\ InstancesInv' /\ wait' \in [Jobs -> Nat] /\ dueTimes' \in [Jobs -> Seq(Nat)]
<1>1. /\ wait' = [i \in Jobs |-> Sooner(wait[i])]
      /\ dueTimes' = [i \in Jobs |-> [n \in DOMAIN dueTimes[i] |-> Sooner(dueTimes[i][n])]]
      /\ program' = program /\ pending' = pending /\ instances' = instances
  BY DEF AdvanceCloseToNextIteration
<1>2. \A d \in Nat : Sooner(d) \in Nat /\ Sooner(d) <= d
  BY DEF Sooner
<1>3. \A c, d \in Nat : c <= d => Sooner(c) <= Sooner(d)
  BY DEF Sooner
<1>4. ASSUME NEW i \in Jobs
      PROVE  /\ wait'[i] \in Nat /\ dueTimes'[i] \in Seq(Nat)
             /\ DOMAIN dueTimes'[i] = DOMAIN dueTimes[i] /\ Len(dueTimes'[i]) = Len(dueTimes[i])
             /\ \A n \in DOMAIN dueTimes[i] :
                  dueTimes[i][n] \in Nat /\ dueTimes'[i][n] = Sooner(dueTimes[i][n])
  <2> DEFINE s == dueTimes[i]
             t == [n \in 1 .. Len(s) |-> Sooner(s[n])]
  <2>1. s \in Seq(Nat) /\ wait[i] \in Nat
    BY DEF IInv, TypeOK
  <2>2. Len(s) \in Nat /\ DOMAIN s = 1 .. Len(s) /\ \A n \in 1 .. Len(s) : s[n] \in Nat
    BY <2>1
  <2>3. dueTimes'[i] = t /\ wait'[i] = Sooner(wait[i])
    BY <1>1, <2>2
  <2> HIDE DEF s
  <2>4. \A n \in 1 .. Len(s) : Sooner(s[n]) \in Nat
    BY <1>2, <2>2
  <2>5. t \in Seq(Nat) /\ Len(t) = Len(s) /\ DOMAIN t = 1 .. Len(s)
        /\ \A n \in 1 .. Len(s) : t[n] = Sooner(s[n])
    BY <2>2, <2>4
  <2> HIDE DEF t
  <2>6. QED
    BY <1>2, <2>1, <2>2, <2>3, <2>5 DEF s
<1>5. ASSUME NEW i \in Jobs, MultiInstance(i) PROVE Agrees(i)'
  <2>1. Agrees(i) /\ NodeDelay(i) \in Nat /\ instances[i] \in Nat
    BY <1>5, DelayShape, BoundsAssumption DEF IInv, TypeOK, InstancesInv
  <2>2. NodeDelay(i)' = NodeDelay(i)
    BY <1>1 DEF NodeDelay, J
  <2>3. Counted(i)'
    BY <1>1, <1>4, <2>1 DEF Agrees, Counted, Callback
  <2>4. InOrder(i)'
    <3>1. ASSUME NEW n \in DOMAIN dueTimes'[i] PROVE dueTimes'[i][n] <= NodeDelay(i)
      <4>1. /\ n \in DOMAIN dueTimes[i] /\ dueTimes[i][n] \in Nat
            /\ dueTimes'[i][n] = Sooner(dueTimes[i][n])
        BY <1>4
      <4>2. dueTimes[i][n] <= NodeDelay(i)
        BY <2>1, <4>1 DEF Agrees, InOrder
      <4>3. QED
        BY <1>2, <2>1, <4>1, <4>2
    <3>2. \A m, n \in DOMAIN dueTimes'[i] : m < n => dueTimes'[i][m] <= dueTimes'[i][n]
      BY <1>3, <1>4, <2>1 DEF Agrees, InOrder
    <3>3. QED
      BY <2>2, <3>1, <3>2 DEF InOrder
  <2>5. ASSUME i \notin program.cancellable, instances[i] > 0
        PROVE  Callback(i) \in pending /\ wait'[i] = dueTimes'[i][1]
    <3>1. Callback(i) \in pending /\ wait[i] = dueTimes[i][1] /\ 1 \in DOMAIN dueTimes[i]
      BY <1>5, <2>1, <2>5, <1>4 DEF Agrees, Counted, Waits, IInv, TypeOK
    <3>2. QED
      BY <1>1, <1>4, <3>1
  <2>6. (i \notin program.cancellable)' => Waits(i)'
    BY <1>1, <2>5 DEF Waits, Callback
  <2>7. QED
    BY <2>3, <2>4, <2>6 DEF Agrees
<1>6. wait' \in [Jobs -> Nat] /\ dueTimes' \in [Jobs -> Seq(Nat)]
  <2>1. \A i \in Jobs : Sooner(wait[i]) \in Nat
    BY <1>2 DEF IInv, TypeOK
  <2>2. DOMAIN dueTimes' = Jobs /\ dueTimes' = [i \in Jobs |-> dueTimes'[i]]
    BY <1>1
  <2>3. wait' \in [Jobs -> Nat]
    BY <1>1, <2>1
  <2>4. dueTimes' \in [Jobs -> Seq(Nat)]
    BY <1>4, <2>2
  <2>5. QED
    BY <2>3, <2>4
<1>7. QED
  BY <1>1, <1>5, <1>6 DEF InstancesInv, MultiInstance, Jobs, J

LEMMA InitInv == Init => IInv
<1> SUFFICES ASSUME Init PROVE IInv
  OBVIOUS
<1>1. program \in Program
  BY DEF Init
<1>2. /\ phase = 0 /\ resume = 1 /\ fired = {} /\ decided = {} /\ blocked = FALSE
      /\ wait = [i \in Jobs |-> NodeDelay(i)]
      /\ instances = [i \in Jobs |-> 0] /\ registered = [i \in Jobs |-> 0]
      /\ dueTimes = [i \in Jobs |-> <<>>]
      /\ pending = InitialReactions
           \cup Callbacks({i \in Jobs : J(i).parent = 0 /\ ~External(i) /\ ~J(i).cancelled})
  BY DEF Init
<1>3. InitialReactions \subseteq Reactions
  <2>1. \A c \in Chains : C(c).links > 0 => 1 \in 1 .. C(c).links
    <3>1. \A c \in Chains : C(c).links \in Nat
      <4>1. \A c \in Chains : C(c) \in Chain
        BY <1>1, ProgramShape
      <4>2. MaxStages \in Nat
        BY BoundsAssumption
      <4>3. QED
        BY <4>1, <4>2 DEF Chain
    <3>2. QED
      BY <3>1
  <2>2. QED
    BY <2>1 DEF InitialReactions, Reactions
<1>4. \A i \in Jobs : NodeDelay(i) \in Nat
  BY <1>1, DelayShape
<1>5. MaxInstances \in Nat
  BY BoundsAssumption
<1>6. TypeOK
  <2>1. pending \subseteq Callbacks(Jobs) \cup Reactions
    BY <1>2, <1>3 DEF Callbacks
  <2>2. wait \in [Jobs -> Nat] /\ instances \in [Jobs -> 0 .. MaxInstances]
        /\ dueTimes \in [Jobs -> Seq(Nat)] /\ registered \in [Jobs -> 0 .. MaxInstances]
    BY <1>2, <1>4, <1>5
  <2>3. phase \in 0 .. 4 /\ resume \in 1 .. 4
    BY <1>2
  <2>4. fired \subseteq Jobs /\ decided \subseteq Divergent /\ blocked \in BOOLEAN
    <3>1. fired = {} /\ decided = {} /\ blocked = FALSE
      BY <1>2
    <3>2. QED
      BY <3>1
  <2>5. QED
    BY <1>1, <2>1, <2>2, <2>3, <2>4 DEF TypeOK
<1>7. ASSUME NEW i \in Jobs, MultiInstance(i) PROVE Agrees(i)
  <2>1. Callback(i) \notin pending
    <3>1. /\ Callback(i) \notin Reactions
          /\ \A js : Callback(i) \in Callbacks(js) <=> i \in js
      BY <1>1, KeysDiffer
    <3>2. QED
      BY <1>2, <1>3, <1>7, <3>1 DEF MultiInstance
  <2>2. QED
    BY <1>2, <2>1 DEF Agrees, Counted, InOrder, Waits
<1>8. QED
  BY <1>6, <1>7 DEF IInv, InstancesInv

\* The sets the type invariant is about depend on the program only.
ProgramSets == <<Jobs, Callbacks(Jobs), Reactions, Divergent>>

LEMMA ProgramSetsStay ==
  ASSUME program' = program PROVE ProgramSets' = ProgramSets
  BY DEF ProgramSets, Jobs, Callbacks, Callback, Reactions, Chains, C, Divergent, E

LEMMA NextInv == IInv /\ [Next]_vars => IInv'
<1> SUFFICES ASSUME IInv, [Next]_vars PROVE IInv'
  OBVIOUS
<1>1. program \in Program /\ TypeOK /\ InstancesInv /\ RegistersTyped
  BY DEF IInv, TypeOK, RegistersTyped
<1>2. ASSUME program' = program
      PROVE  /\ Jobs' = Jobs /\ Reactions' = Reactions /\ Divergent' = Divergent
             /\ Callbacks(Jobs)' = Callbacks(Jobs)
  BY <1>2, ProgramSetsStay DEF ProgramSets
<1>3. /\ \A i, j : Callback(i) = Callback(j) <=> i = j
      /\ \A i, js : Callback(i) \in Callbacks(js) <=> i \in js
      /\ \A i : Callback(i) \notin Reactions
  BY <1>1, KeysDiffer
<1>4. ASSUME NEW i \in Jobs, NEW a \in Alternatives(i), RunsAlternative(i, a) PROVE IInv'
  <2>1. /\ RegistersTyped' /\ InstancesInv' /\ program' = program
        /\ decided' = decided /\ blocked' = blocked
    BY <1>4, RunsKeepAgreement
  <2>2. phase' \in 0 .. 4 /\ resume' \in 1 .. 4
    <3>1. CASE DrainsJob(i, a)
      <4>1. phase' = phase /\ resume' = resume
        BY <3>1 DEF DrainsJob, DrainNextTick, DrainMicrotask, Drain
      <4>2. QED
        BY <1>1, <4>1 DEF TypeOK
    <3>2. CASE RunsInPhase(i, a)
      <4>1. phase' = 0 /\ resume' \in {1, 2, 3, 4}
        BY <3>2 DEF RunsInPhase, RunTimer, RunPoll, RunCheck, RunClose, RunMacro
      <4>2. QED
        BY <4>1
    <3>3. QED
      BY <1>4, <3>1, <3>2 DEF RunsAlternative
  <2>3. QED
    BY <1>1, <1>2, <2>1, <2>2 DEF IInv, TypeOK, RegistersTyped
<1>5. ASSUME NEW k \in Reactions, DrainReaction(k) PROVE IInv'
  <2>1. /\ pending' = (pending \ {k}) \cup NextStage(k)
        /\ UNCHANGED <<program, phase, resume, wait, fired, instances, dueTimes, registered,
                       decided, blocked>>
        /\ NextStage(k) \subseteq Reactions
    BY <1>5 DEF DrainReaction, NextStage
  <2>2. InstancesInv'
    BY <1>3, <2>1, FlagsKeepAgreement
  <2>3. QED
    BY <1>1, <1>2, <2>1, <2>2 DEF IInv, TypeOK
<1>6. ASSUME NEW i \in Jobs, Complete(i) PROVE IInv'
  <2>1. /\ pending' = pending \cup {Callback(i)} /\ External(i)
        /\ registered' = [registered EXCEPT ![i] =
                            IF Registers(i) /\ ~J(i).repeats THEN @ - 1 ELSE @]
        /\ Registers(i) => registered[i] > 0
        /\ UNCHANGED <<program, phase, resume, wait, fired, instances, dueTimes, decided, blocked>>
    BY <1>6 DEF Complete
  <2>2. \A j \in Jobs : MultiInstance(j) => j # i
    BY <2>1 DEF MultiInstance, External
  <2>3. InstancesInv'
    BY <1>3, <2>1, <2>2, FlagsKeepAgreement
  <2>4. registered' \in [Jobs -> 0 .. MaxInstances]
    <3>1. registered[i] \in 0 .. MaxInstances /\ MaxInstances \in Nat
      BY <1>1, BoundsAssumption DEF TypeOK
    <3>2. (IF Registers(i) /\ ~J(i).repeats THEN registered[i] - 1 ELSE registered[i])
             \in 0 .. MaxInstances
      BY <2>1, <3>1
    <3>3. QED
      BY <1>1, <2>1, <3>2 DEF TypeOK
  <2>5. pending' \subseteq Callbacks(Jobs) \cup Reactions
    BY <1>1, <1>3, <2>1 DEF TypeOK
  <2>6. QED
    BY <1>1, <1>2, <2>1, <2>3, <2>4, <2>5 DEF IInv, TypeOK
<1>7. ASSUME NEW i \in Jobs, CancelTimer(i) PROVE IInv'
  <2>1. /\ pending' = pending \ {Callback(i)} /\ i \in program.cancellable
        /\ UNCHANGED <<program, phase, resume, wait, fired, instances, dueTimes, registered,
                       decided, blocked>>
    BY <1>7 DEF CancelTimer
  <2>2. InstancesInv'
    BY <1>3, <2>1, FlagsKeepAgreement
  <2>3. QED
    BY <1>1, <1>2, <2>1, <2>2 DEF IInv, TypeOK
<1>8. ASSUME NEW e \in Divergent, DivergeExecutor(e) \/ ReturnSettled(e) \/ ReturnPending(e)
      PROVE  IInv'
  <2>1. PICK reactions \in SUBSET Reactions, diverges \in BOOLEAN : Decide(e, reactions, diverges)
    <3>1. FirstReaction(e) \subseteq Reactions
      <4>1. \A c \in Chains : C(c).links > 0 => 1 \in 1 .. C(c).links
        <5>1. \A c \in Chains : C(c) \in Chain
          BY <1>1, ProgramShape
        <5>2. MaxStages \in Nat
          BY BoundsAssumption
        <5>3. QED
          BY <5>1, <5>2 DEF Chain
      <4>2. QED
        BY <4>1 DEF FirstReaction, Reactions
    <3>2. QED
      BY <1>8, <3>1 DEF DivergeExecutor, ReturnSettled, ReturnPending
  <2>2. /\ pending' = pending \cup reactions /\ decided' = decided \cup {e} /\ blocked' = diverges
        /\ UNCHANGED <<program, phase, resume, wait, fired, instances, dueTimes, registered>>
    BY <2>1 DEF Decide
  <2>3. InstancesInv'
    BY <1>3, <2>1, <2>2, FlagsKeepAgreement
  <2>4. QED
    BY <1>1, <1>2, <2>1, <2>2, <2>3 DEF IInv, TypeOK
<1>9. CASE FinishCheckpoint \/ AdvancesPhase
  <2>1. CASE AdvanceCloseToNextIteration
    <3>1. /\ InstancesInv' /\ wait' \in [Jobs -> Nat] /\ dueTimes' \in [Jobs -> Seq(Nat)]
      BY <2>1, TickKeepsAgreement
    <3>2. /\ phase' = 0 /\ resume' = 1
          /\ UNCHANGED <<program, pending, fired, instances, registered, decided, blocked>>
      BY <2>1 DEF AdvanceCloseToNextIteration
    <3>3. QED
      BY <1>1, <1>2, <3>1, <3>2 DEF IInv, TypeOK
  <2>2. CASE FinishCheckpoint \/ AdvanceTimersToPoll \/ AdvancePollToCheck \/ AdvanceCheckToClose
    <3>1. /\ phase' \in 0 .. 4
          /\ UNCHANGED <<program, resume, pending, wait, fired, instances, dueTimes, registered,
                         decided, blocked>>
      BY <1>1, <2>2 DEF FinishCheckpoint, AdvanceTimersToPoll, AdvancePollToCheck,
         AdvanceCheckToClose, Advance, TypeOK
    <3>2. InstancesInv'
      BY <3>1, FlagsKeepAgreement
    <3>3. QED
      BY <1>1, <1>2, <3>1, <3>2 DEF IInv, TypeOK
  <2>3. QED
    BY <1>9, <2>1, <2>2 DEF AdvancesPhase
<1>10. CASE UNCHANGED vars
  <2>1. UNCHANGED <<program, phase, resume, pending, wait, fired, instances, dueTimes,
                    registered, decided, blocked>>
    BY <1>10 DEF vars
  <2>2. InstancesInv'
    BY <2>1, FlagsKeepAgreement
  <2>3. QED
    BY <1>1, <1>2, <2>1, <2>2 DEF IInv, TypeOK
<1>11. QED
  BY <1>4, <1>5, <1>6, <1>7, <1>8, <1>9, <1>10 DEF Next, HostStep

\* Every variable keeps its type; no more than MaxInstances registrations are kept.
THEOREM NodeLoopTyped == Spec => []TypeOK
<1>1. IInv => TypeOK
  BY DEF IInv
<1>2. QED
  BY <1>1, InitInv, NextInv, PTL DEF Spec

\* For every program, the variables of a timer that is registered again and again
\* agree, unless its handle may be cleared: clearing takes the flag and leaves the
\* instances (async-patterns.ts:2193-2197, 2310-2330).
THEOREM RepeatedRegistrationsAgree ==
  Spec => []((\A i \in program.cancellable : ~MultiInstance(i)) => InstancesAgree)
<1>1. IInv => ((\A i \in program.cancellable : ~MultiInstance(i)) => InstancesAgree)
  <2> SUFFICES ASSUME IInv, \A i \in program.cancellable : ~MultiInstance(i),
                      NEW i \in Jobs, MultiInstance(i)
               PROVE  /\ Len(dueTimes[i]) = instances[i]
                      /\ Callback(i) \in pending <=> instances[i] > 0
                      /\ \A m, n \in DOMAIN dueTimes[i] : m < n => dueTimes[i][m] <= dueTimes[i][n]
                      /\ instances[i] > 0 => wait[i] = dueTimes[i][1]
    BY DEF InstancesAgree
  <2>1. Counted(i) /\ InOrder(i) /\ Waits(i)
    BY DEF IInv, InstancesInv, Agrees
  <2>2. QED
    BY <2>1 DEF Counted, InOrder, Waits
<1>2. QED
  BY <1>1, InitInv, NextInv, PTL DEF Spec

-----------------------------------------------------------------------------
\* Timers that are due.

\* Running a job makes no timer due but itself: what it registers waits for its delay,
\* and one more registration leaves the due time of the earlier ones alone.
LEMMA TimersStayUndue ==
  ASSUME program \in Program, NEW i \in Jobs, NEW a, NEW again \in BOOLEAN,
         NEW ownWait, NEW ownInstances, NEW ownDueTimes,
         Ran(i, a, again, ownWait, ownInstances, ownDueTimes),
         NEW j \in Jobs \ {i}, J(j).queue = "timer", ~Due(j)
  PROVE  ~Due(j)'
<1>1. RanResult(i, a, again, ownWait, ownInstances, ownDueTimes)
  BY RanFacts
<1>2. /\ Callback(j) \in pending' <=> Callback(j) \in pending \/ j \in Children(i, a)
      /\ wait'[j] = IF j \in Children(i, a) THEN NewWait(j, wait[j]) ELSE wait[j]
  BY <1>1 DEF RanResult, External
<1>3. j \in Children(i, a) => NodeDelay(j) \in Nat /\ NodeDelay(j) > 0
  BY ChildrenDiffer, DelayShape
<1>4. NewWait(j, wait[j]) =
        IF MultiInstance(j) /\ Callback(j) \in pending THEN wait[j] ELSE NodeDelay(j)
  BY DEF NewWait
<1>5. QED
  BY <1>2, <1>3, <1>4 DEF Due, Callback

\* The phase the loop is in, or will return to after the checkpoint.
At == IF phase = 0 THEN resume ELSE phase

NoneDue == At > 1 => \A i \in Jobs : J(i).queue = "timer" => ~Due(i)

LEMMA NoneDueStays == IInv /\ NoneDue /\ [Next]_vars => NoneDue'
<1> SUFFICES ASSUME IInv, NoneDue, [Next]_vars PROVE NoneDue'
  OBVIOUS
<1>1. program \in Program /\ phase \in 0 .. 4 /\ resume \in 1 .. 4
  BY DEF IInv, TypeOK
<1>2. /\ \A i, j : Callback(i) = Callback(j) <=> i = j
      /\ \A i : Callback(i) \notin Reactions
  BY <1>1, KeysDiffer
<1>3. ASSUME program' = program, wait' = wait, At' > 1 => At > 1,
             \A i \in Jobs : J(i).queue = "timer" =>
               (Callback(i) \in pending' => Callback(i) \in pending)
      PROVE  NoneDue'
  BY <1>3 DEF NoneDue, Due, Jobs, J, Callback
<1>4. ASSUME NEW i \in Jobs, NEW a \in Alternatives(i), RunsAlternative(i, a) PROVE NoneDue'
  <2>1. CASE DrainsJob(i, a)
    <3>1. /\ Ran(i, a, FALSE, wait[i], instances[i], dueTimes[i]) /\ J(i).queue # "timer"
          /\ phase' = phase /\ resume' = resume
      BY <2>1 DEF DrainsJob, DrainNextTick, DrainMicrotask, Drain, Of
    <3>2. program' = program
      BY <3>1, RanFacts, <1>1 DEF RanResult
    <3>3. \A j \in Jobs : J(j).queue = "timer" /\ ~Due(j) => ~Due(j)'
      BY <1>1, <3>1, TimersStayUndue
    <3>4. At' = At
      BY <3>1 DEF At
    <3>5. QED
      BY <3>2, <3>3, <3>4 DEF NoneDue, Jobs, J
  <2>2. CASE RunTimer(i, a)
    <3>1. phase' = 0 /\ resume' = 1
      BY <2>2 DEF RunTimer, RunMacro
    <3>2. QED
      BY <3>1 DEF NoneDue, At
  <2>3. CASE RunPoll(i, a) \/ RunCheck(i, a) \/ RunClose(i, a)
    <3>1. /\ Ran(i, a, Again(i), WaitAfter(i), InstancesAfter(i), DueTimesAfter(i))
          /\ J(i).queue # "timer" /\ Due(i) /\ phase \in {2, 3, 4}
      BY <2>3 DEF RunPoll, RunCheck, RunClose, RunMacro, Of
    <3>2. Again(i) \in BOOLEAN
      BY <3>1, OwnAgrees
    <3>3. program' = program
      BY <1>1, <3>1, <3>2, RanFacts DEF RanResult
    <3>4. \A j \in Jobs : J(j).queue = "timer" /\ ~Due(j) => ~Due(j)'
      BY <1>1, <3>1, <3>2, TimersStayUndue
    <3>5. At > 1
      BY <3>1 DEF At
    <3>6. QED
      BY <3>3, <3>4, <3>5 DEF NoneDue, Jobs, J
  <2>4. QED
    BY <1>4, <2>1, <2>2, <2>3 DEF RunsAlternative, RunsInPhase
<1>5. ASSUME NEW k \in Reactions, DrainReaction(k) PROVE NoneDue'
  <2>1. /\ pending' = (pending \ {k}) \cup NextStage(k) /\ NextStage(k) \subseteq Reactions
        /\ UNCHANGED <<program, phase, resume, wait>>
    BY <1>5 DEF DrainReaction, NextStage
  <2>2. QED
    BY <1>2, <1>3, <2>1 DEF At
<1>6. ASSUME NEW i \in Jobs, Complete(i) \/ CancelTimer(i) PROVE NoneDue'
  <2>1. /\ pending' \subseteq pending \cup (IF External(i) THEN {Callback(i)} ELSE {})
        /\ UNCHANGED <<program, phase, resume, wait>>
    BY <1>6 DEF Complete, CancelTimer
  <2>2. QED
    BY <1>2, <1>3, <2>1 DEF At, External
<1>7. ASSUME NEW e \in Divergent, DivergeExecutor(e) \/ ReturnSettled(e) \/ ReturnPending(e)
      PROVE  NoneDue'
  <2>1. /\ pending' \subseteq pending \cup FirstReaction(e)
        /\ UNCHANGED <<program, phase, resume, wait>>
    BY <1>7 DEF DivergeExecutor, ReturnSettled, ReturnPending, Decide
  <2>2. \A i : Callback(i) \notin FirstReaction(e)
    BY <1>1, KeysDiffer DEF FirstReaction
  <2>3. QED
    BY <1>3, <2>1, <2>2 DEF At
<1>8. CASE FinishCheckpoint
  <2>1. /\ phase = 0 /\ phase' = resume /\ resume \in 1 .. 4
        /\ UNCHANGED <<program, resume, pending, wait>>
    BY <1>1, <1>8 DEF FinishCheckpoint, Draining
  <2>2. At' = At
    BY <2>1 DEF At
  <2>3. QED
    BY <1>3, <2>1, <2>2
<1>9. CASE AdvanceTimersToPoll
  <2>1. /\ \A i \in Of("timer") : ~Due(i)
        /\ UNCHANGED <<program, pending, wait>>
    BY <1>9 DEF AdvanceTimersToPoll, Advance
  <2>2. QED
    BY <2>1 DEF NoneDue, Due, Of, Jobs, J, Callback
<1>10. CASE AdvancePollToCheck \/ AdvanceCheckToClose
  <2>1. /\ phase > 1 /\ phase' > 1
        /\ UNCHANGED <<program, pending, wait>>
    BY <1>10 DEF AdvancePollToCheck, AdvanceCheckToClose, Advance
  <2>2. At > 1
    BY <2>1 DEF At
  <2>3. QED
    BY <1>3, <2>1, <2>2
<1>11. CASE AdvanceCloseToNextIteration
  <2>1. phase' = 0 /\ resume' = 1
    BY <1>11 DEF AdvanceCloseToNextIteration
  <2>2. QED
    BY <2>1 DEF NoneDue, At
<1>12. CASE UNCHANGED vars
  BY <1>3, <1>12 DEF vars, At
<1>13. QED
  BY <1>4, <1>5, <1>6, <1>7, <1>8, <1>9, <1>10, <1>11, <1>12
     DEF Next, HostStep, AdvancesPhase

\* For every program, no callback of the poll, check or close phase runs while a
\* timer is due (docs/async-pattern-models.md, phases).
THEOREM TimersComeFirst == Spec => []DueTimersRunFirst
<1>1. Init => NoneDue
  BY DEF Init, NoneDue, At
<1>2. NoneDue => DueTimersRunFirst
  BY DEF NoneDue, DueTimersRunFirst, At, Of
<1>3. QED
  BY <1>1, <1>2, InitInv, NextInv, NoneDueStays, PTL DEF Spec

-----------------------------------------------------------------------------
\* Registrations.

\* The jobs that run once at most: neither they nor what registers them repeats.
OnceTogether == {S \in SUBSET Jobs :
  \A k \in S : ~J(k).repeats /\ (J(k).parent # 0 => J(k).parent \in S)}

RunsOnce == UNION OnceTogether

\* A single flag keeps one registration, so that a timer or an immediate that has
\* only a flag must not be registered by something that runs again before it.
SingleFlagsOnce ==
  \A j \in Jobs : J(j).queue \in {"timer", "check"} /\ J(j).parent # 0 =>
    MultiInstance(j) \/ J(j).parent \in RunsOnce

\* A job that runs once is registered, becomes pending and runs, in this order; and
\* what it registers waits until it has run.
OnceInv ==
  /\ \A i \in RunsOnce :
       /\ Callback(i) \in pending => i \notin fired
       /\ registered[i] > 0 => J(i).parent # 0 /\ Callback(i) \notin pending /\ i \notin fired
       /\ registered[i] <= 1
  /\ \A j \in Jobs : J(j).parent \in RunsOnce
       /\ (Callback(j) \in pending \/ j \in fired \/ registered[j] > 0) => J(j).parent \in fired

\* The jobs around a job: the least set with its parent and the parent of each member.
WithParents(S) == \A m \in S : J(m).parent # 0 => J(m).parent \in S

Above(j) ==
  {k \in Jobs : /\ J(j).parent # 0
                /\ \A S \in SUBSET Jobs : J(j).parent \in S /\ WithParents(S) => k \in S}

InCheckpoint(j) == J(j).queue \in {"next-tick", "microtask"}

\* The jobs a checkpoint drains are not pending together with a job around them.
NestedInv ==
  \A j, k \in Jobs : InCheckpoint(j) /\ InCheckpoint(k) /\ k \in Above(j) =>
    ~(Callback(j) \in pending /\ Callback(k) \in pending)

\* The jobs around a job are its parent and those around its parent; they come
\* before it in the source.
LEMMA AboveShape ==
  ASSUME program \in Program, NEW j \in Jobs
  PROVE  /\ Above(j) \subseteq Jobs
         /\ J(j).parent = 0 => Above(j) = {}
         /\ J(j).parent # 0 => Above(j) = {J(j).parent} \cup Above(J(j).parent)
         /\ \A k \in Above(j) : k < j /\ Above(k) \subseteq Above(j)
<1> DEFINE i == J(j).parent
<1>1. Above(j) \subseteq Jobs /\ (i = 0 => Above(j) = {})
  BY DEF Above
<1>2. ASSUME i # 0 PROVE Above(j) = {i} \cup Above(i)
  <2>1. i \in Jobs
    BY <1>2, JobShape
  <2>2. i \in Above(j)
    BY <1>2, <2>1 DEF Above
  <2>3. ASSUME NEW k \in Above(i) PROVE k \in Above(j)
    <3>1. k \in Jobs /\ J(i).parent # 0
      BY <2>3 DEF Above
    <3>2. ASSUME NEW S \in SUBSET Jobs, i \in S, WithParents(S) PROVE k \in S
      <4>1. J(i).parent \in S
        BY <3>1, <3>2 DEF WithParents
      <4>2. QED
        BY <2>3, <3>2, <4>1 DEF Above
    <3>3. QED
      BY <1>2, <3>1, <3>2 DEF Above
  <2>4. ASSUME NEW k \in Above(j) PROVE k = i \/ k \in Above(i)
    <3> DEFINE T == {i} \cup Above(i)
    <3>1. T \in SUBSET Jobs /\ i \in T
      BY <2>1 DEF Above
    <3>2. ASSUME NEW m \in T, J(m).parent # 0 PROVE J(m).parent \in T
      <4>1. m \in Jobs /\ J(m).parent \in Jobs
        BY <3>1, <3>2, JobShape
      <4>2. CASE m = i
        BY <3>2, <4>1, <4>2 DEF Above
      <4>3. CASE m \in Above(i)
        <5>1. ASSUME NEW S \in SUBSET Jobs, J(i).parent \in S, WithParents(S)
              PROVE  J(m).parent \in S
          <6>1. m \in S
            BY <4>3, <5>1 DEF Above
          <6>2. QED
            BY <3>2, <5>1, <6>1 DEF WithParents
        <5>2. QED
          BY <4>1, <4>3, <5>1 DEF Above
      <4>4. QED
        BY <3>2, <4>2, <4>3
    <3>3. WithParents(T)
      BY <3>2 DEF WithParents
    <3> HIDE DEF T
    <3>4. k \in T
      BY <2>4, <3>1, <3>3 DEF Above
    <3>5. QED
      BY <3>4 DEF T
  <2>5. QED
    BY <2>2, <2>3, <2>4
<1>3. ASSUME NEW k \in Above(j) PROVE k < j
  <2> DEFINE S == {m \in Jobs : m < j}
  <2>1. i # 0 /\ i \in Jobs /\ i < j /\ j \in Nat
    BY <1>3, JobShape, ProgramShape DEF Above
  <2>2. S \in SUBSET Jobs /\ i \in S
    BY <2>1
  <2>3. ASSUME NEW m \in S, J(m).parent # 0 PROVE J(m).parent \in S
    <3>1. m \in Nat /\ m < j /\ J(m).parent \in Nat /\ J(m).parent < m /\ J(m).parent \in Jobs
      BY <2>3, JobShape, ProgramShape
    <3>2. QED
      BY <2>1, <3>1
  <2>4. WithParents(S)
    BY <2>3 DEF WithParents
  <2> HIDE DEF S
  <2>5. k \in S
    BY <1>3, <2>2, <2>4 DEF Above
  <2>6. QED
    BY <2>5 DEF S
<1>4. ASSUME NEW k \in Above(j), NEW m \in Above(k) PROVE m \in Above(j)
  <2>1. k \in Jobs /\ m \in Jobs /\ J(k).parent # 0 /\ i # 0
    BY <1>4 DEF Above
  <2>2. ASSUME NEW S \in SUBSET Jobs, i \in S, WithParents(S) PROVE m \in S
    <3>1. k \in S
      BY <1>4, <2>2 DEF Above
    <3>2. J(k).parent \in S
      BY <2>1, <2>2, <3>1 DEF WithParents
    <3>3. QED
      BY <1>4, <2>2, <3>2 DEF Above
  <2>3. QED
    BY <2>1, <2>2 DEF Above
<1>5. QED
  BY <1>1, <1>2, <1>3, <1>4

\* What a job in the checkpoint or in its phase does: which flags it takes and adds,
\* and what it finds.
LEMMA RunsFacts ==
  ASSUME IInv, NEW i \in Jobs, NEW a, RunsAlternative(i, a)
  PROVE  /\ program' = program /\ fired' = fired \cup {i} /\ Callback(i) \in pending
         /\ \A j \in Jobs \ {i} : Callback(j) \in pending' <=>
              Callback(j) \in pending \/ (j \in Children(i, a) /\ ~External(j))
         /\ Callback(i) \in pending' => ~InCheckpoint(i) /\ (J(i).repeats \/ MultiInstance(i))
         /\ InCheckpoint(i) \/ \A j \in Jobs : InCheckpoint(j) => Callback(j) \notin pending
         /\ registered'[i] = registered[i]
         /\ \A j \in Jobs \ {i} :
              /\ registered'[j] = IF j \in Children(i, a) /\ External(j)
                                  THEN Bounded(registered[j]) ELSE registered[j]
              /\ instances'[j] = IF j \in Children(i, a) /\ MultiInstance(j)
                                 THEN Bounded(instances[j]) ELSE instances[j]
<1>1. program \in Program
  BY DEF IInv, TypeOK
<1>2. CASE DrainsJob(i, a)
  <2>1. /\ Ran(i, a, FALSE, wait[i], instances[i], dueTimes[i])
        /\ InCheckpoint(i) /\ Callback(i) \in pending
    BY <1>2 DEF DrainsJob, DrainNextTick, DrainMicrotask, Drain, Of, InCheckpoint,
       CanDrainNextTick, CanDrainMicrotask
  <2>2. RanResult(i, a, FALSE, wait[i], instances[i], dueTimes[i])
    BY <1>1, <2>1, RanFacts
  <2>3. QED
    BY <2>1, <2>2 DEF RanResult
<1>3. CASE RunsInPhase(i, a)
  <2>1. /\ Ran(i, a, Again(i), WaitAfter(i), InstancesAfter(i), DueTimesAfter(i))
        /\ Due(i) /\ ~InCheckpoint(i) /\ CheckpointPending = {}
    BY <1>3 DEF RunsInPhase, RunTimer, RunPoll, RunCheck, RunClose, RunMacro, Of, InCheckpoint
  <2>2. Again(i) \in BOOLEAN
    BY <2>1, OwnAgrees
  <2>3. RanResult(i, a, Again(i), WaitAfter(i), InstancesAfter(i), DueTimesAfter(i))
    BY <1>1, <2>1, <2>2, RanFacts
  <2>4. Again(i) => J(i).repeats \/ MultiInstance(i)
    BY DEF Again
  <2>5. ASSUME NEW j \in Jobs, InCheckpoint(j) PROVE Callback(j) \notin pending
    BY <2>1, <2>5 DEF CheckpointPending, Callbacks, Of, InCheckpoint
  <2>6. QED
    BY <2>1, <2>3, <2>4, <2>5 DEF RanResult, Due
<1>4. QED
  BY <1>2, <1>3 DEF RunsAlternative

LEMMA NestedStays == IInv /\ NestedInv /\ [Next]_vars => NestedInv'
<1> SUFFICES ASSUME IInv, NestedInv, [Next]_vars PROVE NestedInv'
  OBVIOUS
<1>1. program \in Program
  BY DEF IInv, TypeOK
<1>2. /\ \A i, j : Callback(i) = Callback(j) <=> i = j
      /\ \A i : Callback(i) \notin Reactions
  BY <1>1, KeysDiffer
<1>3. ASSUME program' = program,
             \A j, k \in Jobs : InCheckpoint(j) /\ InCheckpoint(k) /\ k \in Above(j) =>
               ~(Callback(j) \in pending' /\ Callback(k) \in pending')
      PROVE  NestedInv'
  <2>1. /\ Jobs' = Jobs
        /\ \A j : InCheckpoint(j)' = InCheckpoint(j) /\ Above(j)' = Above(j)
    BY <1>3 DEF Jobs, J, InCheckpoint, Above, WithParents
  <2>2. QED
    BY <1>3, <2>1 DEF NestedInv, Callback
<1>4. ASSUME program' = program,
             \A j \in Jobs : InCheckpoint(j) /\ Callback(j) \in pending' => Callback(j) \in pending
      PROVE  NestedInv'
  BY <1>3, <1>4 DEF NestedInv
<1>5. ASSUME NEW i \in Jobs, NEW a \in Alternatives(i), RunsAlternative(i, a) PROVE NestedInv'
  <2>1. /\ program' = program /\ Callback(i) \in pending
        /\ \A j \in Jobs \ {i} : Callback(j) \in pending' <=>
             Callback(j) \in pending \/ (j \in Children(i, a) /\ ~External(j))
        /\ Callback(i) \in pending' => ~InCheckpoint(i)
        /\ InCheckpoint(i) \/ \A j \in Jobs : InCheckpoint(j) => Callback(j) \notin pending
    BY <1>5, RunsFacts
  <2>2. ASSUME NEW j \in Jobs, NEW k \in Jobs, InCheckpoint(j), InCheckpoint(k), k \in Above(j),
               Callback(j) \in pending', Callback(k) \in pending'
        PROVE  FALSE
    <3>1. j # i /\ k # i
      BY <2>1, <2>2
    <3>2. \A m \in Children(i, a) : m \in Jobs /\ J(m).parent = i /\ J(m).parent # 0
      BY <1>1, ChildrenDiffer
    <3>3. \A m \in Children(i, a) : Above(m) = {i} \cup Above(i) /\ i < m
      BY <1>1, <3>2, AboveShape, JobShape
    <3>4. \A m \in Above(i) : m < i /\ m \in Nat /\ i \in Nat
      BY <1>1, AboveShape, ProgramShape
    <3>5. CASE k \in Children(i, a)
      <4>1. i \in Above(j)
        BY <1>1, <2>2, <3>3, <3>5, AboveShape
      <4>2. j \notin Children(i, a)
        <5>1. i < k /\ k \in Nat
          BY <1>1, <3>2, <3>3, <3>5, ProgramShape
        <5>2. QED
          BY <2>2, <3>1, <3>3, <3>4, <5>1
      <4>3. QED
        BY <2>1, <2>2, <3>1, <4>1, <4>2 DEF NestedInv
    <3>6. CASE k \notin Children(i, a)
      <4>1. Callback(k) \in pending
        BY <2>1, <2>2, <3>1, <3>6
      <4>2. Callback(j) \notin pending /\ j \in Children(i, a) /\ InCheckpoint(i)
        BY <2>1, <2>2, <3>1, <4>1 DEF NestedInv
      <4>3. k \in Above(i)
        BY <2>2, <3>1, <3>3, <4>2
      <4>4. QED
        BY <2>1, <2>2, <4>1, <4>2, <4>3 DEF NestedInv
    <3>7. QED
      BY <3>5, <3>6
  <2>3. QED
    BY <1>3, <2>1, <2>2
<1>6. ASSUME NEW k \in Reactions, DrainReaction(k) PROVE NestedInv'
  <2>1. /\ pending' = (pending \ {k}) \cup NextStage(k) /\ NextStage(k) \subseteq Reactions
        /\ program' = program
    BY <1>6 DEF DrainReaction, NextStage
  <2>2. QED
    BY <1>2, <1>4, <2>1
<1>7. ASSUME NEW i \in Jobs, Complete(i) \/ CancelTimer(i) PROVE NestedInv'
  <2>1. /\ pending' \subseteq pending \cup (IF External(i) THEN {Callback(i)} ELSE {})
        /\ program' = program
    BY <1>7 DEF Complete, CancelTimer
  <2>2. QED
    BY <1>2, <1>4, <2>1 DEF External, InCheckpoint
<1>8. ASSUME NEW e \in Divergent, DivergeExecutor(e) \/ ReturnSettled(e) \/ ReturnPending(e)
      PROVE  NestedInv'
  <2>1. /\ pending' \subseteq pending \cup FirstReaction(e) /\ program' = program
    BY <1>8 DEF DivergeExecutor, ReturnSettled, ReturnPending, Decide
  <2>2. \A i : Callback(i) \notin FirstReaction(e)
    BY <1>1, KeysDiffer DEF FirstReaction
  <2>3. QED
    BY <1>4, <2>1, <2>2
<1>9. CASE FinishCheckpoint \/ AdvancesPhase \/ UNCHANGED vars
  <2>1. program' = program /\ pending' = pending
    BY <1>9 DEF FinishCheckpoint, AdvancesPhase, AdvanceTimersToPoll, AdvancePollToCheck,
       AdvanceCheckToClose, Advance, AdvanceCloseToNextIteration, vars
  <2>2. QED
    BY <1>4, <2>1
<1>10. QED
  BY <1>5, <1>6, <1>7, <1>8, <1>9 DEF Next, HostStep

LEMMA NestedFromTheStart == Init => NestedInv
<1> SUFFICES ASSUME Init PROVE NestedInv
  OBVIOUS
<1>1. program \in Program
  BY DEF Init
<1>2. ASSUME NEW j \in Jobs, Callback(j) \in pending PROVE Above(j) = {}
  <2>1. J(j).parent = 0
    BY <1>1, <1>2, KeysDiffer DEF Init, InitialReactions, Reactions, Callback, Callbacks
  <2>2. QED
    BY <1>1, <2>1, AboveShape
<1>3. QED
  BY <1>2 DEF NestedInv

\* What runs once does not repeat, and neither does what registers it.
LEMMA OnceShape ==
  ASSUME program \in Program, NEW i \in RunsOnce
  PROVE  /\ i \in Jobs /\ ~J(i).repeats /\ ~MultiInstance(i)
         /\ J(i).parent # 0 => J(i).parent \in RunsOnce
<1>1. PICK S \in OnceTogether : i \in S
  BY DEF RunsOnce
<1>2. /\ i \in Jobs /\ ~J(i).repeats
      /\ J(i).parent # 0 => J(i).parent \in S /\ ~J(J(i).parent).repeats
  BY <1>1 DEF OnceTogether
<1>3. QED
  BY <1>1, <1>2 DEF RunsOnce, MultiInstance

LEMMA OnceStays == IInv /\ OnceInv /\ [Next]_vars => OnceInv'
<1> SUFFICES ASSUME IInv, OnceInv, [Next]_vars PROVE OnceInv'
  OBVIOUS
<1>1. /\ program \in Program
      /\ \A j \in Jobs : registered[j] \in Nat
  BY BoundsAssumption DEF IInv, TypeOK
<1>2. /\ \A i, j : Callback(i) = Callback(j) <=> i = j
      /\ \A i : Callback(i) \notin Reactions
  BY <1>1, KeysDiffer
<1>3. /\ RunsOnce \subseteq Jobs /\ 0 \notin RunsOnce
  BY <1>1, ProgramShape, OnceShape
<1>4. ASSUME program' = program,
             \A i \in RunsOnce :
               /\ Callback(i) \in pending' => i \notin fired'
               /\ registered'[i] > 0 =>
                    J(i).parent # 0 /\ Callback(i) \notin pending' /\ i \notin fired'
               /\ registered'[i] <= 1,
             \A j \in Jobs : J(j).parent \in RunsOnce
               /\ (Callback(j) \in pending' \/ j \in fired' \/ registered'[j] > 0) =>
                 J(j).parent \in fired'
      PROVE  OnceInv'
  <2>1. /\ Jobs' = Jobs /\ RunsOnce' = RunsOnce
        /\ \A j : J(j)' = J(j)
    BY <1>4 DEF Jobs, J, RunsOnce, OnceTogether
  <2>2. QED
    BY <1>4, <2>1 DEF OnceInv, Callback
<1>5. ASSUME program' = program, fired' = fired, registered' = registered,
             \A j \in Jobs : Callback(j) \in pending' => Callback(j) \in pending
      PROVE  OnceInv'
  BY <1>3, <1>4, <1>5 DEF OnceInv
<1>6. ASSUME NEW i \in Jobs, NEW a \in Alternatives(i), RunsAlternative(i, a) PROVE OnceInv'
  <2>1. /\ program' = program /\ fired' = fired \cup {i} /\ Callback(i) \in pending
        /\ \A j \in Jobs \ {i} : Callback(j) \in pending' <=>
             Callback(j) \in pending \/ (j \in Children(i, a) /\ ~External(j))
        /\ Callback(i) \in pending' => J(i).repeats \/ MultiInstance(i)
        /\ registered'[i] = registered[i]
        /\ \A j \in Jobs \ {i} :
             registered'[j] = IF j \in Children(i, a) /\ External(j)
                              THEN Bounded(registered[j]) ELSE registered[j]
    BY <1>6, RunsFacts
  <2>2. /\ \A j \in Children(i, a) : j \in Jobs /\ J(j).parent = i /\ J(j).parent # 0
        /\ i \notin Children(i, a)
    BY <1>1, ChildrenDiffer
  <2>3. ASSUME i \in RunsOnce, NEW j \in Children(i, a)
        PROVE  Callback(j) \notin pending /\ j \notin fired /\ ~(registered[j] > 0)
    <3>1. i \notin fired
      BY <2>1, <2>3 DEF OnceInv
    <3>2. QED
      BY <2>2, <2>3, <3>1 DEF OnceInv
  <2>4. \A n \in Nat : ~(n > 0) => Bounded(n) = 1
    BY BoundsAssumption DEF Bounded
  <2>5. ASSUME NEW k \in RunsOnce
        PROVE  /\ Callback(k) \in pending' => k \notin fired'
               /\ registered'[k] > 0 =>
                    J(k).parent # 0 /\ Callback(k) \notin pending' /\ k \notin fired'
               /\ registered'[k] <= 1
    <3>1. k \in Jobs
      BY <1>3
    <3>2. CASE k = i
      <4>1. Callback(k) \notin pending' /\ registered'[k] = registered[k]
        BY <1>1, <2>1, <3>2, OnceShape
      <4>2. ~(registered[k] > 0) /\ registered[k] <= 1
        BY <2>1, <3>2 DEF OnceInv
      <4>3. QED
        BY <4>1, <4>2
    <3>3. CASE k # i /\ k \notin Children(i, a)
      <4>1. /\ Callback(k) \in pending' <=> Callback(k) \in pending
            /\ registered'[k] = registered[k] /\ (k \in fired' <=> k \in fired)
        BY <2>1, <3>1, <3>3
      <4>2. QED
        BY <4>1 DEF OnceInv
    <3>4. CASE k \in Children(i, a)
      <4>1. i \in RunsOnce
        BY <1>1, <2>2, <3>4, OnceShape
      <4>2. Callback(k) \notin pending /\ k \notin fired /\ ~(registered[k] > 0) /\ k # i
        BY <2>2, <2>3, <3>4, <4>1
      <4>3. k \notin fired' /\ J(k).parent # 0
        BY <2>1, <2>2, <3>4, <4>2
      <4>4. CASE External(k)
        <5>1. Callback(k) \notin pending' /\ registered'[k] = Bounded(registered[k])
          BY <2>1, <3>1, <3>4, <4>2, <4>4
        <5>2. registered'[k] = 1
          BY <1>1, <2>4, <3>1, <4>2, <5>1
        <5>3. QED
          BY <4>3, <5>1, <5>2
      <4>5. CASE ~External(k)
        <5>1. registered'[k] = registered[k] /\ registered[k] \in Nat
          BY <1>1, <2>1, <3>1, <4>2, <4>5
        <5>2. ~(registered'[k] > 0) /\ registered'[k] <= 1
          BY <4>2, <5>1
        <5>3. QED
          BY <4>3, <5>2
      <4>6. QED
        BY <4>4, <4>5
    <3>5. QED
      BY <3>2, <3>3, <3>4
  <2>6. ASSUME NEW j \in Jobs, J(j).parent \in RunsOnce,
               Callback(j) \in pending' \/ j \in fired' \/ registered'[j] > 0
        PROVE  J(j).parent \in fired'
    <3>1. CASE j = i
      BY <2>1, <2>6, <3>1 DEF OnceInv
    <3>2. CASE j \in Children(i, a)
      BY <2>1, <2>2, <3>2
    <3>3. CASE j # i /\ j \notin Children(i, a)
      <4>1. /\ Callback(j) \in pending' <=> Callback(j) \in pending
            /\ registered'[j] = registered[j] /\ (j \in fired' <=> j \in fired)
        BY <2>1, <3>3
      <4>2. QED
        BY <2>1, <2>6, <4>1 DEF OnceInv
    <3>4. QED
      BY <3>1, <3>2, <3>3
  <2>7. QED
    BY <1>4, <2>1, <2>5, <2>6
<1>7. ASSUME NEW k \in Reactions, DrainReaction(k) PROVE OnceInv'
  <2>1. /\ pending' = (pending \ {k}) \cup NextStage(k) /\ NextStage(k) \subseteq Reactions
        /\ UNCHANGED <<program, fired, registered>>
    BY <1>7 DEF DrainReaction, NextStage
  <2>2. QED
    BY <1>2, <1>5, <2>1
<1>8. ASSUME NEW i \in Jobs, Complete(i) PROVE OnceInv'
  <2>1. /\ External(i) /\ Callback(i) \notin pending
        /\ Registers(i) => registered[i] > 0
        /\ J(i).repeats \/ Registers(i) \/ i \notin fired
        /\ pending' = pending \cup {Callback(i)}
        /\ program' = program /\ fired' = fired
        /\ registered' = [registered EXCEPT ![i] = IF Registers(i) /\ ~J(i).repeats THEN @ - 1 ELSE @]
    BY <1>8 DEF Complete
  <2>2. /\ DOMAIN registered = Jobs
        /\ \A j \in Jobs \ {i} : registered'[j] = registered[j]
        /\ registered'[i] = IF Registers(i) /\ ~J(i).repeats THEN registered[i] - 1 ELSE registered[i]
    BY <2>1 DEF IInv, TypeOK
  <2>3. \A j : Callback(j) \in pending' <=> Callback(j) \in pending \/ j = i
    BY <1>2, <2>1
  <2>4. ASSUME NEW k \in RunsOnce
        PROVE  /\ Callback(k) \in pending' => k \notin fired
               /\ registered'[k] > 0 =>
                    J(k).parent # 0 /\ Callback(k) \notin pending' /\ k \notin fired
               /\ registered'[k] <= 1
    <3>1. CASE k = i
      <4>1. k \in Jobs /\ ~J(k).repeats /\ registered[k] \in Nat /\ registered[k] <= 1
        BY <1>1, OnceShape DEF OnceInv
      <4>2. CASE Registers(i)
        <5>1. registered[k] > 0 /\ k \notin fired
          BY <2>1, <3>1, <4>2 DEF OnceInv
        <5>2. registered'[k] = 0
          BY <2>2, <3>1, <4>1, <4>2, <5>1
        <5>3. QED
          BY <5>1, <5>2
      <4>3. CASE ~Registers(i)
        <5>1. k \notin fired /\ J(k).parent = 0 /\ registered'[k] = registered[k]
          BY <2>1, <2>2, <3>1, <4>1, <4>3 DEF Registers
        <5>2. ~(registered[k] > 0)
          BY <5>1 DEF OnceInv
        <5>3. QED
          BY <4>1, <5>1, <5>2
      <4>4. QED
        BY <4>2, <4>3
    <3>2. CASE k # i
      BY <1>3, <2>2, <2>3, <3>2 DEF OnceInv
    <3>3. QED
      BY <3>1, <3>2
  <2>5. ASSUME NEW j \in Jobs, J(j).parent \in RunsOnce,
               Callback(j) \in pending' \/ j \in fired \/ registered'[j] > 0
        PROVE  J(j).parent \in fired
    <3>1. CASE j = i
      <4>1. Registers(i)
        BY <1>3, <2>1, <2>5, <3>1 DEF Registers
      <4>2. QED
        BY <2>1, <2>5, <3>1, <4>1 DEF OnceInv
    <3>2. CASE j # i
      BY <2>2, <2>3, <2>5, <3>2 DEF OnceInv
    <3>3. QED
      BY <3>1, <3>2
  <2>6. QED
    BY <1>4, <2>1, <2>4, <2>5
<1>9. ASSUME NEW e \in Divergent, DivergeExecutor(e) \/ ReturnSettled(e) \/ ReturnPending(e)
      PROVE  OnceInv'
  <2>1. /\ pending' \subseteq pending \cup FirstReaction(e)
        /\ UNCHANGED <<program, fired, registered>>
    BY <1>9 DEF DivergeExecutor, ReturnSettled, ReturnPending, Decide
  <2>2. \A i : Callback(i) \notin FirstReaction(e)
    BY <1>1, KeysDiffer DEF FirstReaction
  <2>3. QED
    BY <1>5, <2>1, <2>2
<1>10. ASSUME NEW i \in Jobs, CancelTimer(i) PROVE OnceInv'
  <2>1. /\ pending' \subseteq pending /\ UNCHANGED <<program, fired, registered>>
    BY <1>10 DEF CancelTimer
  <2>2. QED
    BY <1>5, <2>1
<1>11. CASE FinishCheckpoint \/ AdvancesPhase \/ UNCHANGED vars
  <2>1. UNCHANGED <<program, pending, fired, registered>>
    BY <1>11 DEF FinishCheckpoint, AdvancesPhase, AdvanceTimersToPoll, AdvancePollToCheck,
       AdvanceCheckToClose, Advance, AdvanceCloseToNextIteration, vars
  <2>2. QED
    BY <1>5, <2>1
<1>12. QED
  BY <1>6, <1>7, <1>8, <1>9, <1>10, <1>11 DEF Next, HostStep

LEMMA OnceFromTheStart == Init => OnceInv
<1> SUFFICES ASSUME Init PROVE OnceInv
  OBVIOUS
<1>1. program \in Program /\ fired = {} /\ registered = [i \in Jobs |-> 0]
  BY DEF Init
<1>2. RunsOnce \subseteq Jobs /\ 0 \notin RunsOnce
  BY <1>1, ProgramShape, OnceShape
<1>3. ASSUME NEW j \in Jobs, Callback(j) \in pending PROVE J(j).parent = 0
  BY <1>1, <1>3, KeysDiffer DEF Init, InitialReactions, Reactions, Callback, Callbacks
<1>4. QED
  BY <1>1, <1>2, <1>3 DEF OnceInv

\* One more registration: the step that the action property asks for.
LEMMA OneMoreOwed ==
  ASSUME IInv, NestedInv, OnceInv, SingleFlagsOnce,
         NEW i \in Jobs, NEW a, RunsAlternative(i, a),
         NEW j \in Children(i, a), Outstanding(j) < MaxInstances
  PROVE  Outstanding(j)' = Outstanding(j) + 1
<1>1. /\ program \in Program
      /\ \A k \in Jobs : registered[k] \in Nat /\ instances[k] \in Nat
  BY BoundsAssumption DEF IInv, TypeOK
<1>2. /\ program' = program /\ Callback(i) \in pending
      /\ \A k \in Jobs \ {i} : Callback(k) \in pending' <=>
           Callback(k) \in pending \/ (k \in Children(i, a) /\ ~External(k))
      /\ InCheckpoint(i) \/ \A k \in Jobs : InCheckpoint(k) => Callback(k) \notin pending
      /\ \A k \in Jobs \ {i} :
           /\ registered'[k] = IF k \in Children(i, a) /\ External(k)
                               THEN Bounded(registered[k]) ELSE registered[k]
           /\ instances'[k] = IF k \in Children(i, a) /\ MultiInstance(k)
                              THEN Bounded(instances[k]) ELSE instances[k]
  BY RunsFacts
<1>3. j \in Jobs \ {i} /\ J(j).parent = i /\ i # 0
  BY <1>1, ChildrenDiffer
<1>4. \A n : n < MaxInstances => Bounded(n) = n + 1
  BY DEF Bounded
<1>5. J(j)' = J(j) /\ (MultiInstance(j))' = MultiInstance(j) /\ (Registers(j))' = Registers(j)
  BY <1>2 DEF J, MultiInstance, Registers, External
<1>6. CASE MultiInstance(j)
  BY <1>2, <1>3, <1>4, <1>5, <1>6 DEF Outstanding
<1>7. CASE External(j)
  <2>1. ~MultiInstance(j)
    BY <1>7 DEF External, MultiInstance
  <2>2. Callback(j) \in pending' <=> Callback(j) \in pending
    BY <1>2, <1>3, <1>7
  <2>3. registered'[j] = Bounded(registered[j]) /\ registered[j] \in Nat
    BY <1>1, <1>2, <1>3, <1>7
  <2>4. registered[j] < MaxInstances
    BY <2>1, <2>3, BoundsAssumption DEF Outstanding
  <2>5. registered'[j] = registered[j] + 1
    BY <1>4, <2>3, <2>4
  <2>6. QED
    BY <1>5, <2>1, <2>2, <2>3, <2>5 DEF Outstanding, Callback
<1>8. CASE ~MultiInstance(j) /\ ~External(j)
  <2>1. Callback(j) \notin pending
    <3>1. CASE InCheckpoint(j)
      <4>1. i \in Above(j)
        BY <1>1, <1>3, AboveShape
      <4>2. QED
        BY <1>2, <1>3, <3>1, <4>1 DEF NestedInv
    <3>2. CASE ~InCheckpoint(j)
      <4>1. J(j).queue \in {"timer", "check"}
        BY <1>1, <1>3, <1>8, <3>2, JobShape DEF InCheckpoint, External
      <4>2. i \in RunsOnce
        BY <1>3, <1>8, <4>1 DEF SingleFlagsOnce
      <4>3. i \notin fired
        BY <1>2, <4>2 DEF OnceInv
      <4>4. QED
        BY <1>3, <4>2, <4>3 DEF OnceInv
    <3>3. QED
      BY <3>1, <3>2
  <2>2. Callback(j) \in pending' /\ registered'[j] = registered[j] /\ registered[j] \in Nat
    BY <1>1, <1>2, <1>3, <1>8
  <2>3. ~Registers(j)
    BY <1>8 DEF Registers
  <2>4. Outstanding(j) = registered[j]
    BY <1>8, <2>1, <2>2 DEF Outstanding
  <2>5. Outstanding(j)' = registered'[j] + 1
    BY <1>5, <1>8, <2>2, <2>3 DEF Outstanding, Callback
  <2>6. QED
    BY <2>2, <2>4, <2>5
<1>9. QED
  BY <1>6, <1>7, <1>8

\* For every program whose single flags are registered by jobs that run once, running a
\* callback adds one run to what every job it registers owes (enqueueNodeChildren,
\* async-patterns.ts:2183-2208): no registration is swallowed by an earlier one.
THEOREM NoRegistrationIsLost == Spec /\ SingleFlagsOnce => RegistrationsAreKept
<1> DEFINE Kept ==
      \A i \in Jobs : \A a \in Alternatives(i) :
        RunsAlternative(i, a) => \A j \in Children(i, a) :
          Outstanding(j) < MaxInstances => Outstanding(j)' = Outstanding(j) + 1
<1>1. IInv /\ NestedInv /\ OnceInv /\ SingleFlagsOnce => Kept
  BY OneMoreOwed
<1>2. SingleFlagsOnce /\ [Next]_vars => SingleFlagsOnce'
  <2>1. ASSUME [Next]_vars PROVE program' = program
    BY <2>1 DEF Next, HostStep, RunsAlternative, DrainsJob, RunsInPhase, DrainNextTick,
       DrainMicrotask, Drain, RunTimer, RunPoll, RunCheck, RunClose, RunMacro, Ran,
       DrainReaction, FinishCheckpoint, AdvancesPhase, AdvanceTimersToPoll,
       AdvancePollToCheck, AdvanceCheckToClose, Advance, AdvanceCloseToNextIteration,
       Complete, CancelTimer, DivergeExecutor, ReturnSettled, ReturnPending, Decide, vars
  <2>2. ASSUME program' = program PROVE SingleFlagsOnce' = SingleFlagsOnce
    <3>1. /\ Jobs' = Jobs /\ RunsOnce' = RunsOnce
          /\ \A j : J(j)' = J(j) /\ (MultiInstance(j))' = MultiInstance(j)
      BY <2>2 DEF Jobs, J, RunsOnce, OnceTogether, MultiInstance
    <3>2. QED
      BY <3>1 DEF SingleFlagsOnce
  <2>3. QED
    BY <2>1, <2>2
<1> HIDE DEF Kept
<1>3. Spec /\ SingleFlagsOnce => [][Kept]_vars
  BY <1>1, <1>2, InitInv, NextInv, NestedFromTheStart, NestedStays, OnceFromTheStart,
     OnceStays, PTL DEF Spec
<1>4. QED
  BY <1>3 DEF Kept, RegistrationsAreKept

-----------------------------------------------------------------------------
\* The history variables.

\* The variables that compare the machine with the queues of Node only watch it, so that
\* what is proved of the machine (generateNodeEventLoopQuint) holds beside them too.
THEOREM HistoryOnlyWatches == OrderSpec => Spec
<1>1. OrderInit => Init
  BY DEF OrderInit
<1>2. [OrderNext]_allVars => [Next]_vars
  BY DEF OrderNext, ObservedHostStep, ObservedDrain, ObservedRun, ObservedAdvance,
     ObservedReturn, Outside, Next, HostStep, RunsAlternative, allVars
<1>3. QED
  BY <1>1, <1>2, PTL DEF OrderSpec, Spec

=============================================================================
