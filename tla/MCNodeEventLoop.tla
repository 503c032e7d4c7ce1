--------------------------- MODULE MCNodeEventLoop ---------------------------
(***************************************************************************)
(* Source files with up to three registrations, nested in every way, and   *)
(* up to two promise chains.  Left out are the shapes whose checkpoints or *)
(* registrations the generated machine gets wrong or does not track: a     *)
(* tick registered by a tick, a tick registered by a microtask while other *)
(* microtasks wait (Node runs those first, the machine the tick), two      *)
(* reactions that wait for each other, single-flag jobs that a repeating   *)
(* source registers again before they have run, and cleared handles of     *)
(* timers an interval registers.                                           *)
(***************************************************************************)
EXTENDS NodeEventLoop

Plain == [queue |-> "timer", parent |-> 0, alternative |-> 0, alternatives |-> 0, delay |-> 0,
          abort |-> FALSE, repeats |-> FALSE, module |-> TRUE, cancelled |-> FALSE,
          closes |-> 0, closing |-> {}]
Tick == [Plain EXCEPT !.queue = "next-tick"]
Microtask == [Plain EXCEPT !.queue = "microtask"]
Timeout(d) == [Plain EXCEPT !.delay = d]
Interval(d) == [Plain EXCEPT !.delay = d, !.repeats = TRUE]
Immediate == [Plain EXCEPT !.queue = "check"]
Read == [Plain EXCEPT !.queue = "poll"]
Watch == [Plain EXCEPT !.queue = "poll", !.repeats = TRUE]
CloseServer(i) == [Plain EXCEPT !.queue = "close", !.closes = i]
Under(p, job) == [job EXCEPT !.parent = p]

File(jobs, chains, esm) ==
  [jobs |-> jobs, chains |-> chains, executors |-> <<>>, esm |-> esm, cancellable |-> {}]

-----------------------------------------------------------------------------
\* Registrations only.

Kinds == {Tick, Microtask, Timeout(0), Interval(1), Immediate, Read, Watch}

Forests ==
  {<<Under(0, a), Under(p, b), Under(q, c)>> : <<p, q, a, b, c>> \in
     {<<p, q, a, b, c>> \in {0, 1} \X {0, 1, 2} \X Kinds \X Kinds \X Kinds : p = 0 => q # 1}}

\* Whether job i can run again.
RECURSIVE RunsAgain(_, _)
RunsAgain(jobs, i) == i # 0 /\ (jobs[i].repeats \/ RunsAgain(jobs, jobs[i].parent))

\* When a microtask registers the tick i, no other microtask is waiting.
LastMicrotask(jobs, p, i) ==
  jobs[p].queue = "microtask" =>
    \A j \in DOMAIN jobs : jobs[j].queue = "microtask" => j <= p \/ jobs[j].parent = i

Sound(jobs) == \A i \in DOMAIN jobs : LET p == jobs[i].parent IN p # 0 =>
  /\ jobs[i].queue = "next-tick" => jobs[p].queue # "next-tick" /\ LastMicrotask(jobs, p, i)
  /\ jobs[i].queue = "check" => ~RunsAgain(jobs, p)
  /\ jobs[i].queue = "timer" => jobs[p].repeats \/ ~RunsAgain(jobs, p)

\* At most one outside source and one interval per file.
Modest(jobs) ==
  /\ Cardinality({i \in DOMAIN jobs : jobs[i].queue = "poll"}) <= 1
  /\ Cardinality({i \in DOMAIN jobs : jobs[i].queue = "timer" /\ jobs[i].repeats}) <= 1

JobFiles == {File(jobs, <<>>, FALSE) : jobs \in {f \in Forests : Sound(f) /\ Modest(f)}}

-----------------------------------------------------------------------------
\* Promise chains.

Promise(links, after) == [links |-> links, settled |-> TRUE, executor |-> 0, after |-> after]

\* One chain may have a second reaction, and then nothing else may be queued
\* behind it from within the first checkpoint.
ChainFiles ==
  {File(<<a, Under(p, b)>>, chains, esm) : <<p, a, b, chains, esm>> \in
     {<<p, a, b, chains, esm>> \in
        {0, 1} \X {Tick, Microtask, Timeout(0)} \X {Tick, Microtask, Timeout(0)}
          \X ({<<Promise(2, n)>> : n \in 0 .. 2}
              \cup {<<Promise(1, n), Promise(l, 2)>> : n \in 0 .. 1, l \in 1 .. 2})
          \X BOOLEAN :
      /\ p = 1 => a.queue = "timer"
      /\ esm => \A c \in DOMAIN chains : chains[c].links = 1}}

\* A promise whose executor may not return, may not settle, or does both.
ExecutorFiles ==
  {[File(<<a, b>>, <<[links |-> l, settled |-> FALSE, executor |-> 1, after |-> 1]>>, FALSE)
      EXCEPT !.executors = <<e>>] :
     a \in {Tick, Timeout(0)}, b \in {Interval(1), Immediate}, l \in 0 .. 2,
     e \in [diverges : BOOLEAN, settles : BOOLEAN, idles : BOOLEAN]}

-----------------------------------------------------------------------------
\* Handles, alternatives and due times.

Cleared == {[File(<<a, Under(1, Tick), Immediate>>, <<>>, FALSE) EXCEPT !.cancellable = c] :
              a \in {Interval(1), Timeout(2)}, c \in {{1}, {3}, {1, 3}}}

\* Only one of the two callbacks a timer may have registers job 2.
Either == {File(<<[Timeout(0) EXCEPT !.alternatives = 2], Under(1, [b EXCEPT !.alternative = 1]),
                  Under(1, [c EXCEPT !.alternative = 2])>>, <<>>, FALSE) :
             b \in {Tick, Timeout(2)}, c \in {Microtask, Immediate}}

\* A server that is closed by the file, or by a callback, with a close listener.
Servers == {File(<<Watch, Under(p, CloseServer(1)), Under(q, Read)>>, <<>>, FALSE) : p \in {0, 1}, q \in {0, 1}}
  \cup {File(<<Watch, [Timeout(2) EXCEPT !.closing = {1}], Under(1, Timeout(2))>>, <<>>, FALSE)}

Timing == {File(<<Interval(d), Under(1, t), other>>, <<>>, FALSE) :
             d \in {1, 2}, t \in {Timeout(0), Timeout(2), Timeout(3), Interval(2)}, other \in {[Timeout(0) EXCEPT !.abort = TRUE], Immediate, Timeout(2)}}

Programs == JobFiles \cup ChainFiles \cup ExecutorFiles \cup Cleared \cup Either \cup Servers \cup Timing

-----------------------------------------------------------------------------
\* Two of the shapes left out above.

\* Promise.resolve().then(f).then(g); Promise.resolve().then(h).then(k);
TwoChains == {File(<<>>, <<Promise(2, 0), Promise(2, 0)>>, FALSE)}

\* setInterval(() => setImmediate(f), 1);
RepeatedImmediate == {File(<<Interval(1), Under(1, Immediate)>>, <<>>, FALSE)}
=============================================================================
