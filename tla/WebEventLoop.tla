---------------------------- MODULE WebEventLoop ----------------------------
(***************************************************************************)
(* The machine generateWebEventLoopQuint writes for the callbacks of a     *)
(* browser program (src/async/async-patterns.ts): a microtask checkpoint,  *)
(* a rendering opportunity and a turn of the event loop follow each other. *)
(* A job of the checkpoint gets a ticket when it is queued.                *)
(*                                                                         *)
(* A program is [callbacks, chains, executors, compositions, cancelled,    *)
(* escaped]; MCBrowser lists the fields of each.  Due times are relative   *)
(* to the clock, tickets start over when no job is queued, and `fires`     *)
(* counts up to FireBound.  The checks of temporal specifications          *)
(* (requires, ensures) are left out.                                       *)
(***************************************************************************)
EXTENDS Listings, Sequences

CONSTANTS
  Program,
  MaxCallbacks,  \* no program has more
  FireBound      \* the machine asks for none, one, or more

VARIABLES
  program,
  phase,      \* 0: a turn of the event loop, 1: checkpoint, 2: rendering
  blocked,    \* an executor has diverged
  decided,    \* executors that diverged or returned
  callback,   \* per callback: [pending, due, fires, removed, aborted, priority, step]
  ticket,     \* per job: its ticket, -1: not queued
  nextTicket,
  reason,     \* per composition: the source that aborted it, 0: none
  path,       \* per composition: the path chosen, 0: none yet
  arrival     \* history, per pending scheduler task: those registered before it

vars == <<program, phase, blocked, decided, callback, ticket, nextTicket, reason, path, arrival>>

C == program.callbacks
Callbacks == DOMAIN C
Queued(q) == {t \in Callbacks : C[t].queue = q}
Tasks == Queued("scheduler-task")

Job(t) == <<"callback", t, 0>>
Reaction(c, s) == <<"reaction", c, s>>

Jobs(p) ==
  {Job(t) : t \in {u \in DOMAIN p.callbacks : p.callbacks[u].queue = "microtask"}}
  \cup UNION {{Reaction(c, s) : s \in 1 .. p.chains[c].links} : c \in DOMAIN p.chains}

\* An executor that surely settles, and nothing else: its chain starts at once.
Settled(p, c) ==
  /\ p.chains[c].executor # 0 /\ p.chains[c].links > 0
  /\ LET e == p.executors[p.chains[c].executor]
     IN  e.settles /\ ~e.mayRemainPending /\ ~e.mayDiverge

Divergent(p) == {e \in DOMAIN p.executors : p.executors[e].mayDiverge}

Position(p, j) == IF j[1] = "callback" THEN p.callbacks[j[2]].at ELSE p.chains[j[2]].at

\* The jobs the script itself queues, in source order.
ScriptJobs(p) ==
  {Job(t) : t \in {u \in DOMAIN p.callbacks :
     p.callbacks[u].queue = "microtask" /\ p.callbacks[u].parent = 0}}
  \cup {Reaction(c, 1) : c \in {d \in DOMAIN p.chains : Settled(p, d)}}

InitialJobs(p) == SortedBy(ScriptJobs(p), [j \in ScriptJobs(p) |-> Position(p, j)])

CallbackFields ==
  [queue : {"microtask", "animation-frame", "timer", "scheduler-task", "external"},
   at : Nat, delay : Nat, repeats : BOOLEAN, parent : Nat, alternative : Nat,
   alternatives : Nat \ {0}, priority : Nat, changes : Seq(Nat), composition : Nat,
   abortTimer : Nat, externalSignal : BOOLEAN, preAborted : BOOLEAN, cleared : BOOLEAN,
   listener : BOOLEAN]

ChainFields(p) == [links : Nat, at : Nat, executor : {0} \cup DOMAIN p.executors]

ExecutorFields == [settles : BOOLEAN, mayRemainPending : BOOLEAN, mayDiverge : BOOLEAN]

\* Callbacks are registered by earlier ones, and no two jobs have the same place.
ASSUME ProgramAssumption ==
  /\ FireBound \in Nat
  /\ \A p \in Program :
       /\ p.callbacks \in Seq(CallbackFields)
       /\ \A t \in DOMAIN p.callbacks : /\ p.callbacks[t].parent < t
                                        /\ p.callbacks[t].abortTimer \in {0} \cup DOMAIN p.callbacks
       /\ p.chains \in Seq(ChainFields(p))
       /\ p.executors \in Seq(ExecutorFields)
       /\ \A j, k \in ScriptJobs(p) : Position(p, j) = Position(p, k) => j = k

Sequenced(s, x) == IF \E i \in DOMAIN s : s[i] = x THEN (CHOOSE i \in DOMAIN s : s[i] = x) - 1 ELSE -1

Init ==
  /\ program \in Program
  /\ phase = 1 /\ blocked = FALSE /\ decided = {}
  /\ callback = [t \in Callbacks |->
       [pending |-> /\ C[t].queue \notin {"external", "microtask"}
                    /\ ~C[t].preAborted /\ ~C[t].cleared /\ C[t].parent = 0,
        due |-> C[t].delay, fires |-> 0, removed |-> C[t].listener /\ C[t].cleared,
        aborted |-> FALSE, priority |-> C[t].priority, step |-> 0]]
  /\ ticket = [j \in Jobs(program) |-> Sequenced(InitialJobs(program), j)]
  /\ nextTicket = Len(InitialJobs(program))
  /\ reason = [c \in DOMAIN program.compositions |->
       IF program.compositions[c].paths = <<>> THEN program.compositions[c].initial[1] ELSE 0]
  /\ path = [c \in DOMAIN program.compositions |-> 0]
  /\ arrival = [t \in Tasks |->
       {u \in Tasks : u < t /\ callback[u].pending /\ callback[t].pending}]

aborts == <<reason, path>>
host == <<program, blocked, decided>>

-----------------------------------------------------------------------------
\* What running a callback registers: its microtasks get tickets in source
\* order, its scheduler tasks become pending.

ChildrenIn(p, q, t, alternative) ==
  {u \in DOMAIN p.callbacks : /\ p.callbacks[u].queue = q /\ p.callbacks[u].parent = t
                              /\ p.callbacks[u].alternative \in {0, alternative}}

\* The microtasks among them, in source order.
ChildJobs(p, t, alternative) ==
  LET children == ChildrenIn(p, "microtask", t, alternative)
  IN  SortedBy({Job(u) : u \in children}, [j \in {Job(u) : u \in children} |-> j[2]])

Alternatives(p, t) == 1 .. p.callbacks[t].alternatives

\* Deliberate fault: the children share one ticket.
QueueChildrenTogether(t, alternative, tickets) ==
  LET children == ChildJobs(program, t, alternative)
  IN  /\ ticket' = [j \in DOMAIN ticket |->
           IF Sequenced(children, j) >= 0 THEN nextTicket ELSE tickets[j]]
      /\ nextTicket' = nextTicket + 1

QueueChildren(t, alternative, tickets) ==
  LET children == ChildJobs(program, t, alternative)
  IN  /\ ticket' = [j \in DOMAIN ticket |->
           IF Sequenced(children, j) >= 0 THEN nextTicket + Sequenced(children, j) ELSE tickets[j]]
      /\ nextTicket' = nextTicket + Len(children)

\* t has run, from the given state of the callbacks.
Ran(t, alternative, callbacks) ==
  LET tasks == ChildrenIn(program, "scheduler-task", t, alternative)
      more == IF callbacks[t].fires < FireBound THEN callbacks[t].fires + 1 ELSE FireBound
      counted == [callbacks EXCEPT ![t].fires = more]
  IN  callback' = [u \in Callbacks |->
        IF u \in tasks THEN [counted[u] EXCEPT !.pending = TRUE, !.due = C[u].delay]
        ELSE counted[u]]

-----------------------------------------------------------------------------
\* The checkpoint.

PriorDecided(e) == \A d \in Divergent(program) : d < e => d \in decided

Deciding(e) ==
  /\ phase = 1 /\ e \in Divergent(program) \ decided /\ PriorDecided(e)
  /\ decided' = decided \cup {e}
  /\ UNCHANGED <<program, phase, callback, aborts>>

Diverge(e) ==
  /\ Deciding(e)
  /\ blocked' = TRUE
  /\ UNCHANGED <<ticket, nextTicket>>

ChainOf(e) == {c \in DOMAIN program.chains : program.chains[c].executor = e}
FirstChain(e) == CHOOSE c \in ChainOf(e) : \A d \in ChainOf(e) : c <= d
HasReaction(e) == ChainOf(e) # {} /\ program.chains[FirstChain(e)].links > 0

ReturnSettled(e) ==
  /\ Deciding(e) /\ HasReaction(e) /\ program.executors[e].settles
  /\ ticket' = [ticket EXCEPT ![Reaction(FirstChain(e), 1)] = nextTicket]
  /\ nextTicket' = nextTicket + 1
  /\ UNCHANGED blocked

ReturnPending(e) ==
  /\ Deciding(e) /\ (program.executors[e].mayRemainPending \/ ~HasReaction(e))
  /\ UNCHANGED <<blocked, ticket, nextTicket>>

\* No queued job has a smaller ticket.
Oldest(j) ==
  /\ ticket[j] >= 0
  /\ \A k \in DOMAIN ticket : ~(ticket[k] >= 0 /\ ticket[k] < ticket[j])

DrainMicrotask(t, alternative) ==
  /\ phase = 1 /\ Oldest(Job(t))
  /\ Ran(t, alternative, callback)
  /\ QueueChildren(t, alternative, [ticket EXCEPT ![Job(t)] = -1])
  /\ UNCHANGED <<host, phase, aborts>>

DrainReaction(c, s) ==
  /\ phase = 1 /\ Oldest(Reaction(c, s))
  /\ IF s < program.chains[c].links
     THEN /\ ticket' = [ticket EXCEPT ![Reaction(c, s)] = -1, ![Reaction(c, s + 1)] = nextTicket]
          /\ nextTicket' = nextTicket + 1
     ELSE /\ ticket' = [ticket EXCEPT ![Reaction(c, s)] = -1]
          /\ UNCHANGED nextTicket
  /\ UNCHANGED <<host, phase, callback, aborts>>

FinishMicrotaskCheckpoint ==
  /\ phase = 1 /\ \A j \in DOMAIN ticket : ticket[j] < 0
  /\ phase' = 2
  /\ nextTicket' = 0
  /\ UNCHANGED <<host, callback, ticket, aborts>>

-----------------------------------------------------------------------------
\* Rendering.

RunAnimationFrame(t, alternative) ==
  /\ phase = 2 /\ callback[t].pending
  /\ \A u \in Queued("animation-frame") : u < t => ~callback[u].pending
  /\ phase' = 1
  /\ Ran(t, alternative, [callback EXCEPT ![t].pending = FALSE])
  /\ QueueChildren(t, alternative, ticket)
  /\ UNCHANGED <<host, aborts>>

Paint ==
  /\ phase = 2 /\ \A t \in Queued("animation-frame") : ~callback[t].pending
  /\ phase' = 0
  /\ UNCHANGED <<host, callback, ticket, nextTicket, aborts>>

SkipRenderingOpportunity ==
  /\ phase = 2 /\ phase' = 0
  /\ UNCHANGED <<host, callback, ticket, nextTicket, aborts>>

-----------------------------------------------------------------------------
\* A turn of the event loop.

AdvanceClock ==
  /\ phase = 0
  /\ callback' = [t \in Callbacks |->
       [callback[t] EXCEPT !.due = IF @ = 0 THEN 0 ELSE @ - 1]]
  /\ UNCHANGED <<host, phase, ticket, nextTicket, aborts>>

IdleTurn ==
  /\ phase = 0 /\ phase' = 1
  /\ UNCHANGED <<host, callback, ticket, nextTicket, aborts>>

Reprioritize(t) ==
  /\ callback[t].step < Len(C[t].changes)
  /\ callback' = [callback EXCEPT ![t].priority = C[t].changes[callback[t].step + 1],
                                  ![t].step = @ + 1]
  /\ UNCHANGED <<host, phase, ticket, nextTicket, aborts>>

Eligible(t) == callback[t].pending /\ callback[t].due = 0

Outranks(u, t) ==
  Eligible(u) /\ (callback[u].priority > callback[t].priority
                  \/ (callback[u].priority = callback[t].priority /\ u < t))

\* The cancellation source of t has aborted, as far as the machine asks.
Aborted(t) ==
  \/ C[t].composition # 0 /\ reason[C[t].composition] # 0
  \/ C[t].abortTimer # 0 /\ callback[C[t].abortTimer].fires > 0

RunSchedulerTask(t, alternative) ==
  /\ phase = 0 /\ Eligible(t)
  /\ \A u \in Callbacks : callback[u].step = Len(C[u].changes)
  /\ C[t].composition # 0 =>
       (program.compositions[C[t].composition].paths = <<>> \/ path[C[t].composition] # 0)
  /\ \A u \in Tasks \ {t} : ~Outranks(u, t)
  /\ ~Aborted(t)
  /\ phase' = 1
  /\ Ran(t, alternative, [callback EXCEPT ![t].pending = FALSE])
  /\ QueueChildren(t, alternative, ticket)
  /\ UNCHANGED <<host, aborts>>

\* A scheduler task or an external event is cancelled by what it listens to.
CancelAborted(t) ==
  /\ callback[t].pending /\ Aborted(t)
  /\ callback' = [callback EXCEPT ![t].pending = FALSE]
  /\ UNCHANGED <<host, phase, ticket, nextTicket, aborts>>

\* Deliberate fault: an event that has completed already is kept.
CancelRegistration(t) ==
  /\ C[t].externalSignal /\ ~callback[t].aborted
  /\ callback' = [callback EXCEPT ![t].aborted = TRUE]
  /\ UNCHANGED <<host, phase, ticket, nextTicket, aborts>>

CancelFromExternalSignal(t) ==
  /\ C[t].externalSignal /\ ~callback[t].aborted
  /\ callback' = [callback EXCEPT ![t].pending = FALSE, ![t].aborted = TRUE]
  /\ UNCHANGED <<host, phase, ticket, nextTicket, aborts>>

CompleteExternal(t) ==
  /\ ~callback[t].pending
  /\ C[t].repeats \/ callback[t].fires = 0
  /\ ~C[t].preAborted /\ ~Aborted(t)
  /\ ~callback[t].aborted /\ ~callback[t].removed
  /\ callback' = [callback EXCEPT ![t].pending = TRUE]
  /\ UNCHANGED <<host, phase, ticket, nextTicket, aborts>>

RunExternalEvent(t) ==
  /\ phase = 0 /\ callback[t].pending
  /\ phase' = 1
  /\ Ran(t, 0, [callback EXCEPT ![t].pending = FALSE])
  /\ QueueChildren(t, 0, ticket)
  /\ UNCHANGED <<host, aborts>>

\* Deliberate fault: an earlier timer goes first even when it is not due.
EarlierPending(u, t) == u < t /\ callback[u].pending

EarlierDue(u, t) == u < t /\ Eligible(u)

RunTimer(t, alternative) ==
  /\ phase = 0 /\ Eligible(t)
  /\ \A u \in Queued("timer") : ~EarlierDue(u, t)
  /\ phase' = 1
  /\ Ran(t, alternative, [callback EXCEPT ![t].pending = C[t].repeats,
                                          ![t].due = IF C[t].repeats THEN C[t].delay ELSE @])
  /\ QueueChildren(t, alternative, ticket)
  /\ UNCHANGED <<host, aborts>>

\* A handle that escaped, or a clear call under a condition.
CancelTimer(t) ==
  /\ t \in program.escaped \cup program.cancelled /\ ~C[t].listener
  /\ callback[t].pending
  /\ callback' = [callback EXCEPT ![t].pending = FALSE]
  /\ UNCHANGED <<host, phase, ticket, nextTicket, aborts>>

RemoveListener(t) ==
  /\ t \in program.cancelled /\ C[t].listener
  /\ ~callback[t].removed
  /\ callback' = [callback EXCEPT ![t].pending = FALSE, ![t].removed = TRUE]
  /\ UNCHANGED <<host, phase, ticket, nextTicket, aborts>>

-----------------------------------------------------------------------------
\* Composed abort signals.

ChooseAbortPath(c, k) ==
  /\ path[c] = 0
  /\ path' = [path EXCEPT ![c] = k]
  /\ reason' = [reason EXCEPT ![c] = program.compositions[c].initial[k]]
  /\ UNCHANGED <<host, phase, callback, ticket, nextTicket>>

Present(c, s) ==
  \/ program.compositions[c].paths = <<>>
  \/ path[c] # 0 /\ s \in program.compositions[c].paths[path[c]]

SourceAborted(source) ==
  CASE source.kind = "timer" -> callback[source.of].fires > 0
    [] source.kind = "composition" -> reason[source.of] # 0
    [] source.kind = "external" -> TRUE

AbortFrom(c, s) ==
  /\ Present(c, s) /\ reason[c] = 0
  /\ SourceAborted(program.compositions[c].sources[s])
  /\ reason' = [reason EXCEPT ![c] = s]
  /\ UNCHANGED <<host, phase, callback, ticket, nextTicket, path>>

-----------------------------------------------------------------------------

Checkpoint ==
  \/ \E e \in Divergent(program) : Diverge(e) \/ ReturnSettled(e) \/ ReturnPending(e)
  \/ \E t \in Queued("microtask") : \E a \in Alternatives(program, t) : DrainMicrotask(t, a)
  \/ \E c \in DOMAIN program.chains : \E s \in 1 .. program.chains[c].links : DrainReaction(c, s)
  \/ FinishMicrotaskCheckpoint

RunTask(t) ==
  \/ t \in Queued("animation-frame") /\ \E a \in Alternatives(program, t) : RunAnimationFrame(t, a)
  \/ t \in Tasks /\ \E a \in Alternatives(program, t) : RunSchedulerTask(t, a)
  \/ t \in Queued("timer") /\ \E a \in Alternatives(program, t) : RunTimer(t, a)
  \/ t \in Queued("external") /\ RunExternalEvent(t)

Turn == Paint \/ SkipRenderingOpportunity \/ AdvanceClock \/ IdleTurn

Settle ==
  \/ \E t \in Callbacks : Reprioritize(t)
  \/ \E c \in DOMAIN program.compositions :
       \E k \in DOMAIN program.compositions[c].paths : ChooseAbortPath(c, k)

Environment ==
  \/ \E t \in Tasks \cup Queued("external") :
       CancelAborted(t) \/ CancelFromExternalSignal(t)
  \/ \E t \in Queued("external") : CompleteExternal(t)
  \/ \E t \in Callbacks : CancelTimer(t) \/ RemoveListener(t)
  \/ \E c \in DOMAIN program.compositions :
       \E s \in DOMAIN program.compositions[c].sources : AbortFrom(c, s)

Step == Checkpoint \/ (\E t \in Callbacks : RunTask(t)) \/ Turn \/ Settle \/ Environment

\* The history, which no guard reads: what became pending follows what was, in source order.
Arrive ==
  arrival' = [t \in Tasks |->
    {u \in Tasks : /\ callback'[u].pending /\ callback'[t].pending
                   /\ IF callback[t].pending THEN u \in arrival[t] ELSE callback[u].pending \/ u < t}]

Next == ~blocked /\ Step /\ Arrive

\* The host goes on, and does not starve a task, the clock or rendering forever.
Fairness ==
  /\ WF_vars(~blocked /\ (Checkpoint \/ Paint \/ SkipRenderingOpportunity) /\ Arrive)
  /\ WF_vars(~blocked /\ Settle /\ Arrive)
  /\ WF_vars(~blocked /\ IdleTurn /\ Arrive)
  /\ SF_vars(~blocked /\ AdvanceClock /\ Arrive)
  /\ \A t \in 1 .. MaxCallbacks :
       /\ SF_vars(~blocked /\ t \in Callbacks /\ RunTask(t) /\ Arrive)
       /\ WF_vars(~blocked /\ t \in Tasks /\ CancelAborted(t) /\ Arrive)

Spec == Init /\ [][Next]_vars /\ Fairness
-----------------------------------------------------------------------------
\* Properties.

\* Every child is registered under the callback that contains it.
Registered(p, x) ==
  IF x[1] = "reaction"
  THEN {IF x[3] < p.chains[x[2]].links THEN <<Reaction(x[2], x[3] + 1)>> ELSE <<>>}
  ELSE {ChildJobs(p, x[2], a) : a \in {0} \cup Alternatives(p, x[2])}

QueueOf(tickets) == SortedBy({j \in DOMAIN tickets : tickets[j] >= 0}, tickets)

\* The tickets amount to one first-in first-out queue of microtasks and promise
\* reactions, extended in source order and emptied before any other callback
\* ("only the pending job with the smallest ticket may run", docs/real-time-models.md).
Microtasks == INSTANCE JobQueue WITH
  queue <- QueueOf(ticket),
  scripting <- Divergent(program) \ decided # {},
  first <- InitialJobs(program),
  after <- [x \in Jobs(program) \cup {Job(t) : t \in Callbacks} |-> Registered(program, x)]

DrainsInOrder == Microtasks!Spec

\* The order of the host: "among eligible scheduler tasks, higher priority runs first
\* and equal priority preserves registration FIFO" (docs/real-time-models.md), with the
\* registrations as they happened.  The machine breaks ties by the place in the source.
HostOrder(t) ==
  \A u \in Tasks \ {t} :
    Eligible(u) => /\ callback[u].priority <= callback[t].priority
                   /\ callback[u].priority = callback[t].priority => t \in arrival[u]

SchedulerKeepsHostOrder ==
  [][\A t \in Tasks : RunTask(t) => HostOrder(t)]_vars

\* What its own signal has aborted, and a listener that was removed, never runs, also
\* when the event had completed before: a cancellation "also removes an event that
\* completed but has not executed yet" (docs/async-pattern-models.md).  Of the tasks,
\* those the script registers; an earlier task registers one whatever its signal says.
CancelledNeverRuns ==
  [][\A t \in Tasks \cup Queued("external") :
       RunTask(t) /\ (t \in Tasks => C[t].parent = 0) =>
         ~callback[t].aborted /\ ~callback[t].removed]_vars

\* Under fairness every callback that became pending runs or is cancelled: no
\* combination of queues, priorities, due times and orders leaves it behind.
EveryPendingCallbackRuns ==
  \A t \in 1 .. MaxCallbacks :
    (t \in Callbacks /\ callback[t].pending) ~>
      (t \in Callbacks /\ (~callback[t].pending \/ callback[t].fires > 0 \/ blocked))
=============================================================================
