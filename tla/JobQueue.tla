------------------------------ MODULE JobQueue ------------------------------
(***************************************************************************)
(* The order a host promises for microtasks: one first-in first-out queue, *)
(* filled by the script in source order, emptied before any other task     *)
(* runs, and extended at its end by the jobs that the running job, or the  *)
(* task that just ran, has registered.                                     *)
(***************************************************************************)
EXTENDS Sequences

VARIABLES
  queue,     \* the jobs waiting, the next one first
  scripting, \* the script is still running
  first,     \* what the script registers before it can fail to return
  after      \* for every job and task: the sequences of jobs it may register

vars == <<queue, scripting, first, after>>

Init == queue = first

\* One more statement of the script.
Script ==
  /\ scripting
  /\ queue' = queue \/ \E j \in DOMAIN after : queue' = Append(queue, j)
  /\ UNCHANGED <<first, after>>

Drain ==
  /\ ~scripting /\ queue # <<>>
  /\ \E s \in after[Head(queue)] : queue' = Tail(queue) \o s
  /\ UNCHANGED <<scripting, first, after>>

Task(t) ==
  /\ ~scripting /\ queue = <<>>
  /\ queue' \in after[t]
  /\ UNCHANGED <<scripting, first, after>>

Next == Script \/ Drain \/ \E t \in DOMAIN after : Task(t)

Spec == Init /\ [][Next]_vars
=============================================================================
