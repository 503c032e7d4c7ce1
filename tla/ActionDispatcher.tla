-------------------------- MODULE ActionDispatcher --------------------------
(***************************************************************************)
(* What React promises of the Actions dispatched by one useActionState     *)
(* Hook: they run one at a time in the order of their dispatch, a failure  *)
(* drops the ones behind it, and isPending is true as long as an Action    *)
(* waits or runs.  React itself is outside the repository; the rules are   *)
(* those docs/react-semantics.md cites.                                    *)
(***************************************************************************)
EXTENDS Naturals, Sequences

VARIABLES
  status,    \* per Action, in the order of dispatch
  isPending

Failed == \E i \in DOMAIN status : status[i] = "failed"

Unfinished(s) == \E i \in DOMAIN s : s[i] \in {"queued", "running"}

Init == status = <<>> /\ isPending = FALSE

Dispatch ==
  /\ ~Failed
  /\ status' = Append(status, "queued")
  /\ isPending' = TRUE

Start(i) ==
  /\ status[i] = "queued"
  /\ \A k \in 1 .. i - 1 : status[k] = "done"
  /\ status' = [status EXCEPT ![i] = "running"]
  /\ UNCHANGED isPending

Finish(i) ==
  /\ status[i] = "running"
  /\ status' = [status EXCEPT ![i] = "done"]
  /\ isPending' = Unfinished(status')

Fail(i) ==
  /\ status[i] = "running"
  /\ status' = [k \in DOMAIN status |->
                  IF k < i THEN status[k] ELSE IF k = i THEN "failed" ELSE "dropped"]
  /\ isPending' = FALSE

Next == Dispatch \/ \E i \in DOMAIN status : Start(i) \/ Finish(i) \/ Fail(i)

Spec == Init /\ [][Next]_<<status, isPending>>
=============================================================================
