--------------------------- MODULE SuspendedUpdate ---------------------------
(***************************************************************************)
(* What a user sees of one update under a Suspense boundary: what was on   *)
(* the screen, then possibly the fallback, then the new content, which     *)
(* cannot be shown before the data it waits for has arrived.  `keep` says  *)
(* that the boundary shows content a Transition may not hide.  React is    *)
(* outside the repository; docs/react-semantics.md states these rules.     *)
(***************************************************************************)
VARIABLES
  screen,     \* "nothing", "old", "fallback" or "new"
  suspended,  \* a render of the new content has suspended
  resolved,   \* what it waited for has arrived
  keep

Init ==
  /\ screen \in {"nothing", "old"} /\ keep \in BOOLEAN
  /\ ~suspended /\ ~resolved

Suspend ==
  /\ ~suspended /\ screen # "new"
  /\ suspended' = TRUE
  /\ UNCHANGED <<screen, resolved, keep>>

ShowFallback ==
  /\ suspended /\ ~keep /\ screen \in {"nothing", "old"}
  /\ screen' = "fallback"
  /\ UNCHANGED <<suspended, resolved, keep>>

Resolve ==
  /\ suspended /\ ~resolved
  /\ resolved' = TRUE
  /\ UNCHANGED <<screen, suspended, keep>>

Show ==
  /\ screen # "new"
  /\ suspended => resolved
  /\ screen' = "new"
  /\ UNCHANGED <<suspended, resolved, keep>>

Next == Suspend \/ ShowFallback \/ Resolve \/ Show

Spec == Init /\ [][Next]_<<screen, suspended, resolved, keep>>
=============================================================================
