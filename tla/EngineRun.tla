------------------------------ MODULE EngineRun ------------------------------
(***************************************************************************)
(* A call of the data-flow engine as its clients see it: the variables of  *)
(* FixedPoint, for the modules that run an instance of it.                 *)
(***************************************************************************)

CONSTANT NoBlock  \* "no block is being visited"

VARIABLES
  program,                                  \* the input of the client
  status, reason,                           \* how the call ended
  states, queue, queued, iterations,        \* as in the code
  visiting, pending                         \* the visit under way
=============================================================================
