------------------------------ MODULE MCRunLog ------------------------------
(* Values of RunLog's constants for TLC.                                   *)
EXTENDS RunLog

(* A defect of the work, an outage, a worker that asks.                   *)
SomeFailures ==
  {[kind |-> "GateFailed", origin |-> "Worker"],
   [kind |-> "RateLimited", origin |-> "Worker"],
   [kind |-> "NeedsHuman", origin |-> "Worker"]}
AnySchema == 1..3
=============================================================================
