------------------------------ MODULE MCRunLocks -----------------------------
(* Instances of RunLocks for TLC.                                            *)
EXTENDS RunLocks, TLC

CONSTANTS engineA, engineB, rival, watcher, p1, p2, p3, r1, r2

\* Two engine threads in one process, a rival in another, a watcher in a third.
FourThreads == engineA :> p1 @@ engineB :> p1 @@ rival :> p2 @@ watcher :> p3

==============================================================================
