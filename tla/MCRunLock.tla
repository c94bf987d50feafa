----------------------------- MODULE MCRunLock -----------------------------
EXTENDS RunLock, TLC

CONSTANTS r1, r2, r3, p1, p2

\* One CLI worker and two requests handled by the API server's threads.
WorkerAndApi == r1 :> p1 @@ r2 :> p2 @@ r3 :> p2
TwoWorkers == r1 :> p1 @@ r2 :> p2
=============================================================================
