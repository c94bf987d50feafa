----------------------------- MODULE MCApiCache -----------------------------
EXTENDS ApiCache, TLC

CONSTANTS r1, r2, r3, r4

Mix(k1, k2, k3, k4) == (r1 :> k1) @@ (r2 :> k2) @@ (r3 :> k3) @@ (r4 :> k4)

MCDemands == {
    Mix("board", "board", "board", "snapshot"),
    Mix("hot", "hot", "hot", "snapshot"),
    Mix("board", "board", "hot", "hot"),
    Mix("board", "hot", "snapshot", "snapshot") }
=============================================================================
