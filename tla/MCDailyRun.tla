----------------------------- MODULE MCDailyRun -----------------------------
EXTENDS DailyRun, TLC

\* Every code in lots, none there (all comes from the feeds), or only one code in
\* lots beside rows in shares.
MCInitialRows ==
    {[d \in Day |-> [c \in Code |-> u]] : u \in {"none", "lot"}}
        \union {[d \in Day |-> [c \in Code |-> IF c \in Eligible THEN "lot" ELSE "share"]]}

Interchangeable == Permutations(Run)
=============================================================================
