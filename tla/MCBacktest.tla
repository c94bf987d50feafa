------------------------------ MODULE MCBacktest ------------------------------
(***************************************************************************)
(* Backtests of a few days for TLC: two stocks that compete for one slot,  *)
(* or are both held when the mode is unbounded.                            *)
(***************************************************************************)
EXTENDS Backtest, TLC

CONSTANTS c1, c2
MCCodes == {c1, c2}
MCScores == {1, 2}
MCElite == {2}
MCMemories == {0, 2}
MCWindow == [s \in Scope |-> 3]
MCHits == [s \in Scope |-> 2]
\* Both stocks up to day BothDays; after it only runs that one of them plays no part in.
CONSTANT BothDays
Bound == day <= BothDays \/ \E c \in Codes :
           /\ pos[c] = NoPosition /\ streak[c] = 0 /\ \A t \in trades : t.code # c
           /\ \A q \in DOMAIN queue : queue[q][c] = NoEntry
Symmetry == Permutations(MCCodes)
=============================================================================
